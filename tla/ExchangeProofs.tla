--------------------------- MODULE ExchangeProofs ---------------------------
(***************************************************************************)
(* The exchanges of a class A device: a message or a Join Request, from    *)
(* the call that begins it to the event that ends it.                      *)
(*                                                                         *)
(* An exchange is in one phase at a time, and in each phase it is known    *)
(* which timers run and what is left to be dispatched.  That is the        *)
(* inductive invariant.  It holds under the conditions a device is built   *)
(* for (Regular).  What happens without them, README.md tells: each of     *)
(* them is there because one of the properties fails without it.           *)
(***************************************************************************)
EXTENDS TrafficProofs

\* A channel is found, at once or after a wait; the network sends frames of this
\* device and no repetitions, and acknowledges what it answers; the application
\* stays in class A and disconnects between transactions; a frame is put on the air
\* by the radio, and windows do not overlap; the queue has room for six calls.
Regular ==
    /\ Outcomes \subseteq {"OK", "RESTRICTED"}
    /\ \A f \in Downlinks : f.kind \in {"accept", "reject", "first", "data"}
    /\ NetworkAcks
    /\ "class_c" \notin AppCalls /\ Patient
    /\ "tx_timeout" \notin RadioFaults /\ ~Overrun
    /\ QueueCap >= 6

-----------------------------------------------------------------------------
(* The queue *)

\* The calls that tell the application something, or make it send.
Light == {"event", "send_automatic_uplink_message"}

\* Nothing waits that belongs to an exchange.
Quiet(q) ==
    /\ Len(q) <= 3
    /\ \A i \in 1 .. Len(q) : q[i].fn \in Light

\* Of an exchange the call c waits, behind everything else.
Last(q, c) ==
    /\ Len(q) \in 1 .. 4
    /\ q[Len(q)] = c
    /\ \A i \in 1 .. Len(q) - 1 : q[i].fn \in Light

\* Of an exchange the call c waits.
Among(q, c) ==
    /\ Len(q) <= 4
    /\ \E i \in 1 .. Len(q) :
         /\ q[i] = c
         /\ \A j \in 1 .. Len(q) : j # i => q[j].fn \in Light

\* A queue without calls is empty.
LEMMA EmptyIs ==
    ASSUME NEW q \in Seq(Calls), Len(q) = 0
    PROVE  q = <<>>
OBVIOUS

\* The first call of a quiet queue is light.
LEMMA QuietTail ==
    ASSUME NEW q \in Seq(Calls), q # <<>>, Quiet(q)
    PROVE  Head(q).fn \in Light /\ Quiet(Tail(q)) /\ Len(Tail(q)) <= 2
<1>1. /\ Head(q) = q[1] /\ Len(Tail(q)) = Len(q) - 1 /\ Len(q) \in Nat /\ Len(q) > 0
      /\ \A i \in 1 .. Len(q) - 1 : Tail(q)[i] = q[i + 1]
  BY TailShifts
<1>2. ASSUME NEW i \in 1 .. Len(Tail(q))
      PROVE  Tail(q)[i].fn \in Light
  <2>1. i \in 1 .. Len(q) - 1 /\ i + 1 \in 1 .. Len(q)
    BY <1>1
  <2> QED
    BY <1>1, <2>1 DEF Quiet
<1> QED
  BY <1>1, <1>2 DEF Quiet

\* The call that waits behind everything else comes when nothing else is left.
LEMMA LastTail ==
    ASSUME NEW q \in Seq(Calls), NEW c, c.fn \notin Light, Last(q, c)
    PROVE  /\ q # <<>>
           /\ \/ Head(q) = c /\ Tail(q) = <<>>
              \/ Head(q).fn \in Light /\ Last(Tail(q), c)
<1>a. Len(q) \in 1 .. 4 /\ q[Len(q)] = c
  BY DEF Last
<1>0. q # <<>>
  BY <1>a
<1>1. /\ Head(q) = q[1] /\ Len(Tail(q)) = Len(q) - 1 /\ Len(q) \in Nat /\ Len(q) > 0
      /\ \A i \in 1 .. Len(q) - 1 : Tail(q)[i] = q[i + 1]
      /\ Tail(q) \in Seq(Calls)
  BY <1>0, TailShifts
<1>2. CASE Len(q) = 1
  <2>1. Len(Tail(q)) = 0
    BY <1>1, <1>2
  <2>2. Tail(q) = <<>>
    BY <1>1, <2>1, EmptyIs
  <2> QED
    BY <1>0, <1>1, <1>2, <1>a, <2>2
<1>3. CASE Len(q) > 1
  <2>1. Head(q).fn \in Light
    BY <1>1, <1>3 DEF Last
  <2>2. Len(Tail(q)) \in 1 .. 4
    BY <1>1, <1>3 DEF Last
  <2>3. Len(q) - 1 \in 1 .. Len(q) - 1 /\ (Len(q) - 1) + 1 = Len(q)
    BY <1>1, <1>3
  <2>4. Tail(q)[Len(Tail(q))] = c
    BY <1>1, <2>3 DEF Last
  <2>5. ASSUME NEW i \in 1 .. Len(Tail(q)) - 1
        PROVE  Tail(q)[i].fn \in Light
    <3>1. i \in 1 .. Len(q) - 1 /\ i + 1 \in 1 .. Len(q) - 1
      BY <1>1, <1>3
    <3> QED
      BY <1>1, <3>1 DEF Last
  <2> QED
    BY <1>0, <2>1, <2>2, <2>4, <2>5 DEF Last
<1> QED
  BY <1>1, <1>2, <1>3

\* The call that waits among others comes, or one of the others.
LEMMA AmongTail ==
    ASSUME NEW q \in Seq(Calls), NEW c, c.fn \notin Light, Among(q, c)
    PROVE  /\ q # <<>>
           /\ \/ Head(q) = c /\ Quiet(Tail(q))
              \/ Head(q).fn \in Light /\ Among(Tail(q), c)
<1>0. q # <<>>
  BY DEF Among
<1>1. /\ Head(q) = q[1] /\ Len(Tail(q)) = Len(q) - 1 /\ Len(q) \in Nat /\ Len(q) > 0
      /\ \A i \in 1 .. Len(q) - 1 : Tail(q)[i] = q[i + 1]
  BY <1>0, TailShifts
<1>2. PICK i \in 1 .. Len(q) : /\ q[i] = c
                               /\ \A j \in 1 .. Len(q) : j # i => q[j].fn \in Light
  BY DEF Among
<1>3. Len(Tail(q)) <= 3
  BY <1>1 DEF Among
<1>4. CASE i = 1
  <2>1. ASSUME NEW j \in 1 .. Len(Tail(q))
        PROVE  Tail(q)[j].fn \in Light
    <3>1. j \in 1 .. Len(q) - 1 /\ j + 1 \in 1 .. Len(q) /\ j + 1 # i
      BY <1>1, <1>4
    <3> QED
      BY <1>1, <1>2, <3>1
  <2> QED
    BY <1>0, <1>1, <1>2, <1>3, <1>4, <2>1 DEF Quiet
<1>5. CASE i # 1
  <2>1. i - 1 \in 1 .. Len(Tail(q)) /\ i - 1 \in 1 .. Len(q) - 1 /\ (i - 1) + 1 = i
    BY <1>1, <1>5
  <2>2. Tail(q)[i - 1] = c
    BY <1>1, <1>2, <2>1
  <2>3. ASSUME NEW j \in 1 .. Len(Tail(q)), j # i - 1
        PROVE  Tail(q)[j].fn \in Light
    <3>1. j \in 1 .. Len(q) - 1 /\ j + 1 \in 1 .. Len(q) /\ j + 1 # i
      BY <1>1, <2>3
    <3> QED
      BY <1>1, <1>2, <3>1
  <2>4. Among(Tail(q), c)
    BY <1>1, <1>3, <2>1, <2>2, <2>3 DEF Among
  <2>5. 1 \in 1 .. Len(q)
    BY <1>1
  <2>6. Head(q).fn \in Light
    BY <1>1, <1>2, <1>5, <2>5
  <2> QED
    BY <1>0, <2>4, <2>6
<1> QED
  BY <1>4, <1>5

\* What is added to a quiet queue waits behind everything else.
LEMMA QuietAppend ==
    ASSUME NEW q \in Seq(Calls), Quiet(q), NEW c \in Calls
    PROVE  /\ Last(Append(q, c), c)
           /\ Append(q, c) \in Seq(Calls) /\ Len(Append(q, c)) = Len(q) + 1
           /\ c.fn \in Light /\ Len(q) <= 2 => Quiet(Append(q, c))
<1>1. /\ Len(Append(q, c)) = Len(q) + 1 /\ Len(q) \in Nat
      /\ Append(q, c)[Len(q) + 1] = c
      /\ \A i \in 1 .. Len(q) : Append(q, c)[i] = q[i]
      /\ Append(q, c) \in Seq(Calls)
  OBVIOUS
<1> DEFINE r == Append(q, c)
<1> HIDE DEF r
<1>2. \A i \in 1 .. Len(r) - 1 : r[i].fn \in Light
  BY <1>1 DEF r, Quiet
<1>3. Last(r, c)
  BY <1>1, <1>2 DEF r, Last, Quiet
<1>4. c.fn \in Light /\ Len(q) <= 2 => Quiet(r)
  BY <1>1, <1>2 DEF r, Quiet
<1> QED
  BY <1>1, <1>3, <1>4 DEF r

\* Nothing is quiet.
LEMMA EmptyQuiet == <<>> \in Seq(Calls) /\ Quiet(<<>>) /\ Len(<<>>) = 0
BY DEF Quiet

\* A call of an exchange among light ones is not a quiet queue.
LEMMA NotQuiet ==
    ASSUME NEW q \in Seq(Calls), NEW c, c.fn \notin Light, Last(q, c) \/ Among(q, c)
    PROVE  ~Quiet(q) /\ Len(q) <= 4 /\ \E i \in 1 .. Len(q) : q[i] = c
<1>1. Len(q) \in Nat /\ Len(q) <= 4
  <2>1. CASE Last(q, c)
    BY <2>1 DEF Last
  <2>2. CASE Among(q, c)
    BY <2>2 DEF Among
  <2> QED
    BY <2>1, <2>2
<1>2. PICK i \in 1 .. Len(q) : q[i] = c
  <2>1. CASE Last(q, c)
    <3>1. Len(q) \in 1 .. 4 /\ q[Len(q)] = c
      BY <2>1 DEF Last
    <3>2. Len(q) \in 1 .. Len(q)
      BY <3>1
    <3> QED
      BY <3>1, <3>2
  <2>2. CASE Among(q, c)
    BY <2>2 DEF Among
  <2> QED
    BY <2>1, <2>2
<1> QED
  BY <1>1, <1>2 DEF Quiet

-----------------------------------------------------------------------------
(* What an operation of the device changes *)

Fields == {"state", "flags", "session_active", "automatic_uplink_ongoing",
           "rx_payload_in_use", "qos_cnt", "device_class", "nwk_joined", "can_cancel_tx",
           "continuous_rx2_window_open", "demod_ongoing", "rx_slot",
           "join_request_trial_counter", "ul_frame_counter", "dl_frame_counter",
           "nb_trans", "prev_qos_level", "ul_nb_rep_counter", "is_node_ack_requested",
           "is_srv_ack_requested", "ack_timeout_retry_counter", "max_ack_timeout_retries",
           "tx_ongoing", "tx_type", "tx_msg", "nb_trials", "tx_buffer", "req_type",
           "conf_status", "ack_received", "is_ack_recvd", "mlme_ind_pending", "armed",
           "orphans", "due", "radio"}

\* e is d, but for some of the fields F.
Alters(d, e, F) ==
    /\ DOMAIN d = Fields
    /\ DOMAIN e = Fields
    /\ \A f \in Fields \ F : e[f] = d[f]

\* A device with nothing left of an exchange but its timers: what a handler takes.
Ready(d) ==
    /\ DOMAIN d = Fields
    /\ d.due \in Seq(Calls)
    /\ Quiet(d.due)
    /\ d.orphans = {}

\* A device has these fields.
LEMMA DeviceFields ==
    ASSUME NEW d \in Devices
    PROVE  DOMAIN d = Fields
BY DEF Devices, Fields

\* Two alterations make one, and more may be said to be altered.
LEMMA AltersTransitive ==
    ASSUME NEW d, NEW e, NEW g, NEW F, NEW G, Alters(d, e, F), Alters(e, g, G)
    PROVE  Alters(d, g, F \cup G)
BY DEF Alters

LEMMA AltersMore ==
    ASSUME NEW d, NEW e, NEW F, NEW G, Alters(d, e, F), F \subseteq G
    PROVE  Alters(d, e, G)
BY DEF Alters

LEMMA AltersNothing ==
    ASSUME NEW d, DOMAIN d = Fields, NEW F
    PROVE  Alters(d, d, F)
BY DEF Alters

\* What leaves the queue alone leaves a ready device.
LEMMA ReadyStays ==
    ASSUME NEW d, Ready(d), NEW e, NEW F, Alters(d, e, F), "due" \notin F, "orphans" \notin F
    PROVE  Ready(e) /\ e.due = d.due
<1>1. e.due = d.due /\ e.orphans = d.orphans
  BY DEF Alters, Fields
<1> QED
  BY <1>1 DEF Ready, Alters

-----------------------------------------------------------------------------
(* Timers and calls of a ready device *)

\* No timer's call waits in a quiet queue.
LEMMA ReplaceNothing ==
    ASSUME NEW d, Ready(d), NEW t, NEW new
    PROVE  ReplaceDue(d, LiveCall(t), new) = d.due /\ ~InDue(d, LiveCall(t))
<1>1. DOMAIN d.due = 1 .. Len(d.due) /\ d.due = [i \in 1 .. Len(d.due) |-> d.due[i]]
  BY DEF Ready
<1>2. ASSUME NEW i \in 1 .. Len(d.due)
      PROVE  d.due[i] # LiveCall(t)
  <2>1. d.due[i].fn \in Light
    BY DEF Ready, Quiet
  <2>2. LiveCall(t).fn = "timer"
    BY DEF LiveCall
  <2> QED
    BY <2>1, <2>2 DEF Light
<1>3. ReplaceDue(d, LiveCall(t), new) = [i \in 1 .. Len(d.due) |-> d.due[i]]
  BY <1>1, <1>2, Zenon DEF ReplaceDue
<1> QED
  BY <1>1, <1>2, <1>3 DEF InDue

\* Stopping a timer only disarms it.
LEMMA StopIs ==
    ASSUME NEW d, Ready(d), NEW t
    PROVE  /\ Alters(d, stop(d, t), {"armed"})
           /\ stop(d, t).armed = d.armed \ {t}
           /\ Ready(stop(d, t))
<1>1. stop(d, t) = [d EXCEPT !.armed = d.armed \ {t}, !.due = d.due]
  BY ReplaceNothing DEF stop
<1>2. /\ Alters(d, stop(d, t), {"armed"})
      /\ stop(d, t).armed = d.armed \ {t}
  BY <1>1 DEF Alters, Fields, Ready
<1> QED
  BY <1>2, ReadyStays

\* With room, starting a timer that does not run arms it.
LEMMA StartIs ==
    ASSUME NEW d, Ready(d), NEW t, t \notin d.armed, Room(d)
    PROVE  /\ Alters(d, start(d, t), {"armed"})
           /\ start(d, t).armed = d.armed \cup {t}
           /\ Ready(start(d, t))
<1> DEFINE g == init(d, t)
           e == [g EXCEPT !.armed = g.armed \cup {t}]
<1>1. g = [d EXCEPT !.orphans = d.orphans, !.armed = d.armed \ {t}, !.due = d.due]
  BY ReplaceNothing DEF init
<1>2. /\ Alters(d, g, {})
      /\ g.armed = d.armed /\ g.orphans = d.orphans /\ g.due = d.due
  BY <1>1 DEF Alters, Fields, Ready
<1>3. Room(g)
  BY <1>2 DEF Room
<1>4. start(d, t) = e
  BY <1>3 DEF start
<1> HIDE DEF g
<1>5. Alters(d, e, {"armed"}) /\ e.armed = d.armed \cup {t}
  BY <1>2 DEF Alters, Fields
<1> QED
  BY <1>4, <1>5, ReadyStays

\* With room, posting a call adds it to the queue.
LEMMA PostIs ==
    ASSUME NEW d, DOMAIN d = Fields, Room(d), NEW c
    PROVE  /\ Alters(d, post(d, c), {"due"})
           /\ post(d, c).due = Append(d.due, c)
<1>1. post(d, c) = [d EXCEPT !.due = Append(d.due, c)]
  BY DEF post
<1> QED
  BY <1>1 DEF Alters, Fields

\* Two timers run at most when something is posted or started: there is room.
LEMMA RoomIs ==
    ASSUME QueueCap >= 6, NEW d, d.due \in Seq(Calls), Len(d.due) <= 3, d.orphans = {},
           NEW a, NEW b, d.armed \subseteq {a, b}
    PROVE  Room(d)
<1>1. IsFiniteSet({a}) /\ Cardinality({a}) = 1
  BY FS_Singleton
<1>2. IsFiniteSet({a} \cup {b}) /\ Cardinality({a} \cup {b}) \in {1, 2}
  <2>1. /\ IsFiniteSet({a} \cup {b})
        /\ Cardinality({a} \cup {b}) =
             IF b \in {a} THEN Cardinality({a}) ELSE Cardinality({a}) + 1
    BY <1>1, FS_AddElement
  <2> QED
    BY <1>1, <2>1
<1>3. {a} \cup {b} = {a, b}
  OBVIOUS
<1>4. d.armed \in SUBSET {a, b}
  OBVIOUS
<1>5. IsFiniteSet(d.armed) /\ Cardinality(d.armed) <= Cardinality({a, b})
  BY <1>2, <1>3, <1>4, FS_Subset
<1>6. Cardinality(d.armed) \in Nat
  BY <1>5, FS_CardinalityType
<1>7. Cardinality(d.orphans) = 0
  BY FS_EmptySet
<1>8. Len(d.due) \in Nat /\ QueueCap \in Nat
  BY BoundsAssumption
<1>9. Cardinality(d.armed) <= 2
  BY <1>2, <1>3, <1>5, <1>6
<1> QED
  BY <1>6, <1>7, <1>8, <1>9 DEF Room

-----------------------------------------------------------------------------
(* Sending *)

\* What scheduling a frame alters.
SchedFields == {"can_cancel_tx", "is_srv_ack_requested", "conf_status",
                "join_request_trial_counter", "radio", "armed"}

\* The frame is on the air, and no acknowledgement owed any more, or the backoff
\* timer runs.
Starts(d, e) ==
    \/ e.radio = "tx" /\ e.armed = d.armed /\ ~e.is_srv_ack_requested
    \/ /\ e.radio = d.radio
       /\ e.armed = d.armed \cup {"backoff"}
       /\ e.is_srv_ack_requested = d.is_srv_ack_requested

\* A frame is scheduled, and of the fields F more altered.
Scheduled(d, e, F) == Alters(d, e, SchedFields \cup F) /\ Starts(d, e)

\* What building a frame alters.
FrameFields == {"is_node_ack_requested", "tx_buffer"}

\* A device that may schedule a frame: the backoff timer is free.
Sendable(d) == Ready(d) /\ "backoff" \notin d.armed /\ Room(d)

Clear == {"OK", "RESTRICTED"}

\* With a channel to come, a frame is scheduled.
LEMMA ScheduleTxIs ==
    ASSUME NEW d, Sendable(d), NEW ch \in Clear
    PROVE  /\ schedule_tx(d, ch).status = "OK"
           /\ Scheduled(d, schedule_tx(d, ch).dev, {})
<1>1. CASE ch = "RESTRICTED"
  <2> DEFINE e == [d EXCEPT !.can_cancel_tx = TRUE]
             g == start(e, "backoff")
  <2>1. Alters(d, e, {"can_cancel_tx"}) /\ e.armed = d.armed /\ e.radio = d.radio
        /\ e.is_srv_ack_requested = d.is_srv_ack_requested
        /\ e.due = d.due /\ e.orphans = d.orphans
    BY DEF Alters, Fields, Sendable, Ready
  <2>2. Ready(e)
    BY <2>1, ReadyStays DEF Sendable
  <2>3. Room(e)
    BY <2>1 DEF Room, Sendable
  <2>4. schedule_tx(d, ch) = [dev |-> g, status |-> "OK"]
    BY <1>1 DEF schedule_tx, wait_for_duty_cycle
  <2> HIDE DEF e
  <2>5. Alters(e, g, {"armed"}) /\ g.armed = e.armed \cup {"backoff"}
    BY <2>1, <2>2, <2>3, StartIs DEF Sendable
  <2> HIDE DEF g
  <2>6. g.radio = e.radio /\ g.is_srv_ack_requested = e.is_srv_ack_requested
    BY <2>5 DEF Alters, Fields
  <2>7. Alters(d, g, SchedFields)
    BY <2>1, <2>5 DEF Alters, Fields, SchedFields
  <2> QED
    BY <2>1, <2>4, <2>5, <2>6, <2>7 DEF Scheduled, Starts
<1>2. CASE ch = "OK"
  <2> DEFINE trials == IF d.nwk_joined THEN d.join_request_trial_counter
                       ELSE d.join_request_trial_counter + 1
             e == [d EXCEPT !.is_srv_ack_requested = FALSE, !.can_cancel_tx = FALSE,
                            !.conf_status = "ERROR",
                            !.join_request_trial_counter = trials, !.radio = "tx"]
  <2>1. schedule_tx(d, ch) = [dev |-> send_frame_on_channel(
                                [d EXCEPT !.is_srv_ack_requested = FALSE,
                                          !.can_cancel_tx = FALSE]), status |-> "OK"]
    BY <1>2 DEF schedule_tx
  <2>2. send_frame_on_channel([d EXCEPT !.is_srv_ack_requested = FALSE,
                                        !.can_cancel_tx = FALSE]) = e
    BY DEF send_frame_on_channel, Sendable, Ready, Fields
  <2> HIDE DEF trials
  <2>3. Alters(d, e, SchedFields) /\ e.radio = "tx" /\ e.armed = d.armed
        /\ ~e.is_srv_ack_requested
    BY DEF Alters, Fields, SchedFields, Sendable, Ready
  <2> HIDE DEF e
  <2>4. schedule_tx(d, ch).status = "OK" /\ schedule_tx(d, ch).dev = e
    BY <2>1, <2>2
  <2>5. Starts(d, e) /\ Alters(d, e, SchedFields \cup {})
    BY <2>3 DEF Starts
  <2> QED
    BY <2>4, <2>5 DEF Scheduled
<1> QED
  BY <1>1, <1>2 DEF Clear

\* So is a Join Request, which wants no acknowledgement.
LEMMA SendJoinRequestIs ==
    ASSUME NEW d, Sendable(d), NEW ch \in Clear
    PROVE  LET r == send_join_request(d, ch)
           IN  /\ r.status = "CONNECT_IN_PROGRESS"
               /\ Scheduled(d, r.dev, FrameFields)
               /\ ~r.dev.is_node_ack_requested
<1> DEFINE frame == [NoTxBuffer EXCEPT !.join = TRUE]
           e == [d EXCEPT !.is_node_ack_requested = FALSE, !.tx_buffer = frame]
           g == schedule_tx(e, ch).dev
<1> HIDE DEF frame
<1>1. /\ Alters(d, e, FrameFields) /\ ~e.is_node_ack_requested
      /\ e.armed = d.armed /\ e.radio = d.radio /\ e.due = d.due /\ e.orphans = d.orphans
      /\ e.is_srv_ack_requested = d.is_srv_ack_requested
  BY DEF Alters, Fields, FrameFields, Sendable, Ready
<1>2. Sendable(e)
  <2>1. Ready(e)
    BY <1>1, ReadyStays DEF Sendable, FrameFields
  <2> QED
    BY <1>1, <2>1 DEF Sendable, Room
<1> HIDE DEF e
<1>3. schedule_tx(e, ch).status = "OK" /\ Scheduled(e, g, {})
  BY <1>2, ScheduleTxIs
<1>4. send_join_request(d, ch) = [dev |-> g, status |-> "CONNECT_IN_PROGRESS"]
  BY <1>3 DEF send_join_request, e, frame
<1> HIDE DEF g
<1>5. Alters(d, g, SchedFields \cup FrameFields) /\ g.is_node_ack_requested = e.is_node_ack_requested
  BY <1>1, <1>3 DEF Scheduled, Alters, Fields, SchedFields, FrameFields
<1> QED
  BY <1>1, <1>3, <1>4, <1>5 DEF Scheduled, Starts

\* And a retransmission, which within a session is the frame of before.
LEMMA HandleRetransmissionIs ==
    ASSUME NEW d, Sendable(d), NEW ch \in Clear
    PROVE  LET r == handle_retransmission(d, ch)
           IN  /\ d.nwk_joined => r.status = "OK" /\ Scheduled(d, r.dev, {})
               /\ ~d.nwk_joined => /\ r.status = "CONNECT_IN_PROGRESS"
                                   /\ Scheduled(d, r.dev, FrameFields)
                                   /\ ~r.dev.is_node_ack_requested
<1>1. CASE d.nwk_joined
  BY <1>1, ScheduleTxIs DEF handle_retransmission
<1>2. CASE ~d.nwk_joined
  BY <1>2, SendJoinRequestIs DEF handle_retransmission
<1> QED
  BY <1>1, <1>2

\* Within a session every frame can be built; it asks for an acknowledgement if it is
\* confirmed, and carries the one that is owed.
LEMMA PrepareFrameIs ==
    ASSUME NEW d, DOMAIN d = Fields, d.nwk_joined
    PROVE  LET r == prepare_frame(d)
           IN  /\ r.status = "OK"
               /\ Alters(d, r.dev, FrameFields)
               /\ r.dev.is_node_ack_requested = (d.tx_type = "CONFIRMED")
               /\ r.dev.tx_buffer.ack = AckBit(d)
<1> DEFINE wants == (d.tx_type = "CONFIRMED")
           bit == AckBit(d)
           frame == [join |-> FALSE, msg |-> d.tx_msg, ul |-> d.ul_frame_counter, ack |-> bit]
           e == [[d EXCEPT !.is_node_ack_requested = wants] EXCEPT !.tx_buffer = frame]
<1>1. prepare_frame(d) = [dev |-> e, status |-> "OK"]
  BY DEF prepare_frame
<1>2. frame.ack = bit
  OBVIOUS
<1> HIDE DEF wants, frame, bit
<1>3. Alters(d, e, FrameFields) /\ e.is_node_ack_requested = wants /\ e.tx_buffer = frame
  BY DEF Alters, Fields, FrameFields
<1> HIDE DEF e
<1>4. prepare_frame(d).dev = e /\ prepare_frame(d).status = "OK"
  BY <1>1
<1>5. e.is_node_ack_requested = (d.tx_type = "CONFIRMED")
  BY <1>3, Zenon DEF wants
<1>6. e.tx_buffer.ack = AckBit(d)
  BY <1>2, <1>3 DEF bit
<1> QED
  BY <1>3, <1>4, <1>5, <1>6, Zenon

\* What sending a message alters besides.
TxFields == FrameFields \cup {"req_type", "ack_received", "ack_timeout_retry_counter",
                              "max_ack_timeout_retries"}

\* Within a session a message is sent: the request is the message's.
LEMMA SendOngoingTxIs ==
    ASSUME NEW d, Sendable(d), d.nwk_joined, NEW ch \in Clear
    PROVE  LET r == send_ongoing_tx(d, ch)
           IN  /\ r.status = "OK"
               /\ Scheduled(d, r.dev, TxFields)
               /\ r.dev.req_type = d.tx_type
               /\ r.dev.is_node_ack_requested = (d.tx_type = "CONFIRMED")
               /\ r.dev.tx_buffer.ack = AckBit(d)
<1> DEFINE trials == IF d.tx_type = "CONFIRMED" THEN d.nb_trials ELSE 1
           e == [d EXCEPT !.req_type = "UNCONFIRMED", !.conf_status = "ERROR",
                          !.ack_received = FALSE, !.ack_timeout_retry_counter = 1,
                          !.max_ack_timeout_retries = trials]
           p == prepare_frame(e)
           g == p.dev
           s == schedule_tx(g, ch)
           h == s.dev
           k == [h EXCEPT !.req_type = d.tx_type]
<1> HIDE DEF trials
<1>1. /\ Alters(d, e, TxFields \cup SchedFields)
      /\ e.nwk_joined /\ e.tx_type = d.tx_type /\ e.is_srv_ack_requested = d.is_srv_ack_requested
      /\ e.armed = d.armed /\ e.radio = d.radio /\ e.due = d.due /\ e.orphans = d.orphans
  BY DEF Alters, Fields, TxFields, FrameFields, SchedFields, Sendable, Ready
<1>2. send_ongoing_tx(d, ch) =
        CASE p.status # "OK" -> p
          [] p.status = "OK" /\ s.status # "OK" -> s
          [] OTHER -> [dev |-> k, status |-> "OK"]
  BY DEF send_ongoing_tx, trials
<1> HIDE DEF e
<1>3. /\ p.status = "OK" /\ Alters(e, g, FrameFields)
      /\ g.is_node_ack_requested = (e.tx_type = "CONFIRMED") /\ g.tx_buffer.ack = AckBit(e)
  BY <1>1, PrepareFrameIs DEF Alters
<1> HIDE DEF p
<1>4. /\ g.armed = d.armed /\ g.radio = d.radio /\ g.due = d.due /\ g.orphans = d.orphans
      /\ g.is_srv_ack_requested = d.is_srv_ack_requested
  BY <1>1, <1>3 DEF Alters, Fields, FrameFields
<1>5. Sendable(g)
  BY <1>3, <1>4 DEF Sendable, Ready, Room, Alters
<1> HIDE DEF g
<1>6. s.status = "OK" /\ Scheduled(g, h, {})
  BY <1>5, ScheduleTxIs
<1>7. send_ongoing_tx(d, ch) = [dev |-> k, status |-> "OK"]
  BY <1>2, <1>3, <1>6
<1> HIDE DEF s
<1>8. Alters(g, h, SchedFields) /\ Starts(g, h)
  BY <1>6 DEF Scheduled
<1> HIDE DEF h
<1>9. /\ Alters(h, k, {"req_type"}) /\ k.req_type = d.tx_type
      /\ k.tx_buffer = g.tx_buffer /\ k.is_node_ack_requested = g.is_node_ack_requested
      /\ k.armed = h.armed /\ k.radio = h.radio
      /\ k.is_srv_ack_requested = h.is_srv_ack_requested
  BY <1>8 DEF Alters, Fields, SchedFields
<1> HIDE DEF k
<1>10. Alters(d, k, SchedFields \cup TxFields)
  BY <1>1, <1>3, <1>8, <1>9 DEF Alters, Fields, TxFields, FrameFields, SchedFields
<1>11. Starts(d, k)
  BY <1>4, <1>8, <1>9 DEF Starts
<1>12. AckBit(e) = AckBit(d)
  BY <1>1 DEF AckBit
<1>13. k.is_node_ack_requested = (d.tx_type = "CONFIRMED")
  BY <1>1, <1>3, <1>9, Zenon
<1>14. k.tx_buffer.ack = AckBit(d)
  BY <1>3, <1>9, <1>12
<1>15. send_ongoing_tx(d, ch).dev = k /\ send_ongoing_tx(d, ch).status = "OK"
  BY <1>7
<1> QED
  BY <1>9, <1>10, <1>11, <1>13, <1>14, <1>15, Zenon DEF Scheduled

\* What the scheduling state alters besides.
SendFields == TxFields \cup {"flags", "state", "tx_ongoing"}

\* A device that rests, or receives, sends the message.
LEMMA SchedulingIs ==
    ASSUME NEW d, Sendable(d), d.nwk_joined, d.state \in {"IDLE", "RECEIVING"}, NEW ch \in Clear
    PROVE  LET r == process_scheduling_state(d, ch)
           IN  /\ r.status = "OK"
               /\ Scheduled(d, r.dev, SendFields)
               /\ r.dev.tx_ongoing /\ r.dev.state = "SENDING" /\ r.dev.flags = d.flags \ {"TX_DONE"}
               /\ r.dev.req_type = d.tx_type
               /\ r.dev.is_node_ack_requested = (d.tx_type = "CONFIRMED")
               /\ r.dev.tx_buffer.ack = AckBit(d)
<1> DEFINE s == send_ongoing_tx(d, ch)
           g == s.dev
           k == [g EXCEPT !.flags = g.flags \ {"TX_DONE"}, !.can_cancel_tx = TRUE,
                          !.tx_ongoing = TRUE, !.state = "SENDING"]
<1>1. /\ s.status = "OK" /\ Scheduled(d, g, TxFields)
      /\ g.req_type = d.tx_type /\ g.is_node_ack_requested = (d.tx_type = "CONFIRMED")
      /\ g.tx_buffer.ack = AckBit(d)
  BY SendOngoingTxIs
<1>2. process_scheduling_state(d, ch) = [dev |-> k, status |-> "OK"]
  BY <1>1 DEF process_scheduling_state, set_tx_ongoing, clear_flags, set_state
<1> HIDE DEF s
<1>3. Alters(d, g, SchedFields \cup TxFields) /\ Starts(d, g)
  BY <1>1 DEF Scheduled
<1> HIDE DEF g
<1>4. /\ Alters(d, k, SchedFields \cup SendFields)
      /\ k.tx_ongoing /\ k.state = "SENDING" /\ k.flags = d.flags \ {"TX_DONE"}
      /\ k.req_type = g.req_type /\ k.is_node_ack_requested = g.is_node_ack_requested
      /\ k.tx_buffer = g.tx_buffer /\ k.radio = g.radio /\ k.armed = g.armed
      /\ k.is_srv_ack_requested = g.is_srv_ack_requested
  BY <1>3 DEF Alters, Fields, SendFields, TxFields, FrameFields, SchedFields
<1> HIDE DEF k
<1>5. Starts(d, k)
  BY <1>3, <1>4 DEF Starts
<1>6. process_scheduling_state(d, ch).dev = k /\ process_scheduling_state(d, ch).status = "OK"
  BY <1>2
<1>7. k.is_node_ack_requested = (d.tx_type = "CONFIRMED") /\ k.tx_buffer.ack = AckBit(d)
  BY <1>1, <1>4, Zenon
<1> QED
  BY <1>1, <1>4, <1>5, <1>6, <1>7, Zenon DEF Scheduled

-----------------------------------------------------------------------------
(* What the application is owed *)

\* The events that answer connect() and disconnect().
Replies == {"CONNECTED", "JOIN_FAILURE", "DISCONNECTED"}

IsEvent(c, S) == c.fn = "event" /\ c.event \in S

IsReport(c) == IsEvent(c, Reports)

IsReply(c) == IsEvent(c, Replies)

\* The events S on their way, the reports and the replies.
Announced(q, S) == Cardinality(EventsIn(q, S))

Count(q) == Announced(q, Reports)

Replied(q) == Announced(q, Replies)

\* The report that the message being sent will have.
Promised(d) == IF d.tx_ongoing /\ d.tx_msg # AutomaticUplink THEN 1 ELSE 0

Account(d) == Count(d.due) + Promised(d)

\* The device sends the application's messages only.
Manual(d) ==
    /\ ~d.automatic_uplink_ongoing /\ ~d.mlme_ind_pending
    /\ d.tx_ongoing => d.tx_msg # AutomaticUplink
    /\ \A i \in 1 .. Len(d.due) : d.due[i].fn # "send_automatic_uplink_message"

\* From d to e no report is owed more, or less.
Pays(d, e) == Manual(d) => Manual(e) /\ Account(e) = Account(d)

\* The reply that the attempt to connect will have.
Asked(d) == IF "CONN_IN_PROGRESS" \in d.flags THEN 1 ELSE 0

\* The uplink counter, once the message that is being sent is over.
Tally(d) == IF d.tx_ongoing THEN d.ul_frame_counter + 1 ELSE d.ul_frame_counter

\* No attempt to connect is begun, and without one the link stays as it is.
Linked(d, e) ==
    \/ "CONN_IN_PROGRESS" \in d.flags
    \/ /\ "CONN_IN_PROGRESS" \notin e.flags
       /\ "CONNECTED" \in e.flags <=> "CONNECTED" \in d.flags

\* The flags of the link are left alone.
SameLink(d, e) ==
    /\ "CONN_IN_PROGRESS" \in e.flags <=> "CONN_IN_PROGRESS" \in d.flags
    /\ "CONNECTED" \in e.flags <=> "CONNECTED" \in d.flags

\* From d to e no message and no attempt to connect begins: a message that ends is counted,
\* an attempt that ends is replied to.
Settles(d, e) ==
    /\ e.tx_ongoing => d.tx_ongoing
    /\ Tally(e) = Tally(d)
    /\ Linked(d, e)
    /\ Replied(e.due) + Asked(e) = Replied(d.due) + Asked(d)

\* From d to e nothing is owed more, or less.
Balances(d, e) == Pays(d, e) /\ (Manual(d) => Settles(d, e))

\* Events are counted.
LEMMA AnnouncedNat ==
    ASSUME NEW q \in Seq(Calls), NEW E
    PROVE  Announced(q, E) \in Nat
BY EventsFinite DEF Announced

\* The event of a call taken from the queue is no longer on its way.
LEMMA AnnouncedTail ==
    ASSUME NEW q \in Seq(Calls), q # <<>>, NEW E
    PROVE  Announced(q, E) = Announced(Tail(q), E) + (IF IsEvent(Head(q), E) THEN 1 ELSE 0)
<1> DEFINE S == EventsIn(Tail(q), E)
           T == EventsIn(q, E) \ {1}
           place == [i \in S |-> i + 1]
<1>0. /\ Tail(q) \in Seq(Calls) /\ Head(q) = q[1] /\ Len(Tail(q)) = Len(q) - 1
      /\ Len(q) \in Nat /\ Len(q) > 0
      /\ \A i \in 1 .. Len(q) - 1 : Tail(q)[i] = q[i + 1]
  BY TailShifts
<1>1. /\ IsFiniteSet(S) /\ Cardinality(S) \in Nat
      /\ IsFiniteSet(EventsIn(q, E)) /\ Cardinality(EventsIn(q, E)) \in Nat
  BY <1>0, EventsFinite
<1>2. ASSUME NEW i \in S
      PROVE  i \in Nat /\ i + 1 \in T
  BY <1>0 DEF EventsIn
<1>3. ASSUME NEW j \in T
      PROVE  j \in Nat /\ j - 1 \in S
  <2>1. j \in 1 .. Len(q) /\ j # 1 /\ q[j].fn = "event" /\ q[j].event \in E
    BY DEF EventsIn
  <2>2. j - 1 \in 1 .. Len(q) - 1 /\ (j - 1) + 1 = j
    BY <1>0, <2>1
  <2>3. Tail(q)[j - 1] = q[j]
    BY <1>0, <2>2
  <2> QED
    BY <1>0, <2>1, <2>2, <2>3 DEF EventsIn
<1>4. place \in [S -> T]
  BY <1>2
<1>5. \A i, j \in S : place[i] = place[j] => i = j
  BY <1>2
<1>6. \A j \in T : \E i \in S : place[i] = j
  BY <1>3
<1> HIDE DEF S, T, place
<1>7. ExistsBijection(S, T)
  BY <1>4, <1>5, <1>6 DEF ExistsBijection, Bijection, Injection, IsInjective, Surjection
<1>8. Cardinality(T) = Cardinality(S)
  BY <1>1, <1>7, FS_Bijection
<1>9. Cardinality(T) = IF 1 \in EventsIn(q, E) THEN Cardinality(EventsIn(q, E)) - 1
                       ELSE Cardinality(EventsIn(q, E))
  BY <1>1, FS_RemoveElement DEF T
<1>10. 1 \in EventsIn(q, E) <=> IsEvent(Head(q), E)
  BY <1>0 DEF EventsIn, IsEvent
<1> QED
  BY <1>1, <1>8, <1>9, <1>10 DEF Announced, S

\* An event that is posted is on its way.
LEMMA AnnouncedAppend ==
    ASSUME NEW q \in Seq(Calls), NEW c \in Calls, NEW E
    PROVE  Announced(Append(q, c), E) = Announced(q, E) + (IF IsEvent(c, E) THEN 1 ELSE 0)
<1> DEFINE n == Len(q) + 1
           r == Append(q, c)
           S == EventsIn(q, E)
<1>0. /\ Len(r) = n /\ Len(q) \in Nat /\ r[n] = c
      /\ \A i \in 1 .. Len(q) : r[i] = q[i]
  OBVIOUS
<1> HIDE DEF r
<1>1. IsFiniteSet(S) /\ Cardinality(S) \in Nat
  BY EventsFinite
<1>2. n \notin S
  BY <1>0 DEF EventsIn
<1>3. EventsIn(r, E) = IF IsEvent(c, E) THEN S \cup {n} ELSE S
  <2>1. ASSUME NEW i
        PROVE  i \in EventsIn(r, E) <=> i \in S \/ (i = n /\ IsEvent(c, E))
    <3>1. i \in 1 .. Len(r) <=> i \in 1 .. Len(q) \/ i = n
      BY <1>0
    <3>2. CASE i \in 1 .. Len(q)
      BY <1>0, <3>1, <3>2 DEF EventsIn
    <3>3. CASE i = n
      BY <1>0, <1>2, <3>1, <3>3 DEF EventsIn, IsEvent
    <3>4. CASE i \notin 1 .. Len(q) /\ i # n
      BY <3>1, <3>4 DEF EventsIn
    <3> QED
      BY <3>2, <3>3, <3>4
  <2> HIDE DEF S, n
  <2> QED
    BY <2>1
<1> HIDE DEF S
<1>4. Cardinality(S \cup {n}) = Cardinality(S) + 1
  BY <1>1, <1>2, FS_AddElement
<1> QED
  BY <1>1, <1>3, <1>4 DEF Announced, S, r

\* In an empty queue nothing is on its way.
LEMMA AnnouncedEmpty ==
    ASSUME NEW E
    PROVE  Announced(<<>>, E) = 0
<1>1. EventsIn(<<>>, E) = {}
  BY DEF EventsIn
<1> QED
  BY <1>1, FS_EmptySet DEF Announced

\* So are the reports and the replies.
LEMMA CountNat ==
    ASSUME NEW q \in Seq(Calls)
    PROVE  Count(q) \in Nat /\ Replied(q) \in Nat
BY AnnouncedNat DEF Count, Replied

LEMMA CountTail ==
    ASSUME NEW q \in Seq(Calls), q # <<>>
    PROVE  /\ Count(q) = Count(Tail(q)) + (IF IsReport(Head(q)) THEN 1 ELSE 0)
           /\ Replied(q) = Replied(Tail(q)) + (IF IsReply(Head(q)) THEN 1 ELSE 0)
BY AnnouncedTail DEF Count, Replied, IsReport, IsReply

LEMMA CountAppend ==
    ASSUME NEW q \in Seq(Calls), NEW c \in Calls
    PROVE  /\ Count(Append(q, c)) = Count(q) + (IF IsReport(c) THEN 1 ELSE 0)
           /\ Replied(Append(q, c)) = Replied(q) + (IF IsReply(c) THEN 1 ELSE 0)
BY AnnouncedAppend DEF Count, Replied, IsReport, IsReply

LEMMA CountEmpty == Count(<<>>) = 0 /\ Replied(<<>>) = 0
BY AnnouncedEmpty DEF Count, Replied

\* The message that is being sent in d is over in e, and reported.
Reported(d, e) ==
    /\ Pays(d, e) /\ ~e.tx_ongoing /\ e.ul_frame_counter = d.ul_frame_counter
    /\ SameLink(d, e) /\ Replied(e.due) = Replied(d.due)

\* What leaves the message and the queue alone leaves the account.
LEMMA AltersPays ==
    ASSUME NEW d, NEW e, NEW F, Alters(d, e, F), "due" \notin F, "tx_ongoing" \notin F,
           "tx_msg" \notin F, "automatic_uplink_ongoing" \notin F, "mlme_ind_pending" \notin F
    PROVE  Pays(d, e)
<1>1. /\ e.due = d.due /\ e.tx_ongoing = d.tx_ongoing /\ e.tx_msg = d.tx_msg
      /\ e.automatic_uplink_ongoing = d.automatic_uplink_ongoing
      /\ e.mlme_ind_pending = d.mlme_ind_pending
  BY DEF Alters, Fields
<1> QED
  BY <1>1 DEF Pays, Manual, Account, Promised

\* If it leaves the counter and the flags of the link alone too, nothing is owed more.
LEMMA AltersBalances ==
    ASSUME NEW d, NEW e, NEW F, Alters(d, e, F), "due" \notin F, "tx_ongoing" \notin F,
           "tx_msg" \notin F, "automatic_uplink_ongoing" \notin F, "mlme_ind_pending" \notin F,
           "ul_frame_counter" \notin F, "flags" \in F => SameLink(d, e)
    PROVE  Balances(d, e)
<1>1. Pays(d, e)
  BY AltersPays
<1>2. /\ e.due = d.due /\ e.tx_ongoing = d.tx_ongoing
      /\ e.ul_frame_counter = d.ul_frame_counter
      /\ "flags" \notin F => e.flags = d.flags
  BY DEF Alters, Fields
<1>3. SameLink(d, e)
  BY <1>2 DEF SameLink
<1>4. Settles(d, e)
  BY <1>2, <1>3 DEF Settles, Tally, Linked, SameLink, Asked
<1> QED
  BY <1>1, <1>4 DEF Balances

LEMMA BalancesTransitive ==
    ASSUME NEW d, NEW e, NEW g, Balances(d, e), Balances(e, g)
    PROVE  Balances(d, g)
<1>1. Settles(d, e) /\ Settles(e, g) => Settles(d, g)
  BY DEF Settles, Linked
<1> QED
  BY <1>1 DEF Balances, Pays

\* A call that is neither a report nor an automatic uplink is not paid for.
LEMMA PostPays ==
    ASSUME NEW d, d.due \in Seq(Calls), NEW c \in Calls, ~IsReport(c),
           c.fn # "send_automatic_uplink_message",
           NEW e, NEW F, Alters(d, e, F), e.due = Append(d.due, c), "tx_ongoing" \notin F,
           "tx_msg" \notin F, "automatic_uplink_ongoing" \notin F, "mlme_ind_pending" \notin F
    PROVE  Pays(d, e)
<1>1. /\ e.tx_ongoing = d.tx_ongoing /\ e.tx_msg = d.tx_msg
      /\ e.automatic_uplink_ongoing = d.automatic_uplink_ongoing
      /\ e.mlme_ind_pending = d.mlme_ind_pending
  BY DEF Alters, Fields
<1>2. Count(e.due) = Count(d.due)
  BY CountAppend, CountNat
<1>3. ASSUME Manual(d), NEW i \in 1 .. Len(e.due)
      PROVE  e.due[i].fn # "send_automatic_uplink_message"
  <2>1. CASE i \in 1 .. Len(d.due)
    BY <1>3, <2>1 DEF Manual
  <2>2. CASE i = Len(d.due) + 1
    BY <2>2
  <2> QED
    BY <1>3, <2>1, <2>2
<1> QED
  BY <1>1, <1>2, <1>3 DEF Pays, Manual, Account, Promised

\* If it is no reply either, nothing is owed more.
LEMMA PostBalances ==
    ASSUME NEW d, d.due \in Seq(Calls), NEW c \in Calls, ~IsReport(c), ~IsReply(c),
           c.fn # "send_automatic_uplink_message",
           NEW e, NEW F, Alters(d, e, F), e.due = Append(d.due, c), "tx_ongoing" \notin F,
           "tx_msg" \notin F, "automatic_uplink_ongoing" \notin F, "mlme_ind_pending" \notin F,
           "ul_frame_counter" \notin F, "flags" \notin F
    PROVE  Balances(d, e)
<1>1. Pays(d, e)
  BY PostPays
<1>2. /\ e.tx_ongoing = d.tx_ongoing /\ e.ul_frame_counter = d.ul_frame_counter
      /\ e.flags = d.flags
  BY DEF Alters, Fields
<1>3. Replied(e.due) = Replied(d.due)
  BY CountAppend, CountNat
<1>4. Settles(d, e)
  BY <1>2, <1>3 DEF Settles, Tally, Linked, Asked
<1> QED
  BY <1>1, <1>4 DEF Balances

\* A reply is no report.
LEMMA ReplyPays ==
    ASSUME NEW d, d.due \in Seq(Calls), NEW event \in Replies, NEW e, NEW F,
           Alters(d, e, F), e.due = Append(d.due, [fn |-> "event", event |-> event]),
           "tx_ongoing" \notin F, "tx_msg" \notin F, "automatic_uplink_ongoing" \notin F,
           "mlme_ind_pending" \notin F
    PROVE  /\ Pays(d, e)
           /\ Replied(e.due) = Replied(d.due) + 1 /\ Count(e.due) = Count(d.due)
<1> DEFINE c == [fn |-> "event", event |-> event]
<1>1. /\ c \in Calls /\ ~IsReport(c) /\ IsReply(c)
      /\ c.fn # "send_automatic_uplink_message"
  BY DEF Calls, AppEvents, IsReport, IsReply, IsEvent, Reports, Replies
<1>2. e.due = Append(d.due, c)
  OBVIOUS
<1> HIDE DEF c
<1>3. Pays(d, e)
  BY <1>1, <1>2, PostPays
<1>4. Replied(e.due) = Replied(d.due) + 1 /\ Count(e.due) = Count(d.due)
  BY <1>1, <1>2, CountAppend, CountNat
<1> QED
  BY <1>3, <1>4

\* The reply to the attempt to connect that ends takes the place of what was asked.
LEMMA ReplyBalances ==
    ASSUME NEW d, d.due \in Seq(Calls), NEW event \in Replies, NEW e, NEW F,
           Alters(d, e, F), e.due = Append(d.due, [fn |-> "event", event |-> event]),
           "tx_ongoing" \notin F, "tx_msg" \notin F, "automatic_uplink_ongoing" \notin F,
           "mlme_ind_pending" \notin F, "ul_frame_counter" \notin F,
           "CONN_IN_PROGRESS" \in d.flags, "CONN_IN_PROGRESS" \notin e.flags
    PROVE  Balances(d, e)
<1>1. Pays(d, e) /\ Replied(e.due) = Replied(d.due) + 1 /\ Replied(d.due) \in Nat
  BY ReplyPays, CountNat
<1>2. e.tx_ongoing = d.tx_ongoing /\ e.ul_frame_counter = d.ul_frame_counter
  BY DEF Alters, Fields
<1>3. Settles(d, e)
  BY <1>1, <1>2 DEF Settles, Tally, Linked, Asked
<1> QED
  BY <1>1, <1>3 DEF Balances

\* The report of the message that ends takes the place of what was promised.
LEMMA ReportEnds ==
    ASSUME NEW d, d.due \in Seq(Calls), d.tx_ongoing, NEW c \in Calls, IsReport(c),
           NEW e, NEW F, Alters(d, e, F), "automatic_uplink_ongoing" \notin F,
           "mlme_ind_pending" \notin F, "ul_frame_counter" \notin F,
           ~e.tx_ongoing, e.due = Append(d.due, c), SameLink(d, e)
    PROVE  Reported(d, e)
<1>1. /\ e.automatic_uplink_ongoing = d.automatic_uplink_ongoing
      /\ e.mlme_ind_pending = d.mlme_ind_pending
      /\ e.ul_frame_counter = d.ul_frame_counter
  BY DEF Alters, Fields
<1>0. ~IsReply(c) /\ c.fn = "event"
  BY DEF IsReport, IsReply, IsEvent, Reports, Replies
<1>2. /\ Count(e.due) = Count(d.due) + 1 /\ Count(d.due) \in Nat
      /\ Replied(e.due) = Replied(d.due)
  BY <1>0, CountAppend, CountNat
<1>3. ASSUME Manual(d), NEW i \in 1 .. Len(e.due)
      PROVE  e.due[i].fn # "send_automatic_uplink_message"
  <2>1. CASE i \in 1 .. Len(d.due)
    BY <1>3, <2>1 DEF Manual
  <2>2. CASE i = Len(d.due) + 1
    BY <1>0, <2>2
  <2> QED
    BY <1>3, <2>1, <2>2
<1>4. Manual(d) => Promised(d) = 1 /\ Promised(e) = 0
  BY DEF Manual, Promised
<1>5. Pays(d, e)
  BY <1>1, <1>2, <1>3, <1>4 DEF Pays, Manual, Account
<1> QED
  BY <1>1, <1>2, <1>5 DEF Reported

\* With the counter moved on before it, the end of a message leaves the accounts.
LEMMA EndedBalances ==
    ASSUME NEW d, d.tx_ongoing, NEW p, NEW F, Alters(d, p, F), "due" \notin F,
           "tx_ongoing" \notin F, "tx_msg" \notin F, "automatic_uplink_ongoing" \notin F,
           "mlme_ind_pending" \notin F, "flags" \in F => SameLink(d, p),
           p.ul_frame_counter = d.ul_frame_counter + 1, NEW e, Reported(p, e)
    PROVE  Balances(d, e)
<1>1. Pays(d, p)
  BY AltersPays
<1>2. p.due = d.due /\ ("flags" \notin F => p.flags = d.flags)
  BY DEF Alters, Fields
<1>3. SameLink(d, p)
  BY <1>2 DEF SameLink
<1>4. Settles(d, e)
  BY <1>2, <1>3 DEF Settles, Tally, Linked, SameLink, Asked, Reported
<1> QED
  BY <1>1, <1>4 DEF Balances, Pays, Reported

\* The device without the call that is dispatched.
Popping(d) == [d EXCEPT !.due = Tail(d.due)]

\* A call that is taken from the queue leaves the account, but for a report that is told.
LEMMA PoppingBalances ==
    ASSUME NEW d, DOMAIN d = Fields, d.due \in Seq(Calls), d.due # <<>>, Manual(d)
    PROVE  /\ Manual(Popping(d))
           /\ Account(d) = Account(Popping(d)) + (IF IsReport(Head(d.due)) THEN 1 ELSE 0)
<1> DEFINE p == Popping(d)
<1>1. Alters(d, p, {"due"}) /\ p.due = Tail(d.due)
  BY DEF Popping, Alters, Fields
<1> HIDE DEF p
<1>2. /\ p.tx_ongoing = d.tx_ongoing /\ p.tx_msg = d.tx_msg
      /\ p.automatic_uplink_ongoing = d.automatic_uplink_ongoing
      /\ p.mlme_ind_pending = d.mlme_ind_pending
  BY <1>1 DEF Alters, Fields
<1>3. \A i \in 1 .. Len(p.due) : p.due[i].fn # "send_automatic_uplink_message"
  BY <1>1, TailShifts DEF Manual
<1>4. Count(d.due) = Count(p.due) + (IF IsReport(Head(d.due)) THEN 1 ELSE 0)
      /\ Count(p.due) \in Nat
  BY <1>1, CountTail, CountNat, TailShifts
<1>5. Promised(p) = Promised(d) /\ Promised(d) \in {0, 1}
  BY <1>2 DEF Promised
<1> QED
  BY <1>2, <1>3, <1>4, <1>5 DEF Manual, Account, p

-----------------------------------------------------------------------------
(* The phases of an exchange *)

Repetition == [fn |-> "state_controller_scheduling"]
Silence(b) == [fn |-> "process_reception_timeout", is_timeout |-> b]
Reception(f) == [fn |-> "process_reception", frame |-> f]

AckTimer(d) == IF d.is_node_ack_requested THEN {"ack"} ELSE {}

\* The timers that run while the window is open.
Left(d, slot) == IF slot = "RX1" THEN {"rx2"} \cup AckTimer(d) ELSE AckTimer(d)

\* The timer t runs, or its callback waits, and the timers T run.
Pends(d, t, T) ==
    \/ d.armed = T \cup {t} /\ Quiet(d.due)
    \/ d.armed = T /\ Last(d.due, LiveCall(t))

\* A message is being sent.
Transmits(d) ==
    /\ d.tx_ongoing /\ d.nwk_joined /\ "CONN_IN_PROGRESS" \notin d.flags
    /\ d.req_type = d.tx_type
    /\ d.is_node_ack_requested <=> d.tx_type = "CONFIRMED"
    /\ d.state \in {"SENDING", "AWAITING_ACK"}

\* A Join Request is being sent, or answered: no uplink was counted yet.
Joins(d, s) ==
    /\ ~d.tx_ongoing /\ ~d.nwk_joined /\ {"CONN_IN_PROGRESS", "USING_OTAA"} \subseteq d.flags
    /\ ~d.is_node_ack_requested /\ d.ul_frame_counter = 0
    /\ d.state = s

Exchange(d, s) == Transmits(d) \/ Joins(d, s)

\* An acknowledgement that is owed is in the frame that waits.
Conveys(d) ==
    d.is_srv_ack_requested /\ d.nwk_joined /\ d.tx_type # "PROPRIETARY" => d.tx_buffer.ack

\* From d to e an acknowledgement that is owed stays so, or is on the air.
AckKept(d, e) ==
    d.is_srv_ack_requested /\ e.nwk_joined /\ e.tx_type # "PROPRIETARY" =>
        e.is_srv_ack_requested \/ (e.radio = "tx" /\ e.tx_buffer.ack)

Resting(d) ==
    /\ ~d.tx_ongoing /\ "CONN_IN_PROGRESS" \notin d.flags
    /\ d.radio = "sleep" /\ d.armed = {} /\ Quiet(d.due)

\* The duty cycle is waited for.
Delayed(d) ==
    Exchange(d, "JOINING") /\ d.radio = "sleep" /\ Conveys(d) /\ Pends(d, "backoff", {})

\* The frame is on the air.
Sending(d) ==
    /\ Exchange(d, "JOINING") /\ d.radio = "tx" /\ ~d.is_srv_ack_requested
    /\ d.armed = {} /\ Quiet(d.due)

Transmitted(d) ==
    /\ Exchange(d, "JOINING") /\ d.radio = "standby" /\ ~d.is_srv_ack_requested
    /\ d.armed = {} /\ Last(d.due, Sent)

\* The window is to open.
Awaits(d, slot) ==
    /\ Exchange(d, "AWAITING_JOIN_ACCEPT") /\ d.radio = "sleep" /\ ~d.is_srv_ack_requested
    /\ \/ slot = "RX1" /\ Pends(d, "rx1", Left(d, "RX1"))
       \/ slot = "RX2" /\ Pends(d, "rx2", Left(d, "RX2")) /\ ~d.demod_ongoing

\* The window is open.
Listens(d, slot) ==
    /\ Exchange(d, "AWAITING_JOIN_ACCEPT") /\ d.radio = "rx" /\ ~d.is_srv_ack_requested
    /\ d.rx_slot = slot /\ d.armed = Left(d, slot) /\ Quiet(d.due)

\* The frames that may have arrived.
Receivable(d, f) ==
    /\ f \in Downlinks
    /\ d.nwk_joined <=> f.kind \in {"first", "data"}
    /\ d.is_node_ack_requested => f.ack

\* The window is closed, with a frame or without.
Closes(d, slot) ==
    /\ Exchange(d, "AWAITING_JOIN_ACCEPT") /\ d.radio = "standby" /\ ~d.is_srv_ack_requested
    /\ d.rx_slot = slot /\ d.armed = Left(d, slot)
    /\ \/ \E b \in BOOLEAN : Last(d.due, Silence(b))
       \/ \E f \in Downlinks : Receivable(d, f) /\ Last(d.due, Reception(f))

\* No acknowledgement came: the message is to be retransmitted.
AckAwaited(d) ==
    /\ Transmits(d) /\ d.tx_type = "CONFIRMED"
    /\ d.radio = "sleep" /\ ~d.is_srv_ack_requested
    /\ ~(d.ack_timeout_retry_counter > d.max_ack_timeout_retries)
    /\ Pends(d, "ack", {})

\* The message is to be repeated.
Repeating(d) ==
    /\ d.tx_ongoing /\ d.nwk_joined /\ "CONN_IN_PROGRESS" \notin d.flags
    /\ d.tx_type # "CONFIRMED" /\ d.state \in {"IDLE", "RECEIVING"}
    /\ d.radio = "sleep" /\ d.armed = {} /\ Among(d.due, Repetition)

Slots == {"RX1", "RX2"}

Begun(d) == Sending(d) \/ Delayed(d)

Phase(d) ==
    \/ Resting(d) \/ Begun(d) \/ Transmitted(d)
    \/ \E slot \in Slots : Awaits(d, slot) \/ Listens(d, slot) \/ Closes(d, slot)
    \/ AckAwaited(d) \/ Repeating(d)

\* In class A no timer is forgotten, and outside a session no uplink is due.
Orderly(d) ==
    /\ DOMAIN d = Fields /\ d.due \in Seq(Calls)
    /\ d.device_class = "A" /\ d.orphans = {}
    /\ ~d.nwk_joined => \A i \in 1 .. Len(d.due) : d.due[i].fn # "send_automatic_uplink_message"

\* The phase of the device.
InPhase(d) == Orderly(d) /\ Phase(d)

\* A device without timers, its radio asleep.
Alone(d) == Orderly(d) /\ d.radio = "sleep" /\ d.armed = {} /\ Quiet(d.due)

\* It has the room to schedule a frame.
LEMMA AloneSends ==
    ASSUME QueueCap >= 6, NEW d, Alone(d)
    PROVE  Sendable(d)
<1>1. Len(d.due) <= 3 /\ d.armed \subseteq {"rx1", "rx2"}
  BY DEF Alone, Quiet
<1>2. Room(d)
  BY <1>1, RoomIs DEF Alone, Orderly
<1> QED
  BY <1>2 DEF Sendable, Ready, Alone, Orderly

\* A device scheduled to send is on the air, or waits for the duty cycle.
LEMMA ScheduledPends ==
    ASSUME NEW d, Alone(d), NEW e, NEW F, Scheduled(d, e, F), "due" \notin F,
           "orphans" \notin F, "device_class" \notin F, "nwk_joined" \notin F
    PROVE  /\ Orderly(e) /\ Quiet(e.due) /\ e.due = d.due
           /\ \/ e.radio = "tx" /\ e.armed = {} /\ ~e.is_srv_ack_requested
              \/ /\ e.radio = "sleep" /\ Pends(e, "backoff", {})
                 /\ e.is_srv_ack_requested = d.is_srv_ack_requested
<1>1. Alters(d, e, SchedFields \cup F) /\ Starts(d, e)
  BY DEF Scheduled
<1>2. /\ e.due = d.due /\ e.orphans = d.orphans /\ e.device_class = d.device_class
      /\ e.nwk_joined = d.nwk_joined /\ DOMAIN e = Fields
  BY <1>1 DEF Alters, Fields, SchedFields
<1>3. Orderly(e) /\ Quiet(e.due)
  BY <1>2 DEF Orderly, Alone
<1> QED
  BY <1>1, <1>2, <1>3 DEF Starts, Alone, Pends

\* The frame of an exchange is put on the air, or waits for the duty cycle again.
LEMMA FrameBegins ==
    ASSUME QueueCap >= 6, NEW d, Alone(d), Exchange(d, "JOINING"), Conveys(d), NEW ch \in Clear
    PROVE  LET r == schedule_tx(d, ch)
           IN  /\ r.status = "OK" /\ Orderly(r.dev) /\ Begun(r.dev)
               /\ r.dev.due = d.due /\ Alters(d, r.dev, SchedFields)
               /\ AckKept(d, r.dev) /\ Balances(d, r.dev)
<1> DEFINE r == schedule_tx(d, ch)
           e == r.dev
<1>1. r.status = "OK" /\ Scheduled(d, e, {})
  BY AloneSends, ScheduleTxIs
<1> HIDE DEF r
<1>2. /\ Orderly(e) /\ Quiet(e.due) /\ e.due = d.due
      /\ \/ e.radio = "tx" /\ e.armed = {} /\ ~e.is_srv_ack_requested
         \/ /\ e.radio = "sleep" /\ Pends(e, "backoff", {})
            /\ e.is_srv_ack_requested = d.is_srv_ack_requested
  BY <1>1, ScheduledPends
<1>3. Alters(d, e, SchedFields)
  BY <1>1 DEF Scheduled
<1>7. Balances(d, e)
  BY <1>3, AltersBalances DEF SchedFields
<1> HIDE DEF e
<1>4. /\ e.tx_ongoing = d.tx_ongoing /\ e.nwk_joined = d.nwk_joined /\ e.flags = d.flags
      /\ e.req_type = d.tx_type <=> d.req_type = d.tx_type
      /\ e.tx_type = d.tx_type /\ e.is_node_ack_requested = d.is_node_ack_requested
      /\ e.state = d.state /\ e.tx_buffer = d.tx_buffer /\ e.ul_frame_counter = d.ul_frame_counter
  BY <1>3 DEF Alters, Fields, SchedFields
<1>5. Exchange(e, "JOINING")
  BY <1>4 DEF Exchange, Transmits, Joins
<1>6. Begun(e)
  BY <1>2, <1>4, <1>5 DEF Begun, Sending, Delayed, Conveys
<1>8. AckKept(d, e)
  BY <1>2, <1>4 DEF AckKept, Conveys
<1> QED
  BY <1>1, <1>2, <1>3, <1>6, <1>7, <1>8 DEF e, r

\* So is the frame of a message that begins.
LEMMA MessageBegins ==
    ASSUME QueueCap >= 6, NEW d, Alone(d), d.nwk_joined, "CONN_IN_PROGRESS" \notin d.flags,
           d.state \in {"IDLE", "RECEIVING"}, NEW ch \in Clear
    PROVE  LET r == process_scheduling_state(d, ch)
           IN  /\ r.status = "OK" /\ Orderly(r.dev) /\ Begun(r.dev)
               /\ r.dev.due = d.due /\ r.dev.tx_ongoing /\ Alters(d, r.dev, SchedFields \cup SendFields)
               /\ r.dev.flags = d.flags \ {"TX_DONE"} /\ AckKept(d, r.dev)
<1> DEFINE r == process_scheduling_state(d, ch)
           e == r.dev
<1>1. /\ r.status = "OK" /\ Scheduled(d, e, SendFields)
      /\ e.tx_ongoing /\ e.state = "SENDING" /\ e.flags = d.flags \ {"TX_DONE"}
      /\ e.req_type = d.tx_type /\ e.is_node_ack_requested = (d.tx_type = "CONFIRMED")
      /\ e.tx_buffer.ack = AckBit(d)
  BY AloneSends, SchedulingIs
<1> HIDE DEF r
<1>2. Alters(d, e, SchedFields \cup SendFields)
  BY <1>1 DEF Scheduled
<1>3. /\ Orderly(e) /\ Quiet(e.due) /\ e.due = d.due
      /\ \/ e.radio = "tx" /\ e.armed = {} /\ ~e.is_srv_ack_requested
         \/ /\ e.radio = "sleep" /\ Pends(e, "backoff", {})
            /\ e.is_srv_ack_requested = d.is_srv_ack_requested
  <2>1. /\ "due" \notin SendFields /\ "orphans" \notin SendFields
        /\ "device_class" \notin SendFields /\ "nwk_joined" \notin SendFields
    BY DEF SendFields, TxFields, FrameFields
  <2> QED
    BY <1>1, <2>1, ScheduledPends
<1> HIDE DEF e
<1>4. e.nwk_joined = d.nwk_joined /\ e.tx_type = d.tx_type
  BY <1>2 DEF Alters, Fields, SchedFields, SendFields, TxFields, FrameFields
<1>5. Transmits(e)
  BY <1>1, <1>4 DEF Transmits
<1>6. Begun(e)
  <2>1. e.is_srv_ack_requested = d.is_srv_ack_requested => Conveys(e)
    BY <1>1, <1>4 DEF Conveys, AckBit
  <2> QED
    BY <1>3, <1>5, <2>1 DEF Begun, Sending, Delayed, Exchange
<1>7. AckKept(d, e)
  BY <1>1, <1>3, <1>4 DEF AckKept, AckBit
<1> QED
  BY <1>1, <1>2, <1>3, <1>6, <1>7 DEF e, r

\* And a Join Request.
LEMMA JoinBegins ==
    ASSUME QueueCap >= 6, NEW d, Alone(d), ~d.tx_ongoing, ~d.nwk_joined, d.ul_frame_counter = 0,
           {"CONN_IN_PROGRESS", "USING_OTAA"} \subseteq d.flags, d.state = "JOINING", NEW ch \in Clear
    PROVE  LET r == send_join_request(d, ch)
           IN  /\ r.status = "CONNECT_IN_PROGRESS" /\ Orderly(r.dev) /\ Begun(r.dev)
               /\ r.dev.due = d.due /\ Alters(d, r.dev, SchedFields \cup FrameFields)
               /\ r.dev.flags = d.flags /\ r.dev.ul_frame_counter = 0
<1> DEFINE r == send_join_request(d, ch)
           e == r.dev
<1>1. /\ r.status = "CONNECT_IN_PROGRESS" /\ Scheduled(d, e, FrameFields)
      /\ ~e.is_node_ack_requested
  BY AloneSends, SendJoinRequestIs
<1> HIDE DEF r
<1>2. Alters(d, e, SchedFields \cup FrameFields)
  BY <1>1 DEF Scheduled
<1>3. /\ Orderly(e) /\ Quiet(e.due) /\ e.due = d.due
      /\ \/ e.radio = "tx" /\ e.armed = {} /\ ~e.is_srv_ack_requested
         \/ e.radio = "sleep" /\ Pends(e, "backoff", {})
  <2>1. /\ "due" \notin FrameFields /\ "orphans" \notin FrameFields
        /\ "device_class" \notin FrameFields /\ "nwk_joined" \notin FrameFields
    BY DEF FrameFields
  <2> QED
    BY <1>1, <2>1, ScheduledPends
<1> HIDE DEF e
<1>4. /\ e.nwk_joined = d.nwk_joined /\ e.tx_ongoing = d.tx_ongoing /\ e.flags = d.flags
      /\ e.state = d.state /\ e.ul_frame_counter = 0
  BY <1>2 DEF Alters, Fields, SchedFields, FrameFields
<1>5. Joins(e, "JOINING") /\ Conveys(e)
  BY <1>1, <1>4 DEF Joins, Conveys
<1>6. Begun(e)
  BY <1>3, <1>5 DEF Begun, Sending, Delayed, Exchange
<1> QED
  BY <1>1, <1>2, <1>3, <1>4, <1>6 DEF e, r

-----------------------------------------------------------------------------
(* Light calls are dispatched in every phase *)

\* e is d with the call taken from its queue.
Pops(d, e) == Alters(d, e, {"due", "automatic_uplink_ongoing"}) /\ e.due = Tail(d.due)

\* What a phase says is not said of these two fields.
LEMMA PopsFields ==
    ASSUME NEW d, NEW e, Pops(d, e)
    PROVE  /\ \A s : Exchange(d, s) => Exchange(e, s)
           /\ Transmits(d) => Transmits(e)
           /\ \A slot : Left(e, slot) = Left(d, slot)
           /\ \A f : Receivable(d, f) => Receivable(e, f)
           /\ Conveys(d) => Conveys(e)
           /\ \A f \in {"tx_ongoing", "flags", "radio", "armed", "is_srv_ack_requested",
                        "demod_ongoing", "rx_slot", "tx_type", "ack_timeout_retry_counter",
                        "max_ack_timeout_retries", "nwk_joined", "state"} : e[f] = d[f]
           /\ e.due = Tail(d.due)
<1>1. /\ e.tx_ongoing = d.tx_ongoing /\ e.flags = d.flags /\ e.radio = d.radio /\ e.armed = d.armed
      /\ e.is_srv_ack_requested = d.is_srv_ack_requested /\ e.demod_ongoing = d.demod_ongoing
      /\ e.rx_slot = d.rx_slot /\ e.tx_type = d.tx_type /\ e.nwk_joined = d.nwk_joined
      /\ e.state = d.state /\ e.ack_timeout_retry_counter = d.ack_timeout_retry_counter
      /\ e.max_ack_timeout_retries = d.max_ack_timeout_retries
      /\ e.is_node_ack_requested = d.is_node_ack_requested /\ e.req_type = d.req_type
      /\ e.tx_buffer = d.tx_buffer /\ e.due = Tail(d.due)
      /\ e.ul_frame_counter = d.ul_frame_counter
  BY DEF Pops, Alters, Fields
<1>2. /\ \A s : Exchange(d, s) => Exchange(e, s)
      /\ Transmits(d) => Transmits(e)
  BY <1>1 DEF Exchange, Transmits, Joins
<1>3. /\ \A slot : Left(e, slot) = Left(d, slot)
      /\ \A f : Receivable(d, f) => Receivable(e, f)
      /\ Conveys(d) => Conveys(e)
  BY <1>1 DEF Left, AckTimer, Receivable, Conveys
<1> QED
  BY <1>1, <1>2, <1>3

\* A timer's call waits behind the light ones.
LEMMA PopsPends ==
    ASSUME NEW d, d.due \in Seq(Calls), NEW e, e.armed = d.armed, e.due = Tail(d.due),
           d.due # <<>>, Head(d.due).fn \in Light, NEW t, NEW T, Pends(d, t, T)
    PROVE  Pends(e, t, T)
<1>1. LiveCall(t).fn \notin Light
  BY DEF LiveCall, Light
<1>2. CASE d.armed = T \cup {t} /\ Quiet(d.due)
  BY <1>2, QuietTail DEF Pends
<1>3. CASE d.armed = T /\ Last(d.due, LiveCall(t))
  <2>1. Head(d.due) # LiveCall(t)
    BY <1>1
  <2>2. Last(e.due, LiveCall(t))
    BY <1>1, <1>3, <2>1, LastTail
  <2> QED
    BY <1>3, <2>2 DEF Pends
<1> QED
  BY <1>2, <1>3 DEF Pends

\* The phase stays when a light call is taken.
LEMMA PhaseTail ==
    ASSUME NEW d, InPhase(d), d.due # <<>>, Head(d.due).fn \in Light, NEW e, Pops(d, e)
    PROVE  InPhase(e)
<1>0. d.due \in Seq(Calls)
  BY DEF InPhase, Orderly
<1>1. /\ \A s : Exchange(d, s) => Exchange(e, s)
      /\ Transmits(d) => Transmits(e)
      /\ \A slot : Left(e, slot) = Left(d, slot)
      /\ \A f : Receivable(d, f) => Receivable(e, f)
      /\ Conveys(d) => Conveys(e)
  BY PopsFields
<1>2. /\ e.tx_ongoing = d.tx_ongoing /\ e.flags = d.flags /\ e.radio = d.radio /\ e.armed = d.armed
      /\ e.is_srv_ack_requested = d.is_srv_ack_requested /\ e.demod_ongoing = d.demod_ongoing
      /\ e.rx_slot = d.rx_slot /\ e.tx_type = d.tx_type /\ e.nwk_joined = d.nwk_joined
      /\ e.state = d.state /\ e.ack_timeout_retry_counter = d.ack_timeout_retry_counter
      /\ e.max_ack_timeout_retries = d.max_ack_timeout_retries
      /\ e.due = Tail(d.due)
      /\ e.device_class = d.device_class /\ e.orphans = d.orphans /\ DOMAIN e = Fields
  BY DEF Pops, Alters, Fields
<1>3. Quiet(d.due) => Quiet(e.due)
  BY <1>0, <1>2, QuietTail
<1>4. \A t, T : Pends(d, t, T) => Pends(e, t, T)
  BY <1>0, <1>2, PopsPends
<1>5. ASSUME NEW c, c.fn \notin Light
      PROVE  /\ Last(d.due, c) => Last(e.due, c)
             /\ Among(d.due, c) => Among(e.due, c)
  <2>1. Head(d.due) # c
    BY <1>5
  <2> QED
    BY <1>0, <1>2, <1>5, <2>1, LastTail, AmongTail
<1>6. Orderly(e)
  <2>1. /\ Len(Tail(d.due)) = Len(d.due) - 1 /\ Len(d.due) \in Nat /\ Len(d.due) > 0
        /\ \A i \in 1 .. Len(d.due) - 1 : Tail(d.due)[i] = d.due[i + 1]
        /\ Tail(d.due) \in Seq(Calls)
    BY <1>0, TailShifts
  <2>2. ASSUME ~d.nwk_joined, NEW i \in 1 .. Len(e.due)
        PROVE  e.due[i].fn # "send_automatic_uplink_message"
    <3>1. i \in 1 .. Len(d.due) - 1 /\ i + 1 \in 1 .. Len(d.due)
      BY <1>2, <2>1
    <3>2. e.due[i] = d.due[i + 1]
      BY <1>2, <2>1, <3>1
    <3> QED
      BY <2>2, <3>1, <3>2 DEF InPhase, Orderly
  <2> QED
    BY <1>2, <2>1, <2>2 DEF InPhase, Orderly
<1>7. CASE Resting(d)
  BY <1>2, <1>3, <1>6, <1>7 DEF InPhase, Phase, Resting
<1>8. CASE Begun(d)
  BY <1>1, <1>2, <1>3, <1>4, <1>6, <1>8 DEF InPhase, Phase, Begun, Sending, Delayed
<1>9. CASE Transmitted(d)
  <2>1. Sent.fn \notin Light
    BY DEF Sent, Light
  <2> QED
    BY <1>1, <1>2, <1>5, <1>6, <1>9, <2>1 DEF InPhase, Phase, Transmitted
<1>10. ASSUME NEW slot \in Slots, Awaits(d, slot)
       PROVE  InPhase(e)
  BY <1>1, <1>2, <1>4, <1>6, <1>10 DEF InPhase, Phase, Awaits
<1>11. ASSUME NEW slot \in Slots, Listens(d, slot)
       PROVE  InPhase(e)
  BY <1>1, <1>2, <1>3, <1>6, <1>11 DEF InPhase, Phase, Listens
<1>12. ASSUME NEW slot \in Slots, Closes(d, slot)
       PROVE  InPhase(e)
  <2>1. /\ \A b \in BOOLEAN : Silence(b).fn \notin Light
        /\ \A f \in Downlinks : Reception(f).fn \notin Light
    BY DEF Silence, Reception, Light
  <2>2. \/ \E b \in BOOLEAN : Last(e.due, Silence(b))
        \/ \E f \in Downlinks : Receivable(e, f) /\ Last(e.due, Reception(f))
    BY <1>1, <1>5, <1>12, <2>1 DEF Closes
  <2>3. Closes(e, slot)
    BY <1>1, <1>2, <1>12, <2>2 DEF Closes
  <2> QED
    BY <1>6, <2>3 DEF InPhase, Phase
<1>13. CASE AckAwaited(d)
  BY <1>1, <1>2, <1>4, <1>6, <1>13 DEF InPhase, Phase, AckAwaited
<1>14. CASE Repeating(d)
  <2>1. Repetition.fn \notin Light
    BY DEF Repetition, Light
  <2> QED
    BY <1>2, <1>5, <1>6, <1>14, <2>1 DEF InPhase, Phase, Repeating
<1> QED
  BY <1>7, <1>8, <1>9, <1>10, <1>11, <1>12, <1>13, <1>14 DEF InPhase, Phase

\* A timer's callback is dispatched when nothing else is left.
LEMMA PendsHead ==
    ASSUME NEW d, d.due \in Seq(Calls), d.due # <<>>, Head(d.due).fn \notin Light,
           NEW t, NEW T, Pends(d, t, T)
    PROVE  Head(d.due) = LiveCall(t) /\ Tail(d.due) = <<>> /\ d.armed = T
<1>1. LiveCall(t).fn \notin Light
  BY DEF LiveCall, Light
<1>2. ~Quiet(d.due)
  BY QuietTail
<1>3. d.armed = T /\ Last(d.due, LiveCall(t))
  BY <1>2 DEF Pends
<1> QED
  BY <1>1, <1>3, LastTail

\* What a call of an exchange says of the phase in which it is dispatched.
Dispatched(d) ==
    \/ Head(d.due) = Sent /\ Transmitted(d) /\ Tail(d.due) = <<>>
    \/ /\ Tail(d.due) = <<>>
       /\ \E slot \in Slots :
            /\ Closes(d, slot)
            /\ \/ \E b \in BOOLEAN : Head(d.due) = Silence(b)
               \/ \E f \in Downlinks : Receivable(d, f) /\ Head(d.due) = Reception(f)
    \/ Head(d.due) = LiveCall("backoff") /\ Delayed(d) /\ Tail(d.due) = <<>> /\ d.armed = {}
    \/ /\ Tail(d.due) = <<>>
       /\ \/ Head(d.due) = LiveCall("rx1") /\ Awaits(d, "RX1") /\ d.armed = Left(d, "RX1")
          \/ /\ Head(d.due) = LiveCall("rx2") /\ Awaits(d, "RX2") /\ ~d.demod_ongoing
             /\ d.armed = Left(d, "RX2")
    \/ Head(d.due) = LiveCall("ack") /\ AckAwaited(d) /\ Tail(d.due) = <<>> /\ d.armed = {}
    \/ Head(d.due) = Repetition /\ Repeating(d) /\ Quiet(Tail(d.due))

LEMMA PhaseHead ==
    ASSUME NEW d, InPhase(d), d.due # <<>>, Head(d.due).fn \notin Light
    PROVE  Dispatched(d)
<1>0. d.due \in Seq(Calls) /\ ~Quiet(d.due)
  BY QuietTail DEF InPhase, Orderly
<1>1. ASSUME NEW c, c.fn \notin Light, Last(d.due, c)
      PROVE  Head(d.due) = c /\ Tail(d.due) = <<>>
  BY <1>0, <1>1, LastTail
<1>2. CASE Resting(d) \/ Sending(d) \/ \E slot \in Slots : Listens(d, slot)
  BY <1>0, <1>2 DEF Resting, Sending, Listens
<1>3. CASE Delayed(d)
  BY <1>0, <1>3, PendsHead DEF Delayed, Dispatched
<1>4. CASE Transmitted(d)
  <2>1. Sent.fn \notin Light
    BY DEF Sent, Light
  <2> QED
    BY <1>1, <1>4, <2>1 DEF Transmitted, Dispatched
<1>5. ASSUME NEW slot \in Slots, Awaits(d, slot)
      PROVE  Dispatched(d)
  <2>1. CASE slot = "RX1"
    <3>1. Pends(d, "rx1", Left(d, "RX1"))
      BY <1>5, <2>1 DEF Awaits
    <3> QED
      BY <1>0, <1>5, <2>1, <3>1, PendsHead DEF Dispatched
  <2>2. CASE slot = "RX2"
    <3>1. Pends(d, "rx2", Left(d, "RX2")) /\ ~d.demod_ongoing
      BY <1>5, <2>2 DEF Awaits
    <3> QED
      BY <1>0, <1>5, <2>2, <3>1, PendsHead DEF Dispatched
  <2> QED
    BY <2>1, <2>2 DEF Slots
<1>6. ASSUME NEW slot \in Slots, Closes(d, slot)
      PROVE  Dispatched(d)
  <2>1. ASSUME NEW b \in BOOLEAN, Last(d.due, Silence(b))
        PROVE  Dispatched(d)
    <3>1. Silence(b).fn \notin Light
      BY DEF Silence, Light
    <3>2. Head(d.due) = Silence(b) /\ Tail(d.due) = <<>>
      BY <1>1, <2>1, <3>1
    <3> QED
      BY <1>6, <3>2 DEF Dispatched
  <2>2. ASSUME NEW f \in Downlinks, Receivable(d, f), Last(d.due, Reception(f))
        PROVE  Dispatched(d)
    <3>1. Reception(f).fn \notin Light
      BY DEF Reception, Light
    <3>2. Head(d.due) = Reception(f) /\ Tail(d.due) = <<>>
      BY <1>1, <2>2, <3>1
    <3> QED
      BY <1>6, <2>2, <3>2 DEF Dispatched
  <2> QED
    BY <1>6, <2>1, <2>2 DEF Closes
<1>7. CASE AckAwaited(d)
  BY <1>0, <1>7, PendsHead DEF AckAwaited, Dispatched
<1>8. CASE Repeating(d)
  <2>1. Repetition.fn \notin Light
    BY DEF Repetition, Light
  <2>2. Head(d.due) = Repetition /\ Quiet(Tail(d.due))
    BY <1>0, <1>8, <2>1, AmongTail DEF Repeating
  <2> QED
    BY <1>8, <2>2 DEF Dispatched
<1> QED
  BY <1>2, <1>3, <1>4, <1>5, <1>6, <1>7, <1>8 DEF InPhase, Phase, Begun

-----------------------------------------------------------------------------
(* The calls of the application *)

\* What sending alters besides, with the message.
HandleFields == SendFields \cup {"qos_cnt", "tx_msg", "tx_type", "nb_trials"}

\* A device that rests begins to send, or refuses and rests.
LEMMA HandleTxIs ==
    ASSUME QueueCap >= 6, NEW d, Orderly(d), Resting(d), NEW msg, NEW type, NEW ch \in Clear
    PROVE  LET r == handle_tx(d, msg, type, ch)
           IN  /\ Orderly(r.dev) /\ r.dev.due = d.due
               /\ Alters(d, r.dev, SchedFields \cup HandleFields) /\ AckKept(d, r.dev)
               /\ r.dev.tx_type \in {d.tx_type, type}
               /\ SameLink(d, r.dev) /\ (r.status = "OK" => d.nwk_joined)
               /\ \/ r.status = "OK" /\ Begun(r.dev) /\ r.dev.tx_ongoing /\ r.dev.tx_msg = msg
                  \/ r.status = "ERROR" /\ Resting(r.dev)
<1> DEFINE r == handle_tx(d, msg, type, ch)
           c == [d EXCEPT !.qos_cnt = 1]
           e == prepare_ongoing_tx(c, msg, type)
           s == process_scheduling_state(e, ch)
<1>0. Alone(d) /\ DOMAIN d = Fields
  BY DEF Alone, Resting, Orderly
<1>1. CASE ~d.session_active
  <2>1. r = [dev |-> d, status |-> "ERROR"]
    BY <1>1 DEF handle_tx
  <2> QED
    BY <1>0, <2>1, AltersNothing DEF AckKept, SameLink
<1>2. CASE d.session_active /\ ~d.nwk_joined
  <2>1. r = [dev |-> c, status |-> "ERROR"]
    BY <1>2 DEF handle_tx, Resting
  <2> HIDE DEF r
  <2>2. Alters(d, c, {"qos_cnt"})
    BY <1>0 DEF Alters, Fields
  <2> HIDE DEF c
  <2>3. /\ Orderly(c) /\ Resting(c) /\ c.due = d.due /\ AckKept(d, c) /\ c.tx_type = d.tx_type
        /\ SameLink(d, c)
    BY <2>2 DEF Alters, Fields, Orderly, Resting, AckKept, SameLink
  <2>4. Alters(d, c, SchedFields \cup HandleFields)
    BY <2>2 DEF Alters, Fields, HandleFields
  <2> QED
    BY <2>1, <2>3, <2>4 DEF r
<1>3. CASE d.session_active /\ d.nwk_joined
  <2>1. r = s
    BY <1>3 DEF handle_tx, Resting
  <2>2. e = [c EXCEPT !.tx_msg = msg, !.tx_type = type, !.nb_trials = e.nb_trials]
    <3> DEFINE n == CASE type = "UNCONFIRMED" -> 1
                      [] type = "CONFIRMED"   -> NumRetry
                      [] type = "PROPRIETARY" -> c.nb_trans
    <3>1. e = [c EXCEPT !.tx_msg = msg, !.tx_type = type, !.nb_trials = n]
      BY DEF prepare_ongoing_tx
    <3> HIDE DEF n, e
    <3>2. e.nb_trials = n
      BY <1>0, <3>1 DEF Fields
    <3> QED
      BY <3>1, <3>2
  <2> HIDE DEF e
  <2>3. /\ Alters(d, e, {"qos_cnt", "tx_msg", "tx_type", "nb_trials"})
        /\ e.tx_msg = msg /\ e.tx_type = type
    <3> DEFINE n == e.nb_trials
    <3> HIDE DEF n
    <3>1. e = [c EXCEPT !.tx_msg = msg, !.tx_type = type, !.nb_trials = n]
      BY <2>2 DEF n
    <3> QED
      BY <1>0, <3>1 DEF Alters, Fields
  <2> HIDE DEF c
  <2>4. /\ Orderly(e) /\ Alone(e) /\ Resting(e) /\ e.due = d.due /\ e.nwk_joined = d.nwk_joined
        /\ e.flags = d.flags /\ e.state = d.state
        /\ e.is_srv_ack_requested = d.is_srv_ack_requested
    BY <1>0, <2>3 DEF Alters, Fields, Orderly, Resting, Alone
  <2>5. CASE e.state \in {"IDLE", "RECEIVING"}
    <3>1. /\ s.status = "OK" /\ Orderly(s.dev) /\ Begun(s.dev)
          /\ s.dev.due = e.due /\ s.dev.tx_ongoing /\ Alters(e, s.dev, SchedFields \cup SendFields)
          /\ AckKept(e, s.dev) /\ s.dev.flags = e.flags \ {"TX_DONE"}
      BY <1>3, <2>4, <2>5, MessageBegins DEF Resting
    <3> HIDE DEF s
    <3>2. /\ Alters(d, s.dev, SchedFields \cup HandleFields)
          /\ s.dev.tx_msg = msg /\ s.dev.tx_type = type
      BY <2>3, <3>1
         DEF Alters, Fields, SchedFields, HandleFields, SendFields, TxFields, FrameFields
    <3>3. AckKept(d, s.dev) /\ SameLink(d, s.dev)
      BY <2>4, <3>1 DEF AckKept, SameLink
    <3> QED
      BY <1>3, <2>1, <2>4, <3>1, <3>2, <3>3
  <2>6. CASE e.state \notin {"IDLE", "RECEIVING"}
    <3>1. s = [dev |-> e, status |-> "ERROR"]
      BY <2>4, <2>6 DEF process_scheduling_state, Orderly
    <3>2. Alters(d, e, SchedFields \cup HandleFields)
      BY <2>3 DEF Alters, HandleFields
    <3> QED
      BY <2>1, <2>3, <2>4, <3>1, <3>2 DEF AckKept, SameLink
  <2> QED
    BY <2>5, <2>6
<1> QED
  BY <1>1, <1>2, <1>3

\* With a call or two waiting an event is posted, and waits too.
LEMMA EventIs ==
    ASSUME QueueCap >= 6, NEW d, Orderly(d), Quiet(d.due), Len(d.due) <= 2,
           NEW a, NEW b, d.armed \subseteq {a, b}, NEW event \in AppEvents
    PROVE  LET e == send_event_to_application(d, event)
           IN  /\ Alters(d, e, {"due"}) /\ e.due = Append(d.due, [fn |-> "event", event |-> event])
               /\ Orderly(e) /\ Quiet(e.due) /\ Len(e.due) = Len(d.due) + 1
<1> DEFINE c == [fn |-> "event", event |-> event]
           e == send_event_to_application(d, event)
<1>1. c \in Calls /\ c.fn = "event" /\ c.fn \in Light /\ e = post(d, c)
  BY DEF Calls, Light, send_event_to_application
<1> HIDE DEF c, e
<1>2. Room(d)
  BY RoomIs DEF Orderly, Quiet
<1>3. Alters(d, e, {"due"}) /\ e.due = Append(d.due, c)
  BY <1>1, <1>2, PostIs DEF Orderly
<1>4. /\ e.due \in Seq(Calls) /\ Len(e.due) = Len(d.due) + 1 /\ Quiet(e.due)
      /\ Len(d.due) \in Nat
  BY <1>1, <1>3, QuietAppend DEF Orderly
<1>5. e.nwk_joined = d.nwk_joined /\ e.device_class = d.device_class /\ e.orphans = d.orphans
      /\ DOMAIN e = Fields
  BY <1>3 DEF Alters, Fields
<1>6. ASSUME ~d.nwk_joined, NEW i \in 1 .. Len(e.due)
      PROVE  e.due[i].fn # "send_automatic_uplink_message"
  <2>1. CASE i \in 1 .. Len(d.due)
    <3>1. e.due[i] = d.due[i]
      BY <1>1, <1>3, <2>1 DEF Orderly
    <3> QED
      BY <1>6, <2>1, <3>1 DEF Orderly
  <2>2. CASE i = Len(d.due) + 1
    <3>1. e.due[i] = c
      BY <1>1, <1>3, <2>2 DEF Orderly
    <3> QED
      BY <1>1, <3>1
  <2> QED
    BY <1>4, <1>6, <2>1, <2>2
<1> QED
  BY <1>3, <1>4, <1>5, <1>6 DEF Orderly, c, e

\* Within a session a device rests or sends.
LEMMA JoinedRests ==
    ASSUME NEW d, InPhase(d), d.nwk_joined
    PROVE  Resting(d) \/ d.tx_ongoing
BY DEF InPhase, Phase, Begun, Sending, Delayed, Transmitted, Awaits, Listens, Closes,
       AckAwaited, Repeating, Exchange, Transmits, Joins

\* So without the call that is dispatched.
LEMMA PoppingIs ==
    ASSUME NEW d, Orderly(d)
    PROVE  Pops(d, Popping(d)) /\ Alters(d, Popping(d), {"due"}) /\ Popping(d).due = Tail(d.due)
BY DEF Pops, Alters, Orderly, Popping, Fields

\* The automatic uplink is sent if the device rests; else it is dropped.
LEMMA AutomaticIs ==
    ASSUME QueueCap >= 6, NEW d, InPhase(d), d.due # <<>>,
           Head(d.due).fn = "send_automatic_uplink_message",
           d.session_active <=> d.nwk_joined, NEW ch \in Clear
    PROVE  LET e == send_automatic_uplink_message(Popping(d), ch)
           IN  InPhase(e) /\ AckKept(d, e) /\ e.tx_type \in {d.tx_type, "CONFIRMED"}
<1> DEFINE p == Popping(d)
           h == handle_tx(p, AutomaticUplink, "CONFIRMED", ch)
           g == h.dev
           e == send_automatic_uplink_message(p, ch)
<1>1. Pops(d, p) /\ Alters(d, p, {"due"}) /\ p.due = Tail(d.due) /\ InPhase(p)
  BY PoppingIs, PhaseTail DEF InPhase, Light
<1>2. d.nwk_joined
  <2>1. 1 \in 1 .. Len(d.due) /\ d.due[1].fn = "send_automatic_uplink_message"
    BY TailShifts DEF InPhase, Orderly
  <2> QED
    BY <2>1 DEF InPhase, Orderly
<1> HIDE DEF p
<1>3. p.session_active /\ p.nwk_joined /\ p.tx_ongoing = d.tx_ongoing /\ DOMAIN p = Fields
      /\ p.is_srv_ack_requested = d.is_srv_ack_requested /\ p.tx_type = d.tx_type
  BY <1>1, <1>2 DEF Alters, Fields
<1>4. CASE p.tx_ongoing
  <2>1. h = [dev |-> p, status |-> "WOULD_BLOCK"]
    BY <1>3, <1>4 DEF handle_tx
  <2>2. e = [p EXCEPT !.automatic_uplink_ongoing = FALSE]
    <3>1. h.status = "WOULD_BLOCK" /\ g = p
      BY <2>1
    <3>2. e = CASE h.status = "OK"          -> g
                [] h.status = "WOULD_BLOCK" -> [g EXCEPT !.automatic_uplink_ongoing = FALSE]
                [] h.status = "ERROR"       ->
                     send_event_to_application(g, "AUTOMATIC_UPLINK_ERROR")
      BY DEF send_automatic_uplink_message
    <3> HIDE DEF h, e
    <3> QED
      BY <3>1, <3>2
  <2>3. Pops(d, e) /\ e.is_srv_ack_requested = d.is_srv_ack_requested /\ e.tx_type = d.tx_type
    BY <1>1, <2>2 DEF Pops, Alters, Fields
  <2> QED
    BY <2>3, PhaseTail DEF Light, AckKept, p
<1>5. CASE ~p.tx_ongoing
  <2>1. Resting(p) /\ Orderly(p)
    BY <1>1, <1>3, <1>5, JoinedRests DEF InPhase
  <2>2. /\ Orderly(g) /\ g.due = p.due /\ AckKept(p, g) /\ g.tx_type \in {p.tx_type, "CONFIRMED"}
        /\ \/ h.status = "OK" /\ Begun(g)
           \/ h.status = "ERROR" /\ Resting(g)
    BY <2>1, HandleTxIs
  <2>3. e = IF h.status = "OK" THEN g ELSE send_event_to_application(g, "AUTOMATIC_UPLINK_ERROR")
    BY <2>2 DEF send_automatic_uplink_message
  <2> HIDE DEF h
  <2>6. AckKept(d, g) /\ g.tx_type \in {d.tx_type, "CONFIRMED"}
    BY <1>3, <2>2 DEF AckKept
  <2>4. CASE h.status = "OK"
    BY <2>2, <2>3, <2>4, <2>6 DEF InPhase, Phase, p
  <2>5. CASE h.status = "ERROR"
    <3> DEFINE k == send_event_to_application(g, "AUTOMATIC_UPLINK_ERROR")
    <3>1. "AUTOMATIC_UPLINK_ERROR" \in AppEvents
      BY DEF AppEvents
    <3>2. Resting(g) /\ Quiet(g.due) /\ Len(g.due) <= 2 /\ g.armed \subseteq {"rx1", "rx2"}
      <4>1. Quiet(d.due) \/ d.tx_ongoing
        BY <1>2, JoinedRests DEF Resting
      <4>2. Quiet(d.due)
        BY <1>3, <1>5, <4>1
      <4>3. Len(p.due) <= 2
        BY <1>1, <4>2, QuietTail DEF InPhase, Orderly
      <4> QED
        BY <2>2, <2>5, <4>3 DEF Resting
    <3>3. Alters(g, k, {"due"}) /\ Orderly(k) /\ Quiet(k.due)
      BY <2>2, <3>1, <3>2, EventIs
    <3> HIDE DEF k
    <3>4. Resting(k)
      BY <3>2, <3>3 DEF Alters, Fields, Resting
    <3>5. e = k
      BY <2>3, <2>5 DEF k
    <3>6. AckKept(d, k) /\ k.tx_type = g.tx_type
      BY <2>6, <3>3 DEF Alters, Fields, AckKept
    <3> QED
      BY <2>6, <3>3, <3>4, <3>5, <3>6 DEF InPhase, Phase, p
  <2> QED
    BY <2>2, <2>4, <2>5
<1> QED
  BY <1>4, <1>5

\* A repetition is sent: no other call of the exchange waits.
LEMMA RepetitionIs ==
    ASSUME QueueCap >= 6, NEW d, InPhase(d), d.due # <<>>, Head(d.due) = Repetition,
           NEW ch \in Clear
    PROVE  LET e == process_scheduling_state(Popping(d), ch).dev
           IN  InPhase(e) /\ AckKept(d, e) /\ e.tx_type = d.tx_type /\ Balances(Popping(d), e)
<1> DEFINE p == Popping(d)
           r == process_scheduling_state(p, ch)
           e == r.dev
<1>1. Repeating(d) /\ Quiet(Tail(d.due)) /\ d.due \in Seq(Calls) /\ Orderly(d)
  <2>1. /\ Repetition.fn \notin Light /\ Repetition # Sent
        /\ \A b : Repetition # Silence(b)
        /\ \A f : Repetition # Reception(f)
        /\ \A t : Repetition # LiveCall(t)
    BY DEF Repetition, Sent, Silence, Reception, LiveCall, Light
  <2>2. Head(d.due).fn \notin Light
    BY <2>1
  <2>3. Dispatched(d)
    BY <2>2, PhaseHead
  <2> QED
    BY <2>1, <2>3 DEF Dispatched, InPhase, Orderly
<1>2. Alters(d, p, {"due"}) /\ p.due = Tail(d.due) /\ Tail(d.due) \in Seq(Calls)
  BY <1>1, PoppingIs, TailShifts
<1> HIDE DEF p
<1>3. /\ p.radio = "sleep" /\ p.armed = {} /\ p.nwk_joined /\ p.flags = d.flags
      /\ p.state = d.state /\ p.orphans = {} /\ p.device_class = "A" /\ DOMAIN p = Fields
      /\ p.is_srv_ack_requested = d.is_srv_ack_requested /\ p.tx_type = d.tx_type /\ p.tx_ongoing
  BY <1>1, <1>2 DEF Alters, Fields, Repeating, Orderly
<1>4. Alone(p)
  BY <1>1, <1>2, <1>3 DEF Alone, Orderly
<1>5. /\ Orderly(e) /\ Begun(e) /\ e.due = p.due /\ e.tx_ongoing /\ AckKept(p, e)
      /\ Alters(p, e, SchedFields \cup SendFields) /\ e.flags = p.flags \ {"TX_DONE"}
  BY <1>1, <1>3, <1>4, MessageBegins DEF Repeating
<1> HIDE DEF e
<1>6. /\ e.tx_type = p.tx_type /\ e.tx_msg = p.tx_msg
      /\ e.automatic_uplink_ongoing = p.automatic_uplink_ongoing
      /\ e.mlme_ind_pending = p.mlme_ind_pending /\ e.ul_frame_counter = p.ul_frame_counter
  BY <1>5 DEF Alters, Fields, SchedFields, SendFields, TxFields, FrameFields
<1>7. Balances(p, e)
  <2>1. Pays(p, e)
    BY <1>3, <1>5, <1>6 DEF Pays, Manual, Account, Promised
  <2>2. Settles(p, e)
    BY <1>3, <1>5, <1>6 DEF Settles, Tally, Linked, Asked
  <2> QED
    BY <2>1, <2>2 DEF Balances
<1>8. AckKept(d, e)
  BY <1>3, <1>5 DEF AckKept
<1> QED
  BY <1>3, <1>5, <1>6, <1>7, <1>8 DEF InPhase, Phase, e, p

\* The backoff timer runs while a frame waits for the duty cycle, and then alone.
LEMMA BackoffRuns ==
    ASSUME NEW d, InPhase(d), "backoff" \in d.armed
    PROVE  Delayed(d) /\ d.armed = {"backoff"} /\ Quiet(d.due)
<1>1. \A slot : "backoff" \notin Left(d, slot)
  BY DEF Left, AckTimer
<1> QED
  BY <1>1 DEF InPhase, Phase, Begun, Resting, Sending, Delayed, Transmitted, Awaits, Listens,
              Closes, AckAwaited, Repeating, Pends

\* A message that waits is cancelled, and the device rests.
LEMMA StopSendingIs ==
    ASSUME NEW d, InPhase(d), d.tx_ongoing, clear_tx_pipe(d).status = "OK"
    PROVE  /\ Orderly(stop_sending(d)) /\ Resting(stop_sending(d))
           /\ stop_sending(d).due = d.due
           /\ stop_sending(d).is_srv_ack_requested = d.is_srv_ack_requested
           /\ stop_sending(d).ul_frame_counter = d.ul_frame_counter
           /\ SameLink(d, stop_sending(d))
           /\ Manual(d) => Manual(stop_sending(d)) /\ Account(stop_sending(d)) = Account(d) - 1
<1> DEFINE b == stop(d, "backoff")
           a == stop(b, "ack")
           c == [a EXCEPT !.tx_buffer = NoTxBuffer, !.tx_ongoing = FALSE]
           e == [c EXCEPT !.flags = c.flags \ {"TX_DONE"}, !.can_cancel_tx = TRUE,
                          !.tx_ongoing = FALSE, !.state = "IDLE"]
<1>1. d.can_cancel_tx /\ "backoff" \in d.armed
  BY DEF clear_tx_pipe
<1>2. Delayed(d) /\ d.armed = {"backoff"} /\ Quiet(d.due)
  BY <1>1, BackoffRuns
<1>3. Transmits(d)
  BY <1>2 DEF Delayed, Exchange, Joins
<1>4. clear_tx_pipe(d) = [dev |-> c, status |-> "OK"]
  BY <1>1 DEF clear_tx_pipe, TimerIdSet, drop_ongoing_tx, reset_ongoing_tx
<1>5. stop_sending(d) = e
  <2> DEFINE k == clear_tx_pipe(d)
  <2>1. k.status = "OK" /\ k.dev = c
    BY <1>4
  <2> HIDE DEF c, k
  <2>2. stop_sending(d) = [k.dev EXCEPT !.flags = k.dev.flags \ {"TX_DONE"}, !.can_cancel_tx = TRUE,
                                        !.tx_ongoing = FALSE, !.state = "IDLE"]
    BY <2>1 DEF stop_sending, set_tx_ongoing, clear_flags, set_state, k
  <2> QED
    BY <2>1, <2>2
<1>6. Ready(d)
  BY <1>2 DEF Ready, InPhase, Orderly
<1>7. Alters(d, b, {"armed"}) /\ b.armed = {} /\ Ready(b)
  BY <1>2, <1>6, StopIs
<1> HIDE DEF b
<1>8. Alters(b, a, {"armed"}) /\ a.armed = {} /\ Ready(a)
  BY <1>7, StopIs
<1> HIDE DEF a
<1>9. /\ Alters(d, e, {"armed", "tx_buffer", "tx_ongoing", "flags", "can_cancel_tx", "state"})
      /\ e.armed = {} /\ ~e.tx_ongoing /\ e.flags = d.flags \ {"TX_DONE"}
  <2>1. Alters(d, a, {"armed"})
    BY <1>7, <1>8 DEF Alters
  <2> QED
    BY <1>8, <2>1 DEF Alters, Fields
<1> HIDE DEF e
<1>10. Orderly(e) /\ Resting(e)
  BY <1>2, <1>3, <1>9 DEF Alters, Fields, InPhase, Orderly, Resting, Delayed, Transmits
<1>11. /\ e.due = d.due /\ e.is_srv_ack_requested = d.is_srv_ack_requested
       /\ e.automatic_uplink_ongoing = d.automatic_uplink_ongoing
       /\ e.mlme_ind_pending = d.mlme_ind_pending /\ e.ul_frame_counter = d.ul_frame_counter
  BY <1>9 DEF Alters, Fields
<1>13. SameLink(d, e)
  BY <1>9 DEF SameLink
<1>12. ASSUME Manual(d)
       PROVE  Manual(e) /\ Account(e) = Account(d) - 1
  <2>1. Promised(d) = 1 /\ Promised(e) = 0 /\ Count(d.due) \in Nat
    BY <1>9, <1>12, CountNat DEF Manual, Promised, InPhase, Orderly
  <2> QED
    BY <1>9, <1>11, <1>12, <2>1 DEF Manual, Account
<1> QED
  BY <1>5, <1>10, <1>11, <1>12, <1>13

\* A device that rests, of which the application heard everything, is disconnected and rests.
LEMMA ShutdownIs ==
    ASSUME QueueCap >= 6, NEW d, Orderly(d), Resting(d), d.due = <<>>
    PROVE  LET e == process_shutdown_state(d)
           IN  /\ Orderly(e) /\ Resting(e) /\ ~e.nwk_joined
               /\ e.due = Append(d.due, [fn |-> "event", event |-> "DISCONNECTED"])
               /\ e.flags = {} /\ e.ul_frame_counter = d.ul_frame_counter /\ Pays(d, e)
<1> DEFINE b == stop(d, "backoff")
           x == stop(b, "rx1")
           y == stop(x, "rx2")
           a == stop(y, "ack")
           e == [a EXCEPT !.radio = "sleep", !.nwk_joined = FALSE,
                          !.is_node_ack_requested = FALSE, !.is_srv_ack_requested = FALSE,
                          !.req_type = "UNCONFIRMED", !.conf_status = "ERROR",
                          !.ack_received = FALSE, !.is_ack_recvd = FALSE,
                          !.session_active = FALSE, !.state = "SHUTDOWN", !.flags = {}]
           g == send_event_to_application(e, "DISCONNECTED")
<1>1. process_shutdown_state(d) = g
  BY DEF process_shutdown_state, disconnect, put_radio_to_sleep
<1>2. Ready(d) /\ d.armed = {} /\ Len(d.due) = 0 /\ ~d.tx_ongoing
  BY DEF Ready, Resting, Orderly
<1>3. Alters(d, b, {"armed"}) /\ b.armed = {} /\ Ready(b)
  BY <1>2, StopIs
<1> HIDE DEF b
<1>4. Alters(b, x, {"armed"}) /\ x.armed = {} /\ Ready(x)
  BY <1>3, StopIs
<1> HIDE DEF x
<1>5. Alters(x, y, {"armed"}) /\ y.armed = {} /\ Ready(y)
  BY <1>4, StopIs
<1> HIDE DEF y
<1>6. Alters(y, a, {"armed"}) /\ a.armed = {} /\ Ready(a)
  BY <1>5, StopIs
<1> HIDE DEF a
<1>7. Alters(d, a, {"armed"})
  BY <1>3, <1>4, <1>5, <1>6 DEF Alters
<1>8. /\ Alters(d, e, {"armed", "radio", "nwk_joined", "is_node_ack_requested",
                       "is_srv_ack_requested", "req_type", "conf_status", "ack_received",
                       "is_ack_recvd", "session_active", "state", "flags"})
      /\ e.armed = {} /\ e.radio = "sleep" /\ e.flags = {} /\ ~e.nwk_joined
  BY <1>6, <1>7 DEF Alters, Fields
<1> HIDE DEF e
<1>9. e.due = d.due /\ e.orphans = d.orphans /\ e.device_class = d.device_class
      /\ e.tx_ongoing = d.tx_ongoing /\ e.ul_frame_counter = d.ul_frame_counter
      /\ DOMAIN e = Fields
  BY <1>8 DEF Alters, Fields
<1>10. Orderly(e) /\ Quiet(e.due) /\ Len(e.due) <= 2 /\ e.armed \subseteq {"rx1", "rx2"}
  BY <1>2, <1>8, <1>9 DEF Orderly, Quiet
<1>11. /\ Alters(e, g, {"due"}) /\ Orderly(g) /\ Quiet(g.due)
       /\ g.due = Append(e.due, [fn |-> "event", event |-> "DISCONNECTED"])
  <2>1. "DISCONNECTED" \in AppEvents
    BY DEF AppEvents
  <2> QED
    BY <1>10, <2>1, EventIs
<1> HIDE DEF g
<1>12. Resting(g) /\ ~g.nwk_joined /\ g.flags = {} /\ g.ul_frame_counter = d.ul_frame_counter
  BY <1>2, <1>8, <1>9, <1>11 DEF Alters, Fields, Resting
<1>13. Pays(d, e)
  BY <1>8, AltersPays
<1>14. Pays(e, g)
  BY <1>10, <1>11, ReplyPays DEF Orderly, Replies
<1>15. Pays(d, g)
  BY <1>13, <1>14 DEF Pays
<1> QED
  BY <1>1, <1>9, <1>11, <1>12, <1>15

\* The end of joining is told, and the device rests.
LEMMA ConnectedIs ==
    ASSUME QueueCap >= 6, NEW d, Alone(d), Len(d.due) <= 2, ~d.tx_ongoing
    PROVE  LET e == process_connected_state(d)
           IN  /\ Orderly(e) /\ Resting(e)
               /\ e.due = Append(d.due, [fn |-> "event", event |-> "CONNECTED"])
               /\ Alters(d, e, {"flags", "session_active", "due", "state"})
               /\ "CONNECTED" \in e.flags
<1> DEFINE f == (d.flags \cup {"CONNECTED"}) \ {"CONN_IN_PROGRESS"}
           c == [d EXCEPT !.flags = f, !.session_active = TRUE]
           g == send_event_to_application(c, "CONNECTED")
           e == [g EXCEPT !.state = "IDLE"]
<1>1. process_connected_state(d) = e
  BY DEF process_connected_state, set_state
<1>2. "CONN_IN_PROGRESS" \notin f /\ "CONNECTED" \in f
  OBVIOUS
<1> HIDE DEF f
<1>3. Alters(d, c, {"flags", "session_active"}) /\ c.flags = f
  BY DEF Alters, Fields, Alone, Orderly
<1> HIDE DEF c
<1>4. Orderly(c) /\ Quiet(c.due) /\ c.due = d.due /\ c.armed = {} /\ c.armed \subseteq {"rx1", "rx2"}
      /\ ~c.tx_ongoing /\ c.radio = "sleep"
  BY <1>3 DEF Alters, Fields, Alone, Orderly
<1>5. /\ Alters(c, g, {"due"}) /\ g.due = Append(d.due, [fn |-> "event", event |-> "CONNECTED"])
      /\ Orderly(g) /\ Quiet(g.due)
  <2>1. "CONNECTED" \in AppEvents
    BY DEF AppEvents
  <2> QED
    BY <1>4, <2>1, EventIs
<1> HIDE DEF g
<1>6. Alters(d, e, {"flags", "session_active", "due", "state"}) /\ e.due = g.due /\ e.flags = f
      /\ e.orphans = g.orphans /\ e.nwk_joined = g.nwk_joined /\ e.device_class = g.device_class
      /\ e.armed = {} /\ ~e.tx_ongoing /\ e.radio = "sleep" /\ DOMAIN e = Fields
  BY <1>3, <1>4, <1>5 DEF Alters, Fields
<1> HIDE DEF e
<1>7. Orderly(e) /\ Resting(e)
  BY <1>2, <1>5, <1>6 DEF Orderly, Resting
<1> QED
  BY <1>1, <1>2, <1>5, <1>6, <1>7

LEMMA JoinFailedIs ==
    ASSUME QueueCap >= 6, NEW d, Alone(d), Len(d.due) <= 2, ~d.tx_ongoing
    PROVE  LET e == join_failed(d)
           IN  /\ Orderly(e) /\ Resting(e)
               /\ e.due = Append(d.due, [fn |-> "event", event |-> "JOIN_FAILURE"])
               /\ Alters(d, e, {"flags", "due", "state"})
<1> DEFINE f == d.flags \ {"CONN_IN_PROGRESS"}
           c == [d EXCEPT !.flags = f]
           g == send_event_to_application(c, "JOIN_FAILURE")
           e == [g EXCEPT !.state = "IDLE"]
<1>1. join_failed(d) = e
  BY DEF join_failed, set_state, clear_flags
<1>2. "CONN_IN_PROGRESS" \notin f
  OBVIOUS
<1> HIDE DEF f
<1>3. Alters(d, c, {"flags"}) /\ c.flags = f
  BY DEF Alters, Fields, Alone, Orderly
<1> HIDE DEF c
<1>4. Orderly(c) /\ Quiet(c.due) /\ c.due = d.due /\ c.armed = {} /\ c.armed \subseteq {"rx1", "rx2"}
      /\ ~c.tx_ongoing /\ c.radio = "sleep"
  BY <1>3 DEF Alters, Fields, Alone, Orderly
<1>5. /\ Alters(c, g, {"due"}) /\ g.due = Append(d.due, [fn |-> "event", event |-> "JOIN_FAILURE"])
      /\ Orderly(g) /\ Quiet(g.due)
  <2>1. "JOIN_FAILURE" \in AppEvents
    BY DEF AppEvents
  <2> QED
    BY <1>4, <2>1, EventIs
<1> HIDE DEF g
<1>6. Alters(d, e, {"flags", "due", "state"}) /\ e.due = g.due /\ e.flags = f
      /\ e.orphans = g.orphans /\ e.nwk_joined = g.nwk_joined /\ e.device_class = g.device_class
      /\ e.armed = {} /\ ~e.tx_ongoing /\ e.radio = "sleep" /\ DOMAIN e = Fields
  BY <1>3, <1>4, <1>5 DEF Alters, Fields
<1> HIDE DEF e
<1>7. Orderly(e) /\ Resting(e)
  BY <1>2, <1>5, <1>6 DEF Orderly, Resting
<1> QED
  BY <1>1, <1>5, <1>6, <1>7

\* Connecting over the air begins with a Join Request.
LEMMA ConnectOtaaIs ==
    ASSUME QueueCap >= 6, NEW d, Orderly(d), Resting(d), d.due = <<>>, NEW ch \in Clear
    PROVE  LET e == connect(d, TRUE, ch)
           IN  /\ Orderly(e) /\ Begun(e) /\ e.due = d.due /\ e.tx_ongoing = d.tx_ongoing
               /\ ~e.nwk_joined /\ e.ul_frame_counter = 0 /\ "CONN_IN_PROGRESS" \in e.flags
               /\ Pays(d, e)
<1> DEFINE r == [d EXCEPT !.nwk_joined = FALSE, !.ul_frame_counter = 0, !.dl_frame_counter = 0,
                          !.ul_nb_rep_counter = 0, !.max_ack_timeout_retries = 1,
                          !.ack_timeout_retry_counter = 1, !.is_node_ack_requested = FALSE,
                          !.is_srv_ack_requested = FALSE, !.demod_ongoing = FALSE]
           p == [r EXCEPT !.join_request_trial_counter = 0]
           f == d.flags \cup {"CONN_IN_PROGRESS", "USING_OTAA"}
           q == [p EXCEPT !.flags = f]
           c == [q EXCEPT !.state = "CONNECTING"]
           j == [c EXCEPT !.state = "JOINING"]
           s == send_join_request(j, ch)
<1>1. p = prepare_join(d)
  BY DEF prepare_join, reset_mac_parameters
<1>2. Alters(d, p, {"nwk_joined", "ul_frame_counter", "dl_frame_counter", "ul_nb_rep_counter",
                    "max_ack_timeout_retries", "ack_timeout_retry_counter",
                    "is_node_ack_requested", "is_srv_ack_requested", "demod_ongoing",
                    "join_request_trial_counter"}) /\ ~p.nwk_joined /\ p.ul_frame_counter = 0
  BY DEF Alters, Fields, Orderly
<1> HIDE DEF p
<1>3. p.flags = d.flags
  BY <1>2 DEF Alters, Fields
<1>4. q = set_flags(prepare_join(d), {"CONN_IN_PROGRESS", "USING_OTAA"})
  BY <1>1, <1>3 DEF set_flags
<1>5. {"CONN_IN_PROGRESS", "USING_OTAA"} \subseteq f
  OBVIOUS
<1> HIDE DEF f
<1>6. /\ Alters(p, c, {"flags", "state"}) /\ c.flags = f /\ c.state = "CONNECTING"
      /\ Alters(c, j, {"state"}) /\ j.state = "JOINING"
  BY <1>2 DEF Alters, Fields
<1>7. connect(d, TRUE, ch) = process_joining_state(c, ch)
  <2>1. connect(d, TRUE, ch) = process_connecting_state(q, ch)
    BY <1>4, Zenon DEF connect
  <2>2. "USING_OTAA" \in q.flags /\ set_state(q, "CONNECTING") = c
    BY <1>2, <1>5 DEF set_state, Alters, Fields
  <2> HIDE DEF q, c
  <2>3. process_connecting_state(q, ch) = process_joining_state(c, ch)
    BY <2>2 DEF process_connecting_state
  <2> QED
    BY <2>1, <2>3
<1>8. process_joining_state(c, ch) = s.dev
  BY <1>6 DEF process_joining_state, set_state
<1> HIDE DEF q, c, j
<1>9. /\ Orderly(j) /\ j.radio = "sleep" /\ j.armed = {} /\ Quiet(j.due) /\ ~j.tx_ongoing
      /\ ~j.nwk_joined /\ j.flags = f /\ j.due = d.due /\ j.tx_ongoing = d.tx_ongoing
      /\ j.ul_frame_counter = 0
  <2>1. /\ j.radio = d.radio /\ j.armed = d.armed /\ j.due = d.due /\ j.tx_ongoing = d.tx_ongoing
        /\ j.nwk_joined = p.nwk_joined /\ j.flags = c.flags /\ j.orphans = d.orphans
        /\ j.device_class = d.device_class /\ j.ul_frame_counter = p.ul_frame_counter
        /\ DOMAIN j = Fields
    BY <1>2, <1>6 DEF Alters, Fields
  <2>2. Len(d.due) = 0
    OBVIOUS
  <2> QED
    BY <1>2, <1>6, <2>1, <2>2 DEF Orderly, Resting
<1>10. /\ Orderly(s.dev) /\ Begun(s.dev) /\ s.dev.due = j.due
       /\ Alters(j, s.dev, SchedFields \cup FrameFields)
       /\ s.dev.ul_frame_counter = 0 /\ s.dev.flags = j.flags
  BY <1>5, <1>6, <1>9, JoinBegins DEF Alone
<1> HIDE DEF s
<1>11. s.dev.tx_ongoing = j.tx_ongoing /\ s.dev.nwk_joined = j.nwk_joined
  BY <1>10 DEF Alters, Fields, SchedFields, FrameFields
<1>12. Pays(d, p) /\ Pays(p, c) /\ Pays(c, j)
  BY <1>2, <1>6, AltersPays
<1>13. Pays(j, s.dev)
  <2>1. SchedFields \cup FrameFields \subseteq Fields \ {"due", "tx_ongoing", "tx_msg",
                                              "automatic_uplink_ongoing", "mlme_ind_pending"}
    BY DEF SchedFields, FrameFields, Fields
  <2> QED
    BY <1>10, <2>1, AltersPays
<1>14. Pays(d, s.dev)
  BY <1>12, <1>13 DEF Pays
<1> QED
  BY <1>5, <1>7, <1>8, <1>9, <1>10, <1>11, <1>14

\* Connecting by personalization ends at once.
LEMMA ConnectAbpIs ==
    ASSUME QueueCap >= 6, NEW d, Orderly(d), Resting(d), d.due = <<>>, NEW ch
    PROVE  LET e == connect(d, FALSE, ch)
           IN  /\ Orderly(e) /\ Resting(e)
               /\ e.due = Append(d.due, [fn |-> "event", event |-> "CONNECTED"])
               /\ e.is_srv_ack_requested = d.is_srv_ack_requested
               /\ "CONNECTED" \in e.flags /\ e.ul_frame_counter = d.ul_frame_counter
               /\ Pays(d, e)
<1> DEFINE f == (d.flags \cup {"CONN_IN_PROGRESS"}) \ {"USING_OTAA"}
           q == clear_flags(set_flags(d, {"CONN_IN_PROGRESS"}), {"USING_OTAA"})
           c == [q EXCEPT !.state = "CONNECTING"]
           j == [c EXCEPT !.nwk_joined = TRUE]
           e == process_connected_state(j)
<1>1. Alters(d, q, {"flags"}) /\ q.flags = f
  BY DEF Alters, Fields, Orderly, set_flags, clear_flags
<1>2. "USING_OTAA" \notin f
  OBVIOUS
<1> HIDE DEF f, q
<1>3. Alters(q, c, {"state"}) /\ Alters(c, j, {"nwk_joined"}) /\ j.nwk_joined
  BY <1>1 DEF Alters, Fields
<1>4. c.flags = f
  BY <1>1, <1>3 DEF Alters, Fields
<1>5. connect(d, FALSE, ch) = e
  BY <1>2, <1>4 DEF connect, process_connecting_state, set_state, q
<1> HIDE DEF c, j
<1>6. /\ j.radio = d.radio /\ j.armed = d.armed /\ j.due = d.due /\ j.tx_ongoing = d.tx_ongoing
      /\ j.orphans = d.orphans /\ j.device_class = d.device_class /\ DOMAIN j = Fields
      /\ j.is_srv_ack_requested = d.is_srv_ack_requested
      /\ j.ul_frame_counter = d.ul_frame_counter
  BY <1>1, <1>3 DEF Alters, Fields
<1>7. Alone(j) /\ Len(j.due) <= 2 /\ ~j.tx_ongoing
  BY <1>3, <1>6 DEF Alone, Orderly, Resting
<1>8. /\ Orderly(e) /\ Resting(e)
      /\ e.due = Append(j.due, [fn |-> "event", event |-> "CONNECTED"])
      /\ Alters(j, e, {"flags", "session_active", "due", "state"})
      /\ "CONNECTED" \in e.flags
  BY <1>7, ConnectedIs
<1> HIDE DEF e
<1>9. /\ e.is_srv_ack_requested = j.is_srv_ack_requested
      /\ e.ul_frame_counter = j.ul_frame_counter
  BY <1>8 DEF Alters, Fields
<1>10. Pays(d, q) /\ Pays(q, c) /\ Pays(c, j)
  BY <1>1, <1>3, AltersPays
<1>11. Pays(j, e)
  BY <1>7, <1>8, ReplyPays DEF Alone, Orderly, Replies
<1>12. Pays(d, e)
  BY <1>10, <1>11 DEF Pays
<1> QED
  BY <1>5, <1>6, <1>8, <1>9, <1>12

-----------------------------------------------------------------------------
(* The radio and the clock *)

\* A call posted to a quiet queue waits behind everything else.
LEMMA PostLast ==
    ASSUME QueueCap >= 6, NEW d, Orderly(d), Quiet(d.due), NEW a, NEW b, d.armed \subseteq {a, b},
           NEW c \in Calls, c.fn # "send_automatic_uplink_message"
    PROVE  /\ Alters(d, post(d, c), {"due"}) /\ post(d, c).due = Append(d.due, c)
           /\ Orderly(post(d, c)) /\ Last(post(d, c).due, c)
<1> DEFINE e == post(d, c)
<1>1. Room(d)
  BY RoomIs DEF Orderly, Quiet
<1>2. Alters(d, e, {"due"}) /\ e.due = Append(d.due, c)
  BY <1>1, PostIs DEF Orderly
<1> HIDE DEF e
<1>3. /\ Last(e.due, c) /\ e.due \in Seq(Calls) /\ Len(e.due) = Len(d.due) + 1
      /\ Len(d.due) \in Nat /\ e.due[Len(d.due) + 1] = c
      /\ \A i \in 1 .. Len(d.due) : e.due[i] = d.due[i]
  BY <1>2, QuietAppend DEF Orderly
<1>4. e.nwk_joined = d.nwk_joined /\ e.device_class = d.device_class /\ e.orphans = d.orphans
      /\ DOMAIN e = Fields
  BY <1>2 DEF Alters, Fields
<1>5. ASSUME ~d.nwk_joined, NEW i \in 1 .. Len(e.due)
      PROVE  e.due[i].fn # "send_automatic_uplink_message"
  <2>1. CASE i \in 1 .. Len(d.due)
    BY <1>3, <1>5, <2>1 DEF Orderly
  <2>2. CASE i = Len(d.due) + 1
    BY <1>3, <2>2
  <2> QED
    BY <1>3, <1>5, <2>1, <2>2
<1> QED
  BY <1>2, <1>3, <1>4, <1>5 DEF Orderly, e

\* At most two timers run while a window is open.
LEMMA LeftFew ==
    ASSUME NEW d, NEW slot
    PROVE  Left(d, slot) \subseteq {"rx2", "ack"}
BY DEF Left, AckTimer

\* The frame is out: the interrupt is posted.
LEMMA TxDoneIs ==
    ASSUME QueueCap >= 6, NEW d, InPhase(d), d.radio = "tx"
    PROVE  LET e == post([d EXCEPT !.radio = "standby"], Sent)
           IN  InPhase(e) /\ Balances(d, e)
<1> DEFINE p == [d EXCEPT !.radio = "standby"]
           e == post(p, Sent)
<1>1. Sending(d) /\ Orderly(d)
  BY DEF InPhase, Phase, Begun, Resting, Delayed, Transmitted, Awaits, Listens, Closes,
         AckAwaited, Repeating
<1>2. Alters(d, p, {"radio"}) /\ p.radio = "standby"
  BY <1>1 DEF Alters, Fields, Orderly
<1> HIDE DEF p
<1>3. Orderly(p) /\ Quiet(p.due) /\ p.armed = {} /\ p.armed \subseteq {"rx1", "rx2"}
  BY <1>1, <1>2 DEF Alters, Fields, Orderly, Sending
<1>4. Sent \in Calls /\ Sent.fn # "send_automatic_uplink_message"
  BY DEF Sent, Calls
<1>5. /\ Alters(p, e, {"due"}) /\ Orderly(e) /\ Last(e.due, Sent)
      /\ e.due = Append(p.due, Sent)
  BY <1>3, <1>4, PostLast
<1> HIDE DEF e
<1>6. /\ Alters(d, e, {"radio", "due"}) /\ e.radio = "standby"
  BY <1>2, <1>5 DEF Alters, Fields
<1>7. /\ e.is_srv_ack_requested = d.is_srv_ack_requested /\ e.armed = d.armed
      /\ Exchange(d, "JOINING") => Exchange(e, "JOINING")
  BY <1>6 DEF Alters, Fields, Exchange, Transmits, Joins
<1>8. Transmitted(e)
  BY <1>1, <1>5, <1>6, <1>7 DEF Sending, Transmitted
<1>9. Balances(d, p)
  BY <1>2, AltersBalances
<1>10. Balances(p, e)
  <2>1. ~IsReport(Sent) /\ ~IsReply(Sent)
    BY DEF IsReport, IsReply, IsEvent, Sent
  <2> QED
    BY <1>3, <1>4, <1>5, <2>1, PostBalances DEF Orderly
<1> QED
  BY <1>5, <1>8, <1>9, <1>10, BalancesTransitive DEF InPhase, Phase, e, p

\* An open window closes, with a frame or without.
LEMMA WindowCloses ==
    ASSUME QueueCap >= 6, NEW d, InPhase(d), d.radio = "rx", NEW e, NEW c,
           Alters(d, e, {"radio", "rx_payload_in_use"}), e.radio = "standby",
           \/ \E b \in BOOLEAN : c = Silence(b)
           \/ \E f \in Downlinks : Receivable(d, f) /\ c = Reception(f)
    PROVE  InPhase(post(e, c)) /\ Balances(d, post(e, c))
<1> DEFINE g == post(e, c)
<1>1. PICK slot \in Slots : Listens(d, slot)
  BY DEF InPhase, Phase, Begun, Resting, Sending, Delayed, Transmitted, Awaits, Listens, Closes,
         AckAwaited, Repeating
<1>2. Orderly(e) /\ Quiet(e.due) /\ e.armed = d.armed /\ e.due = d.due
  BY <1>1 DEF Alters, Fields, InPhase, Orderly, Listens
<1>3. c \in Calls /\ c.fn # "send_automatic_uplink_message" /\ ~IsReport(c) /\ ~IsReply(c)
  <2>1. \A b \in BOOLEAN : Silence(b) \in Calls /\ Silence(b).fn = "process_reception_timeout"
    BY DEF Silence, Calls
  <2>2. \A f \in Downlinks : Reception(f) \in Calls /\ Reception(f).fn = "process_reception"
    BY EnvironmentAssumption DEF Reception, Calls
  <2> QED
    BY <2>1, <2>2 DEF IsReport, IsReply, IsEvent
<1>4. e.armed \subseteq {"rx2", "ack"}
  BY <1>1, <1>2, LeftFew DEF Listens
<1>5. Alters(e, g, {"due"}) /\ Orderly(g) /\ Last(g.due, c) /\ g.due = Append(e.due, c)
  BY <1>2, <1>3, <1>4, PostLast
<1> HIDE DEF g
<1>6. Alters(d, g, {"radio", "rx_payload_in_use", "due"}) /\ g.radio = "standby"
  BY <1>5 DEF Alters, Fields
<1>7. /\ g.is_srv_ack_requested = d.is_srv_ack_requested /\ g.armed = d.armed
      /\ g.rx_slot = d.rx_slot /\ Left(g, slot) = Left(d, slot)
      /\ Exchange(d, "AWAITING_JOIN_ACCEPT") => Exchange(g, "AWAITING_JOIN_ACCEPT")
      /\ \A f : Receivable(d, f) => Receivable(g, f)
  BY <1>6 DEF Alters, Fields, Exchange, Transmits, Joins, Left, AckTimer, Receivable
<1>8. Closes(g, slot)
  BY <1>1, <1>5, <1>6, <1>7 DEF Listens, Closes
<1>9. Balances(d, e)
  BY AltersBalances
<1>10. Balances(e, g)
  BY <1>2, <1>3, <1>5, PostBalances DEF Orderly
<1> QED
  BY <1>5, <1>8, <1>9, <1>10, BalancesTransitive DEF InPhase, Phase, g

\* A timer expires: its callback waits.
LEMMA PendsExpires ==
    ASSUME NEW d, Orderly(d), NEW t \in Timers, NEW T, t \notin T, t \in d.armed, Pends(d, t, T)
    PROVE  LET e == [d EXCEPT !.armed = d.armed \ {t}, !.due = Append(d.due, LiveCall(t))]
           IN  Alters(d, e, {"armed", "due"}) /\ Orderly(e) /\ Pends(e, t, T)
<1> DEFINE q == Append(d.due, LiveCall(t))
           e == [d EXCEPT !.armed = d.armed \ {t}, !.due = q]
<1>1. d.armed = T \cup {t} /\ Quiet(d.due)
  BY DEF Pends
<1>2. LiveCall(t) \in Calls /\ LiveCall(t).fn = "timer"
  BY DEF LiveCall, Calls
<1>3. /\ Last(q, LiveCall(t)) /\ q \in Seq(Calls) /\ Len(q) = Len(d.due) + 1
      /\ Len(d.due) \in Nat /\ q[Len(d.due) + 1] = LiveCall(t)
      /\ \A i \in 1 .. Len(d.due) : q[i] = d.due[i]
  BY <1>1, <1>2, QuietAppend DEF Orderly
<1> HIDE DEF q
<1>4. Alters(d, e, {"armed", "due"}) /\ e.due = q /\ e.armed = T
  BY <1>1 DEF Alters, Fields, Orderly
<1> HIDE DEF e
<1>5. e.nwk_joined = d.nwk_joined /\ e.device_class = d.device_class /\ e.orphans = d.orphans
      /\ DOMAIN e = Fields
  BY <1>4 DEF Alters, Fields
<1>6. ASSUME ~d.nwk_joined, NEW i \in 1 .. Len(q)
      PROVE  q[i].fn # "send_automatic_uplink_message"
  <2>1. CASE i \in 1 .. Len(d.due)
    BY <1>3, <1>6, <2>1 DEF Orderly
  <2>2. CASE i = Len(d.due) + 1
    BY <1>2, <1>3, <2>2
  <2> QED
    BY <1>3, <1>6, <2>1, <2>2
<1> QED
  BY <1>3, <1>4, <1>5, <1>6 DEF Orderly, Pends, e, q

\* A call that waits behind everything else is due.
LEMMA LastDue ==
    ASSUME NEW q \in Seq(Calls), NEW c, Last(q, c)
    PROVE  \E i \in DOMAIN q : q[i] = c
<1>1. Len(q) \in 1 .. 4 /\ q[Len(q)] = c
  BY DEF Last
<1>2. Len(q) \in DOMAIN q
  BY <1>1
<1> QED
  BY <1>1, <1>2

\* A window that is open, or whose end waits, keeps the timers after it.
LEMMA UnsettledWindow ==
    ASSUME NEW d, d.due \in Seq(Calls), NEW slot, Listens(d, slot) \/ Closes(d, slot)
    PROVE  ~Settled(d)
<1>1. CASE Listens(d, slot)
  BY <1>1 DEF Listens, Settled
<1>2. CASE Closes(d, slot)
  <2>1. /\ \A b : Silence(b).fn = "process_reception_timeout"
        /\ \A f : Reception(f).fn = "process_reception"
    BY DEF Silence, Reception
  <2>2. \E i \in DOMAIN d.due : d.due[i].fn \in {"process_reception", "process_reception_timeout"}
    BY <1>2, <2>1, LastDue DEF Closes
  <2> QED
    BY <2>2 DEF Settled, ReceptionDue
<1> QED
  BY <1>1, <1>2

\* The next timer of the exchange, and no other, may expire.
LEMMA ExpireIs ==
    ASSUME NEW d, InPhase(d), NEW t \in Timers, t \in d.armed, Before(t) \cap d.armed = {},
           t \in {"backoff", "rx1"} \/ Settled(d)
    PROVE  LET e == [d EXCEPT !.armed = d.armed \ {t}, !.due = Append(d.due, LiveCall(t))]
           IN  InPhase(e) /\ Balances(d, e)
<1> DEFINE e == [d EXCEPT !.armed = d.armed \ {t}, !.due = Append(d.due, LiveCall(t))]
<1>b. Balances(d, e)
  <2>1. Alters(d, e, {"armed", "due"}) /\ e.due = Append(d.due, LiveCall(t))
        /\ d.due \in Seq(Calls)
    BY DEF Alters, Fields, InPhase, Orderly
  <2>2. LiveCall(t) \in Calls /\ ~IsReport(LiveCall(t)) /\ ~IsReply(LiveCall(t))
        /\ LiveCall(t).fn # "send_automatic_uplink_message"
    BY DEF LiveCall, Calls, IsReport, IsReply, IsEvent
  <2> HIDE DEF e
  <2> QED
    BY <2>1, <2>2, PostBalances
<1> SUFFICES InPhase(e)
  BY <1>b
<1>0. Orderly(d) /\ d.due \in Seq(Calls)
  BY DEF InPhase, Orderly
<1>1. ASSUME NEW T, t \notin T, Pends(d, t, T)
      PROVE  Alters(d, e, {"armed", "due"}) /\ Orderly(e) /\ Pends(e, t, T)
  BY <1>0, <1>1, PendsExpires
<1>2. ASSUME NEW u, NEW T, Pends(d, u, T), t \in T, u \in Before(t), t \notin {"backoff", "rx1"}
      PROVE  FALSE
  <2>1. CASE d.armed = T \cup {u}
    BY <1>2, <2>1
  <2>2. CASE Last(d.due, LiveCall(u))
    <3>1. \E i \in DOMAIN d.due : d.due[i].fn = "timer"
      BY <1>0, <2>2, LastDue DEF LiveCall
    <3> QED
      BY <1>2, <3>1 DEF Settled
  <2> QED
    BY <1>2, <2>1, <2>2 DEF Pends
<1>3. Before("rx2") = {"rx1"} /\ {"rx1", "rx2"} \subseteq Before("ack")
  BY DEF Before
<1> HIDE DEF e
<1>4. ASSUME Alters(d, e, {"armed", "due"})
      PROVE  /\ e.radio = d.radio /\ e.is_srv_ack_requested = d.is_srv_ack_requested
             /\ e.demod_ongoing = d.demod_ongoing /\ e.tx_type = d.tx_type
             /\ e.ack_timeout_retry_counter = d.ack_timeout_retry_counter
             /\ e.max_ack_timeout_retries = d.max_ack_timeout_retries
             /\ \A s : Exchange(d, s) => Exchange(e, s)
             /\ Transmits(d) => Transmits(e)
             /\ \A slot : Left(e, slot) = Left(d, slot)
             /\ Conveys(d) => Conveys(e)
  BY <1>4 DEF Alters, Fields, Exchange, Transmits, Joins, Left, AckTimer, Conveys
<1>5. CASE Resting(d) \/ Sending(d) \/ Transmitted(d) \/ Repeating(d)
  BY <1>5 DEF Resting, Sending, Transmitted, Repeating
<1>6. CASE Delayed(d)
  <2>1. t = "backoff" /\ t \notin {}
    BY <1>6 DEF Delayed, Pends
  <2>2. Alters(d, e, {"armed", "due"}) /\ Orderly(e) /\ Pends(e, "backoff", {})
    BY <1>1, <1>6, <2>1 DEF Delayed
  <2> QED
    BY <1>4, <1>6, <2>2 DEF Delayed, InPhase, Phase, Begun
<1>7. CASE AckAwaited(d)
  <2>1. t = "ack" /\ t \notin {}
    BY <1>7 DEF AckAwaited, Pends
  <2>2. Alters(d, e, {"armed", "due"}) /\ Orderly(e) /\ Pends(e, "ack", {})
    BY <1>1, <1>7, <2>1 DEF AckAwaited
  <2> QED
    BY <1>4, <1>7, <2>2 DEF AckAwaited, InPhase, Phase
<1>8. CASE Awaits(d, "RX1")
  <2>1. Pends(d, "rx1", Left(d, "RX1")) /\ Left(d, "RX1") \subseteq {"rx2", "ack"}
    BY <1>8, LeftFew DEF Awaits
  <2>2. t = "rx1"
    <3>1. t \in Left(d, "RX1") \cup {"rx1"}
      BY <2>1 DEF Pends
    <3>2. "rx2" \in Left(d, "RX1")
      BY DEF Left
    <3>3. ASSUME t = "ack"
          PROVE  FALSE
      <4>1. "rx2" \in d.armed
        BY <2>1, <3>2 DEF Pends
      <4> QED
        BY <1>3, <3>3, <4>1
    <3>4. t = "rx2" => FALSE
      BY <1>2, <1>3, <2>1, <3>2
    <3> QED
      BY <2>1, <3>1, <3>3, <3>4
  <2>3. Alters(d, e, {"armed", "due"}) /\ Orderly(e) /\ Pends(e, "rx1", Left(d, "RX1"))
    BY <1>1, <2>1, <2>2
  <2>4. Awaits(e, "RX1")
    BY <1>4, <1>8, <2>3 DEF Awaits
  <2> QED
    BY <2>3, <2>4 DEF InPhase, Phase, Slots
<1>9. CASE Awaits(d, "RX2")
  <2>1. Pends(d, "rx2", Left(d, "RX2")) /\ Left(d, "RX2") \subseteq {"ack"} /\ ~d.demod_ongoing
    BY <1>9 DEF Awaits, Left, AckTimer
  <2>2. t = "rx2"
    <3>1. t \in Left(d, "RX2") \cup {"rx2"}
      BY <2>1 DEF Pends
    <3>2. t = "ack" => FALSE
      BY <1>2, <1>3, <2>1, <3>1
    <3> QED
      BY <2>1, <3>1, <3>2
  <2>3. Alters(d, e, {"armed", "due"}) /\ Orderly(e) /\ Pends(e, "rx2", Left(d, "RX2"))
    BY <1>1, <2>1, <2>2
  <2>4. Awaits(e, "RX2")
    BY <1>4, <1>9, <2>1, <2>3 DEF Awaits
  <2> QED
    BY <2>3, <2>4 DEF InPhase, Phase, Slots
<1>10. ASSUME NEW slot \in Slots, Listens(d, slot) \/ Closes(d, slot)
       PROVE  FALSE
  <2>1. t \in {"rx2", "ack"}
    BY <1>10, LeftFew DEF Listens, Closes
  <2> QED
    BY <1>0, <1>10, <2>1, UnsettledWindow
<1> QED
  BY <1>5, <1>6, <1>7, <1>8, <1>9, <1>10 DEF InPhase, Phase, Begun, Slots

-----------------------------------------------------------------------------
(* The calls of an exchange *)

\* The calls of an exchange are told apart.
LEMMA CallsDiffer ==
    /\ Sent.fn = "process_transmission" /\ Repetition.fn = "state_controller_scheduling"
    /\ \A b : Silence(b).fn = "process_reception_timeout" /\ Silence(b).is_timeout = b
    /\ \A f : Reception(f).fn = "process_reception" /\ Reception(f).frame = f
    /\ \A t : LiveCall(t).fn = "timer" /\ LiveCall(t).timer = t /\ LiveCall(t).live = TRUE
BY DEF Sent, Repetition, Silence, Reception, LiveCall

\* The callback of a timer says which window is to open, or what is to be sent.
LEMMA TimerPhase ==
    ASSUME NEW d, InPhase(d), d.due # <<>>, Head(d.due).fn = "timer"
    PROVE  /\ Tail(d.due) = <<>>
           /\ \/ Head(d.due).timer = "backoff" /\ Delayed(d) /\ d.armed = {}
              \/ Head(d.due).timer = "rx1" /\ Awaits(d, "RX1") /\ d.armed = Left(d, "RX1")
              \/ /\ Head(d.due).timer = "rx2" /\ Awaits(d, "RX2") /\ ~d.demod_ongoing
                 /\ d.armed = Left(d, "RX2")
              \/ Head(d.due).timer = "ack" /\ AckAwaited(d) /\ d.armed = {}
<1>1. Head(d.due).fn \notin Light
  BY DEF Light
<1>2. Dispatched(d)
  BY <1>1, PhaseHead
<1> QED
  BY <1>2, CallsDiffer DEF Dispatched

\* Without the last call the queue is empty.
LEMMA PoppedEmpty ==
    ASSUME NEW d, Orderly(d), Tail(d.due) = <<>>
    PROVE  /\ Alters(d, Popping(d), {"due"}) /\ Popping(d).due = <<>>
           /\ Ready(Popping(d)) /\ Orderly(Popping(d)) /\ Len(Popping(d).due) = 0
<1> DEFINE p == Popping(d)
<1>1. Alters(d, p, {"due"}) /\ p.due = <<>>
  BY PoppingIs
<1> HIDE DEF p
<1>2. p.nwk_joined = d.nwk_joined /\ p.device_class = d.device_class /\ p.orphans = d.orphans
      /\ DOMAIN p = Fields
  BY <1>1 DEF Alters, Fields
<1>3. p.due \in Seq(Calls) /\ Quiet(p.due) /\ Len(p.due) = 0
  BY <1>1, EmptyQuiet
<1> QED
  BY <1>1, <1>2, <1>3 DEF Ready, Orderly, p

\* The first window opens.
LEMMA OpenRx1Is ==
    ASSUME NEW d, InPhase(d), d.due # <<>>, Head(d.due).fn = "timer", Head(d.due).timer = "rx1"
    PROVE  LET e == open_rx1_window(Popping(d))
           IN  InPhase(e) /\ Balances(Popping(d), e)
<1> DEFINE p == Popping(d)
           s == stop(p, "rx1")
           e == [s EXCEPT !.demod_ongoing = TRUE, !.continuous_rx2_window_open = FALSE,
                          !.rx_slot = "RX1", !.radio = "rx"]
<1>1. Awaits(d, "RX1") /\ Tail(d.due) = <<>> /\ d.armed = Left(d, "RX1") /\ Orderly(d)
  BY TimerPhase DEF InPhase
<1>2. Alters(d, p, {"due"}) /\ Ready(p) /\ Orderly(p) /\ Quiet(p.due)
  BY <1>1, PoppedEmpty DEF Ready
<1>3. open_rx1_window(p) = e
  BY DEF open_rx1_window
<1> HIDE DEF p
<1>4. p.armed = Left(d, "RX1")
  BY <1>1, <1>2 DEF Alters, Fields
<1>5. Alters(p, s, {"armed"}) /\ s.armed = Left(d, "RX1") /\ Ready(s)
  <2>1. "rx1" \notin Left(d, "RX1")
    BY DEF Left, AckTimer
  <2>2. Left(d, "RX1") \ {"rx1"} = Left(d, "RX1")
    BY <2>1
  <2> QED
    BY <1>2, <1>4, <2>2, StopIs
<1> HIDE DEF s
<1>6. /\ Alters(p, e, {"armed", "demod_ongoing", "continuous_rx2_window_open", "rx_slot", "radio"})
      /\ e.armed = Left(d, "RX1") /\ e.rx_slot = "RX1" /\ e.radio = "rx"
  BY <1>5 DEF Alters, Fields
<1> HIDE DEF e
<1>7. Alters(d, e, {"due", "armed", "demod_ongoing", "continuous_rx2_window_open", "rx_slot", "radio"})
  BY <1>2, <1>6 DEF Alters
<1>8. /\ e.is_srv_ack_requested = d.is_srv_ack_requested /\ e.due = p.due
      /\ Left(e, "RX1") = Left(d, "RX1")
      /\ Exchange(d, "AWAITING_JOIN_ACCEPT") => Exchange(e, "AWAITING_JOIN_ACCEPT")
      /\ e.device_class = p.device_class /\ e.orphans = p.orphans /\ DOMAIN e = Fields
      /\ e.nwk_joined = p.nwk_joined
  BY <1>6, <1>7 DEF Alters, Fields, Exchange, Transmits, Joins, Left, AckTimer
<1>9. Listens(e, "RX1")
  BY <1>1, <1>2, <1>6, <1>8 DEF Awaits, Listens
<1>10. Orderly(e) /\ Balances(p, e)
  BY <1>2, <1>6, <1>8, AltersBalances DEF Orderly
<1> QED
  BY <1>3, <1>9, <1>10 DEF InPhase, Phase, Slots, p

\* The second window opens.
LEMMA OpenRx2Is ==
    ASSUME NEW d, InPhase(d), d.due # <<>>, Head(d.due).fn = "timer", Head(d.due).timer = "rx2"
    PROVE  LET e == open_rx2_window(Popping(d))
           IN  InPhase(e) /\ Balances(Popping(d), e)
<1> DEFINE p == Popping(d)
           s == stop(p, "rx2")
           e == [s EXCEPT !.continuous_rx2_window_open = TRUE, !.rx_slot = "RX2", !.radio = "rx"]
<1>1. /\ Awaits(d, "RX2") /\ ~d.demod_ongoing /\ Tail(d.due) = <<>> /\ d.armed = Left(d, "RX2")
      /\ Orderly(d)
  BY TimerPhase DEF InPhase
<1>2. Alters(d, p, {"due"}) /\ Ready(p) /\ Orderly(p) /\ Quiet(p.due)
  BY <1>1, PoppedEmpty DEF Ready
<1> HIDE DEF p
<1>3. p.armed = Left(d, "RX2") /\ ~p.demod_ongoing /\ p.device_class = "A"
  BY <1>1, <1>2 DEF Alters, Fields, Orderly
<1>4. open_rx2_window(p) = e
  BY <1>3 DEF open_rx2_window
<1>5. "rx2" \notin Left(d, "RX2")
  BY DEF Left, AckTimer
<1>6. Alters(p, s, {"armed"}) /\ s.armed = Left(d, "RX2") /\ Ready(s)
  <2>1. Left(d, "RX2") \ {"rx2"} = Left(d, "RX2")
    BY <1>5
  <2> QED
    BY <1>2, <1>3, <2>1, StopIs
<1> HIDE DEF s
<1>7. /\ Alters(p, e, {"armed", "continuous_rx2_window_open", "rx_slot", "radio"})
      /\ e.armed = Left(d, "RX2") /\ e.rx_slot = "RX2" /\ e.radio = "rx"
  BY <1>6 DEF Alters, Fields
<1> HIDE DEF e
<1>8. Alters(d, e, {"due", "armed", "continuous_rx2_window_open", "rx_slot", "radio"})
  BY <1>2, <1>7 DEF Alters
<1>9. /\ e.is_srv_ack_requested = d.is_srv_ack_requested /\ e.due = p.due
      /\ Left(e, "RX2") = Left(d, "RX2")
      /\ Exchange(d, "AWAITING_JOIN_ACCEPT") => Exchange(e, "AWAITING_JOIN_ACCEPT")
      /\ e.device_class = p.device_class /\ e.orphans = p.orphans /\ DOMAIN e = Fields
      /\ e.nwk_joined = p.nwk_joined
  BY <1>7, <1>8 DEF Alters, Fields, Exchange, Transmits, Joins, Left, AckTimer
<1>10. Listens(e, "RX2")
  BY <1>1, <1>2, <1>7, <1>9 DEF Awaits, Listens
<1>11. Orderly(e) /\ Balances(p, e)
  BY <1>2, <1>7, <1>9, AltersBalances DEF Orderly
<1> QED
  BY <1>4, <1>10, <1>11 DEF InPhase, Phase, Slots, p

\* When the frame is out both windows are timed, and the acknowledgement if one is wanted.
LEMMA WindowsTimed ==
    ASSUME QueueCap >= 6, NEW d, Orderly(d), d.due = <<>>, d.armed = {}
    PROVE  LET e == on_radio_tx_done(d)
           IN  /\ Alters(d, e, {"radio", "ul_nb_rep_counter", "armed"})
               /\ e.radio = "sleep" /\ e.armed = {"rx1", "rx2"} \cup AckTimer(d)
<1> DEFINE n == IF d.req_type = "UNCONFIRMED" /\ d.nb_trans > 1
                THEN put_radio_to_sleep(d).ul_nb_rep_counter + 1
                ELSE put_radio_to_sleep(d).ul_nb_rep_counter
           c == [put_radio_to_sleep(d) EXCEPT !.ul_nb_rep_counter = n]
           x == start(c, "rx1")
           y == start(x, "rx2")
           z == start(y, "ack")
           e == on_radio_tx_done(d)
<1>1. c = [rest_radio(d) EXCEPT !.ul_nb_rep_counter =
             IF d.req_type = "UNCONFIRMED" /\ d.nb_trans > 1 THEN @ + 1 ELSE @]
  BY DEF rest_radio, Orderly
<1> HIDE DEF n
<1>2. Alters(d, c, {"radio", "ul_nb_rep_counter"}) /\ c.radio = "sleep"
  BY DEF Alters, Fields, Orderly, put_radio_to_sleep
<1>3. e = IF d.is_node_ack_requested THEN start(start_closure(y), "ack") ELSE start_closure(y)
  BY <1>1 DEF on_radio_tx_done
<1> HIDE DEF c
<1>4. Ready(c) /\ c.armed = {} /\ c.due = <<>> /\ c.orphans = {} /\ Len(c.due) = 0
  <2>1. c.armed = {} /\ c.due = <<>> /\ c.orphans = {} /\ DOMAIN c = Fields
    BY <1>2 DEF Alters, Fields, Orderly
  <2> QED
    BY <2>1, EmptyQuiet DEF Ready
<1>5. Alters(c, x, {"armed"}) /\ x.armed = {"rx1"} /\ Ready(x) /\ x.due = <<>>
  <2>1. c.armed \subseteq {"rx1", "rx2"} /\ Len(c.due) <= 3
    BY <1>4
  <2>0. Room(c)
    BY <1>4, <2>1, RoomIs DEF Ready
  <2>2. Alters(c, x, {"armed"}) /\ x.armed = c.armed \cup {"rx1"} /\ Ready(x)
    BY <1>4, <2>0, StartIs
  <2> HIDE DEF x
  <2> QED
    BY <1>4, <2>2 DEF Alters, Fields
<1> HIDE DEF x
<1>6. Alters(x, y, {"armed"}) /\ y.armed = {"rx1", "rx2"} /\ Ready(y) /\ y.due = <<>>
  <2>1. Len(x.due) <= 3
    BY <1>4, <1>5
  <2>2. Room(x)
    BY <1>5, <2>1, RoomIs DEF Ready
  <2>3. Alters(x, y, {"armed"}) /\ y.armed = x.armed \cup {"rx2"} /\ Ready(y)
    BY <1>5, <2>2, StartIs
  <2> HIDE DEF y
  <2> QED
    BY <1>5, <2>3 DEF Alters, Fields
<1> HIDE DEF y
<1>7. Alters(d, y, {"radio", "ul_nb_rep_counter", "armed"}) /\ y.radio = "sleep"
  BY <1>2, <1>5, <1>6 DEF Alters, Fields
<1>8. start_closure(y) = y
  <2>1. y.device_class = "A"
    BY <1>7 DEF Alters, Fields, Orderly
  <2> QED
    BY <2>1 DEF start_closure
<1>9. CASE d.is_node_ack_requested
  <2>1. Len(y.due) <= 3
    BY <1>4, <1>6
  <2>2. Room(y)
    BY <1>6, <2>1, RoomIs DEF Ready
  <2>3. Alters(y, z, {"armed"}) /\ z.armed = y.armed \cup {"ack"}
    BY <1>6, <2>2, StartIs
  <2> HIDE DEF z
  <2>4. Alters(d, z, {"radio", "ul_nb_rep_counter", "armed"}) /\ z.radio = "sleep"
    BY <1>7, <2>3 DEF Alters, Fields
  <2>5. e = z
    BY <1>3, <1>8, <1>9 DEF z
  <2> QED
    BY <1>6, <1>9, <2>3, <2>4, <2>5 DEF AckTimer
<1>10. CASE ~d.is_node_ack_requested
  <2>1. e = y
    BY <1>3, <1>8, <1>10
  <2> QED
    BY <1>6, <1>7, <1>10, <2>1 DEF AckTimer
<1> QED
  BY <1>9, <1>10

\* The end of the transmission: the windows are awaited.
LEMMA ProcessTransmissionIs ==
    ASSUME QueueCap >= 6, NEW d, InPhase(d), d.due # <<>>, Head(d.due).fn = "process_transmission"
    PROVE  LET e == process_transmission(Popping(d))
           IN  InPhase(e) /\ Balances(Popping(d), e)
<1> DEFINE p == Popping(d)
           q == CASE p.state = "JOINING" -> [p EXCEPT !.state = "AWAITING_JOIN_ACCEPT"]
                  [] p.state = "SENDING" /\ p.req_type = "CONFIRMED" ->
                       [p EXCEPT !.state = "AWAITING_ACK"]
                  [] OTHER -> p
           e == on_radio_tx_done(q)
<1> SUFFICES InPhase(process_transmission(p)) /\ Balances(p, process_transmission(p))
  OBVIOUS
<1>1. Transmitted(d) /\ Tail(d.due) = <<>> /\ Orderly(d)
  <2>1. Head(d.due).fn \notin Light
    BY DEF Light
  <2>2. Dispatched(d)
    BY <2>1, PhaseHead
  <2> QED
    BY <2>2, CallsDiffer DEF Dispatched, InPhase
<1>2. Alters(d, p, {"due"}) /\ p.due = <<>> /\ Orderly(p)
  BY <1>1, PoppedEmpty
<1> HIDE DEF p
<1>4. process_transmission(p) = e
  BY DEF process_transmission, set_state
<1>5. /\ Exchange(d, "JOINING") => Exchange(p, "JOINING")
      /\ p.armed = {} /\ p.is_srv_ack_requested = d.is_srv_ack_requested
  BY <1>1, <1>2 DEF Alters, Fields, Exchange, Transmits, Joins, Transmitted
<1>6. \/ Transmits(p) /\ p.state \in {"SENDING", "AWAITING_ACK"}
      \/ Joins(p, "JOINING") /\ p.state = "JOINING"
  BY <1>1, <1>5 DEF Transmitted, Exchange, Transmits, Joins
<1>7. /\ Alters(p, q, {"state"})
      /\ p.state \in {"SENDING", "AWAITING_ACK"} => q.state \in {"SENDING", "AWAITING_ACK"}
      /\ p.state = "JOINING" => q.state = "AWAITING_JOIN_ACCEPT"
  <2>1. CASE p.state = "JOINING"
    BY <1>2, <2>1 DEF Alters, Fields
  <2>2. CASE p.state = "SENDING" /\ p.req_type = "CONFIRMED"
    BY <1>2, <2>2 DEF Alters, Fields
  <2>3. CASE p.state # "JOINING" /\ ~(p.state = "SENDING" /\ p.req_type = "CONFIRMED")
    <3>1. q = p
      BY <2>3
    <3> QED
      BY <1>2, <2>3, <3>1 DEF Alters
  <2> QED
    BY <2>1, <2>2, <2>3
<1> HIDE DEF q
<1>8. /\ Transmits(q) \/ Joins(q, "AWAITING_JOIN_ACCEPT")
      /\ Orderly(q) /\ q.due = <<>> /\ q.armed = {}
      /\ q.is_srv_ack_requested = d.is_srv_ack_requested
  <2>1. /\ q.tx_ongoing = p.tx_ongoing /\ q.nwk_joined = p.nwk_joined /\ q.flags = p.flags
        /\ q.req_type = p.req_type /\ q.tx_type = p.tx_type
        /\ q.is_node_ack_requested = p.is_node_ack_requested
        /\ q.due = p.due /\ q.armed = p.armed /\ q.device_class = p.device_class
        /\ q.orphans = p.orphans /\ q.is_srv_ack_requested = p.is_srv_ack_requested
        /\ q.ul_frame_counter = p.ul_frame_counter /\ DOMAIN q = Fields
    BY <1>7 DEF Alters, Fields
  <2>2. Orderly(q) /\ q.due = <<>> /\ q.armed = {}
        /\ q.is_srv_ack_requested = d.is_srv_ack_requested
    BY <1>2, <1>5, <2>1 DEF Orderly
  <2>3. CASE Transmits(p) /\ p.state \in {"SENDING", "AWAITING_ACK"}
    BY <1>7, <2>1, <2>2, <2>3 DEF Transmits
  <2>4. CASE Joins(p, "JOINING") /\ p.state = "JOINING"
    BY <1>7, <2>1, <2>2, <2>4 DEF Joins
  <2> QED
    BY <1>6, <2>3, <2>4
<1>9. /\ Alters(q, e, {"radio", "ul_nb_rep_counter", "armed"})
      /\ e.radio = "sleep" /\ e.armed = {"rx1", "rx2"} \cup AckTimer(q)
  BY <1>8, WindowsTimed
<1> HIDE DEF e
<1>10. /\ Exchange(e, "AWAITING_JOIN_ACCEPT") /\ AckTimer(e) = AckTimer(q)
       /\ Orderly(e) /\ e.due = <<>> /\ e.is_srv_ack_requested = d.is_srv_ack_requested
  <2>1. /\ e.tx_ongoing = q.tx_ongoing /\ e.nwk_joined = q.nwk_joined /\ e.flags = q.flags
        /\ e.req_type = q.req_type /\ e.tx_type = q.tx_type /\ e.state = q.state
        /\ e.is_node_ack_requested = q.is_node_ack_requested
        /\ e.due = q.due /\ e.device_class = q.device_class
        /\ e.orphans = q.orphans /\ e.is_srv_ack_requested = q.is_srv_ack_requested
        /\ e.ul_frame_counter = q.ul_frame_counter /\ DOMAIN e = Fields
    BY <1>9 DEF Alters, Fields
  <2>2. Orderly(e) /\ e.due = <<>> /\ e.is_srv_ack_requested = d.is_srv_ack_requested
        /\ AckTimer(e) = AckTimer(q)
    BY <1>8, <2>1 DEF Orderly, AckTimer
  <2>3. CASE Transmits(q)
    BY <2>1, <2>2, <2>3 DEF Transmits, Exchange
  <2>4. CASE Joins(q, "AWAITING_JOIN_ACCEPT")
    BY <2>1, <2>2, <2>4 DEF Joins, Exchange
  <2> QED
    BY <1>8, <2>3, <2>4
<1>11. e.armed = Left(e, "RX1") \cup {"rx1"} /\ Quiet(e.due)
  BY <1>9, <1>10, EmptyQuiet DEF Left
<1>12. Awaits(e, "RX1")
  BY <1>1, <1>9, <1>10, <1>11 DEF Awaits, Pends, Transmitted
<1>13. Balances(p, q) /\ Balances(q, e)
  BY <1>7, <1>9, AltersBalances
<1> QED
  BY <1>4, <1>10, <1>12, <1>13, BalancesTransitive DEF InPhase, Phase, Slots

\* After the wait the frame is sent, or waits again.
LEMMA BackoffIs ==
    ASSUME QueueCap >= 6, NEW d, InPhase(d), d.due # <<>>, Head(d.due).fn = "timer",
           Head(d.due).timer = "backoff", NEW ch \in Clear
    PROVE  LET e == retry_or_fail(on_backoff_timer_expiry(Popping(d), ch))
           IN  InPhase(e) /\ AckKept(d, e) /\ Balances(Popping(d), e)
<1> DEFINE p == Popping(d)
           s == stop(p, "backoff")
           r == schedule_tx(s, ch)
           o == on_backoff_timer_expiry(p, ch)
<1>1. Delayed(d) /\ Tail(d.due) = <<>> /\ d.armed = {} /\ Orderly(d)
  BY TimerPhase DEF InPhase
<1>2. Alters(d, p, {"due"}) /\ Ready(p) /\ Orderly(p)
  BY <1>1, PoppedEmpty
<1> HIDE DEF p
<1>3. p.armed = {}
  BY <1>1, <1>2 DEF Alters, Fields
<1>4. Alters(p, s, {"armed"}) /\ s.armed = {} /\ Ready(s)
  BY <1>2, <1>3, StopIs
<1>5. o = [dev |-> r.dev, failed |-> (r.status # "OK" /\ p.nwk_joined)]
  BY DEF on_backoff_timer_expiry
<1> HIDE DEF s
<1>6. Alters(d, s, {"due", "armed"}) /\ Balances(p, s)
  BY <1>2, <1>4, AltersBalances DEF Alters
<1>7. /\ s.radio = d.radio /\ s.device_class = d.device_class /\ s.nwk_joined = d.nwk_joined
      /\ s.nwk_joined = p.nwk_joined /\ s.due = p.due
      /\ s.is_srv_ack_requested = d.is_srv_ack_requested
      /\ Exchange(d, "JOINING") => Exchange(s, "JOINING")
      /\ Conveys(d) => Conveys(s)
  BY <1>4, <1>6 DEF Alters, Fields, Exchange, Transmits, Joins, Conveys
<1>8. Alone(s) /\ Exchange(s, "JOINING") /\ Conveys(s)
  BY <1>1, <1>2, <1>4, <1>7 DEF Alone, Orderly, Ready, Delayed
<1>9. r.status = "OK" /\ Orderly(r.dev) /\ Begun(r.dev) /\ AckKept(s, r.dev) /\ Balances(s, r.dev)
  BY <1>8, FrameBegins
<1> HIDE DEF r
<1>10. o.dev = r.dev /\ ~o.failed
  <2>1. (r.status # "OK" /\ p.nwk_joined) = FALSE
    BY <1>9
  <2> HIDE DEF r
  <2>2. o = [dev |-> r.dev, failed |-> FALSE]
    BY <1>5, <2>1, Zenon
  <2> QED
    BY <2>2
<1> HIDE DEF o
<1>11. retry_or_fail(o) = r.dev
  BY <1>10 DEF retry_or_fail
<1>12. AckKept(d, r.dev) /\ Balances(p, r.dev)
  BY <1>6, <1>7, <1>9, BalancesTransitive DEF AckKept
<1> QED
  BY <1>9, <1>11, <1>12 DEF InPhase, Phase, o, p

\* Without an acknowledgement the frame is sent again, or waits.
LEMMA AckTimeoutIs ==
    ASSUME QueueCap >= 6, NEW d, InPhase(d), d.due # <<>>, Head(d.due).fn = "timer",
           Head(d.due).timer = "ack", NEW ch, ch[1] \in Clear
    PROVE  LET e == retry_or_fail(on_ack_timeout_timer_event(Popping(d), ch))
           IN  InPhase(e) /\ Balances(Popping(d), e)
<1> DEFINE p == Popping(d)
           s == stop(p, "ack")
           r == schedule_tx(s, ch[1])
           e == [r.dev EXCEPT !.ack_timeout_retry_counter = r.dev.ack_timeout_retry_counter + 1]
           o == on_ack_timeout_timer_event(p, ch)
<1>1. AckAwaited(d) /\ Tail(d.due) = <<>> /\ d.armed = {} /\ Orderly(d)
  BY TimerPhase DEF InPhase
<1>2. Alters(d, p, {"due"}) /\ Ready(p) /\ Orderly(p)
  BY <1>1, PoppedEmpty
<1> HIDE DEF p
<1>3. /\ p.armed = {} /\ p.nwk_joined /\ p.ack_timeout_retry_counter = d.ack_timeout_retry_counter
      /\ p.max_ack_timeout_retries = d.max_ack_timeout_retries
  BY <1>1, <1>2 DEF Alters, Fields, AckAwaited, Transmits
<1>4. Alters(p, s, {"armed"}) /\ s.armed = {} /\ Ready(s)
  BY <1>2, <1>3, StopIs
<1>5. /\ Alters(d, s, {"due", "armed"})
      /\ s.nwk_joined = p.nwk_joined /\ s.due = p.due
  BY <1>2, <1>4 DEF Alters, Fields
<1>15. Balances(p, s)
  BY <1>4, AltersBalances
<1> HIDE DEF s
<1>6. /\ s.radio = d.radio /\ s.device_class = d.device_class
      /\ s.is_srv_ack_requested = d.is_srv_ack_requested
      /\ Transmits(d) => Transmits(s)
  BY <1>5 DEF Alters, Fields, Transmits
<1>7. Alone(s) /\ Exchange(s, "JOINING") /\ Conveys(s)
  BY <1>1, <1>2, <1>3, <1>4, <1>5, <1>6 DEF Alone, Orderly, Ready, AckAwaited, Exchange, Conveys
<1>8. r.status = "OK" /\ Orderly(r.dev) /\ Begun(r.dev) /\ Balances(s, r.dev)
  BY <1>7, FrameBegins
<1>9. o.dev = e /\ ~o.failed
  <2>1. ~(p.ack_timeout_retry_counter > p.max_ack_timeout_retries)
    BY <1>1, <1>3 DEF AckAwaited
  <2>2. handle_retransmission(s, ch[1]) = r
    BY <1>3, <1>5 DEF handle_retransmission
  <2> HIDE DEF r
  <2>3. o = [dev |-> e, failed |-> FALSE]
    BY <1>8, <2>1, <2>2 DEF on_ack_timeout_timer_event, s
  <2> QED
    BY <2>3
<1> HIDE DEF o
<1>10. retry_or_fail(o) = e
  BY <1>9 DEF retry_or_fail
<1> HIDE DEF r
<1>11. Alters(r.dev, e, {"ack_timeout_retry_counter"})
  BY <1>8 DEF Alters, Fields, Orderly
<1>16. Balances(p, e)
  BY <1>8, <1>11, <1>15, AltersBalances, BalancesTransitive
<1> DEFINE g == r.dev
<1> HIDE DEF e, g
<1>12. /\ e.radio = g.radio /\ e.device_class = g.device_class /\ e.due = g.due
       /\ e.armed = g.armed /\ e.orphans = g.orphans /\ DOMAIN e = Fields
       /\ e.is_srv_ack_requested = g.is_srv_ack_requested /\ e.nwk_joined = g.nwk_joined
       /\ Exchange(g, "JOINING") => Exchange(e, "JOINING")
       /\ Conveys(g) => Conveys(e)
  BY <1>11 DEF Alters, Fields, Exchange, Transmits, Joins, Conveys, g
<1>13. Orderly(e)
  BY <1>8, <1>12 DEF Orderly, g
<1>14. Begun(e)
  BY <1>8, <1>12 DEF Begun, Sending, Delayed, Pends, g
<1> QED
  BY <1>10, <1>13, <1>14, <1>16 DEF InPhase, Phase, o, p

-----------------------------------------------------------------------------
(* The end of a message *)

\* A device with a message to end: nothing is left of its exchange.
Ending(d) ==
    /\ Orderly(d) /\ d.due = <<>> /\ d.armed = {} /\ d.radio = "sleep"
    /\ d.nwk_joined /\ "CONN_IN_PROGRESS" \notin d.flags /\ d.tx_ongoing

\* The result of the message is told, and the device rests.
LEMMA MessageEnds ==
    ASSUME QueueCap >= 6, NEW d, Ending(d), d.conf_status \in ConfirmStatuses,
           NEW off \in SUBSET {"TX_DONE", "RETRY_EXHAUSTED"}
    PROVE  LET e == mcps_confirm_handler(end_tx(clear_flags(d, off)))
           IN  /\ Orderly(e) /\ Resting(e) /\ Reported(d, e) /\ Len(e.due) = 1
               /\ Alters(d, e, {"flags", "can_cancel_tx", "tx_ongoing", "due"})
               /\ e.flags = d.flags \ off
<1> DEFINE f == d.flags \ off
           x == [d EXCEPT !.flags = f]
           y == end_tx(x)
           ev == CASE d.conf_status = "OK"         -> "TX_DONE"
                   [] d.conf_status = "TX_TIMEOUT" -> "TX_TIMEOUT"
                   [] d.conf_status = "ERROR"      -> "TX_ERROR"
           e == send_event_to_application(y, ev)
           c == [fn |-> "event", event |-> ev]
<1>1. x = clear_flags(d, off)
  BY DEF clear_flags
<1>2. "CONN_IN_PROGRESS" \notin f /\ ("CONNECTED" \in f <=> "CONNECTED" \in d.flags)
  BY DEF Ending
<1>3. ev \in {"TX_DONE", "TX_TIMEOUT", "TX_ERROR"}
  BY DEF ConfirmStatuses
<1> HIDE DEF f
<1>4. /\ Alters(d, y, {"flags", "can_cancel_tx", "tx_ongoing"}) /\ ~y.tx_ongoing /\ y.flags = f
  BY DEF Alters, Fields, Ending, Orderly, end_tx, reset_ongoing_tx, set_tx_ongoing
<1> HIDE DEF x
<1>5. mcps_confirm_handler(y) = e
  <2>1. y.conf_status = d.conf_status
    BY <1>4 DEF Alters, Fields
  <2> QED
    BY <2>1 DEF mcps_confirm_handler
<1> HIDE DEF y, ev
<1>6. /\ y.due = <<>> /\ y.armed = {} /\ y.radio = "sleep" /\ Orderly(y) /\ Quiet(y.due)
      /\ Len(y.due) = 0 /\ y.nwk_joined
  <2>1. /\ y.due = d.due /\ y.armed = d.armed /\ y.radio = d.radio /\ y.orphans = d.orphans
        /\ y.device_class = d.device_class /\ y.nwk_joined = d.nwk_joined /\ DOMAIN y = Fields
    BY <1>4 DEF Alters, Fields
  <2> QED
    BY <2>1, EmptyQuiet DEF Ending, Orderly
<1>7. ev \in AppEvents /\ c \in Calls /\ IsReport(c)
  BY <1>3 DEF AppEvents, Calls, IsReport, IsEvent, Reports
<1>8. /\ Alters(y, e, {"due"}) /\ e.due = Append(y.due, c) /\ Orderly(e) /\ Quiet(e.due)
      /\ Len(e.due) = Len(y.due) + 1
  <2>1. y.armed \subseteq {"rx1", "rx2"} /\ Len(y.due) <= 2
    BY <1>6
  <2> QED
    BY <1>6, <1>7, <2>1, EventIs
<1> HIDE DEF e, c
<1>9. /\ Alters(d, e, {"flags", "can_cancel_tx", "tx_ongoing", "due"})
      /\ e.flags = f /\ ~e.tx_ongoing /\ e.radio = "sleep" /\ e.armed = {}
  BY <1>4, <1>6, <1>8 DEF Alters, Fields
<1>10. Resting(e)
  BY <1>2, <1>8, <1>9 DEF Resting
<1>11. Reported(d, e)
  <2>1. e.due = Append(d.due, c) /\ d.due \in Seq(Calls) /\ d.tx_ongoing
    BY <1>6, <1>8 DEF Ending, Orderly
  <2>2. SameLink(d, e)
    BY <1>2, <1>9 DEF SameLink, Ending
  <2> QED
    BY <1>7, <1>9, <2>1, <2>2, ReportEnds
<1>12. mcps_confirm_handler(end_tx(clear_flags(d, off))) = e
  BY <1>1, <1>5 DEF y
<1>13. e.flags = d.flags \ off /\ Len(e.due) = 1
  BY <1>6, <1>8, <1>9 DEF f
<1> QED
  BY <1>8, <1>9, <1>10, <1>11, <1>12, <1>13

\* The request is completed: with a result, and a counter for the next.
LEMMA PostProcessIs ==
    ASSUME NEW d, DOMAIN d = Fields
    PROVE  LET e == post_process_mcps_req(d)
           IN  /\ Alters(d, e, {"conf_status", "is_node_ack_requested", "ack_received",
                                "is_ack_recvd", "ul_frame_counter"})
               /\ e.conf_status \in {"OK", "ERROR"}
               /\ e.ul_frame_counter = d.ul_frame_counter + 1
<1> DEFINE acked == d.req_type = "CONFIRMED" /\ d.ack_received
           c == IF d.req_type = "CONFIRMED" /\ ~acked THEN "ERROR" ELSE "OK"
           x == d.is_node_ack_requested /\ ~acked
           y == d.ack_received /\ ~acked
           z == d.is_ack_recvd /\ ~acked
           e == [[d EXCEPT !.conf_status = c, !.is_node_ack_requested = x, !.ack_received = y,
                           !.is_ack_recvd = z]
                   EXCEPT !.ul_frame_counter = d.ul_frame_counter + 1]
<1>1. post_process_mcps_req(d) = e
  BY DEF post_process_mcps_req, count_uplink, Fields
<1>2. c \in {"OK", "ERROR"}
  OBVIOUS
<1> HIDE DEF c, x, y, z
<1>3. /\ Alters(d, e, {"conf_status", "is_node_ack_requested", "ack_received", "is_ack_recvd",
                       "ul_frame_counter"})
      /\ e.conf_status = c /\ e.ul_frame_counter = d.ul_frame_counter + 1
  BY DEF Alters, Fields
<1> HIDE DEF e
<1> QED
  BY <1>1, <1>2, <1>3

\* A message that is not answered any more ends, and the device rests.
LEMMA UnansweredEnds ==
    ASSUME QueueCap >= 6, NEW d, Ending(d), d.state \in {"SENDING", "AWAITING_ACK"}
    PROVE  LET e == state_machine_run_to_completion(STATUS_CHECK(post_process_mcps_req(d)))
           IN  Orderly(e) /\ Resting(e) /\ Balances(d, e)
<1> DEFINE p == post_process_mcps_req(d)
           q == mcps_confirm_handler(end_tx(clear_flags(p, {"TX_DONE"})))
           e == [q EXCEPT !.state = "IDLE"]
<1>1. /\ Alters(d, p, {"conf_status", "is_node_ack_requested", "ack_received",
                       "is_ack_recvd", "ul_frame_counter"})
      /\ p.conf_status \in {"OK", "ERROR"} /\ p.ul_frame_counter = d.ul_frame_counter + 1
  BY PostProcessIs DEF Ending, Orderly
<1> HIDE DEF p
<1>2. Ending(p) /\ p.state = d.state
  BY <1>1 DEF Alters, Fields, Ending, Orderly
<1>3. /\ Orderly(q) /\ Resting(q) /\ Reported(p, q)
      /\ Alters(p, q, {"flags", "can_cancel_tx", "tx_ongoing", "due"})
  <2>1. {"TX_DONE"} \in SUBSET {"TX_DONE", "RETRY_EXHAUSTED"}
    OBVIOUS
  <2> QED
    BY <1>1, <1>2, <2>1, MessageEnds DEF ConfirmStatuses
<1>4. STATUS_CHECK(p) = q
  BY <1>2 DEF STATUS_CHECK, process_status_check_state
<1> HIDE DEF q
<1>5. state_machine_run_to_completion(q) = e
  BY <1>3 DEF state_machine_run_to_completion, set_state, Orderly
<1>6. Alters(q, e, {"state"})
  BY <1>3 DEF Alters, Fields, Orderly
<1> HIDE DEF e
<1>7. Orderly(e) /\ Resting(e)
  BY <1>3, <1>6 DEF Alters, Fields, Orderly, Resting
<1>8. Balances(d, q) /\ Balances(q, e)
  BY <1>1, <1>3, <1>6, AltersBalances, EndedBalances DEF Ending
<1>9. Balances(d, e)
  BY <1>8, BalancesTransitive
<1> QED
  BY <1>4, <1>5, <1>7, <1>9 DEF p

\* What waits behind everything else waits among the rest.
LEMMA LastAmong ==
    ASSUME NEW q \in Seq(Calls), NEW c, Last(q, c)
    PROVE  Among(q, c)
<1>1. Len(q) \in 1 .. 4 /\ q[Len(q)] = c
  BY DEF Last
<1>a. Len(q) <= 4
  BY <1>1
<1>2. Len(q) \in 1 .. Len(q)
  BY <1>1
<1>3. ASSUME NEW j \in 1 .. Len(q), j # Len(q)
      PROVE  q[j].fn \in Light
  <2>1. j \in 1 .. Len(q) - 1
    BY <1>1, <1>3
  <2> QED
    BY <2>1 DEF Last
<1> QED
  BY <1>1, <1>a, <1>2, <1>3 DEF Among

\* A message to be repeated waits.
LEMMA RepeatIs ==
    ASSUME QueueCap >= 6, NEW d, Ending(d)
    PROVE  LET e == repeat_for_QOS(d)
           IN  /\ Orderly(e) /\ Among(e.due, Repetition) /\ Len(e.due) = 1 /\ Balances(d, e)
               /\ Alters(d, e, {"prev_qos_level", "due", "qos_cnt"})
<1> DEFINE x == remember_QOS(d)
           y == post(x, Repetition)
           e == [y EXCEPT !.qos_cnt = y.qos_cnt + 1]
<1>1. repeat_for_QOS(d) = e
  BY DEF repeat_for_QOS, Repetition
<1>2. Alters(d, x, {"prev_qos_level"})
  BY DEF remember_QOS, Alters, Fields, Ending, Orderly
<1> HIDE DEF x
<1>3. Orderly(x) /\ x.due = <<>> /\ x.armed = {} /\ Quiet(x.due) /\ Len(x.due) = 0
  <2>1. /\ x.due = d.due /\ x.armed = d.armed /\ x.orphans = d.orphans
        /\ x.device_class = d.device_class /\ x.nwk_joined = d.nwk_joined /\ DOMAIN x = Fields
    BY <1>2 DEF Alters, Fields
  <2> QED
    BY <2>1, EmptyQuiet DEF Ending, Orderly
<1>4. /\ Repetition \in Calls /\ Repetition.fn # "send_automatic_uplink_message"
      /\ ~IsReport(Repetition) /\ ~IsReply(Repetition)
  BY DEF Repetition, Calls, IsReport, IsReply, IsEvent
<1>5. Alters(x, y, {"due"}) /\ Orderly(y) /\ Last(y.due, Repetition)
      /\ y.due = Append(x.due, Repetition)
  <2>1. x.armed \subseteq {"rx1", "rx2"} /\ Len(x.due) <= 3
    BY <1>3
  <2>2. Room(x)
    BY <1>3, <2>1, RoomIs DEF Orderly
  <2>3. y.due = Append(x.due, Repetition)
    BY <1>3, <2>2, PostIs DEF Orderly
  <2> QED
    BY <1>3, <1>4, <2>1, <2>3, PostLast
<1> HIDE DEF y
<1>6. Alters(y, e, {"qos_cnt"}) /\ e.due = y.due
  BY <1>5 DEF Alters, Fields
<1> HIDE DEF e
<1>7. Orderly(e)
  BY <1>5, <1>6 DEF Alters, Fields, Orderly
<1>8. Alters(d, e, {"prev_qos_level", "due", "qos_cnt"})
  BY <1>2, <1>5, <1>6 DEF Alters
<1>9. Among(e.due, Repetition) /\ Len(e.due) = 1
  <2>1. y.due \in Seq(Calls) /\ Among(y.due, Repetition)
    BY <1>5, LastAmong DEF Orderly
  <2>2. Len(y.due) = 1
    BY <1>3, <1>5 DEF Orderly
  <2> QED
    BY <1>6, <2>1, <2>2
<1>10. Balances(d, e)
  <2>1. Balances(d, x) /\ Balances(y, e)
    BY <1>2, <1>6, AltersBalances
  <2>2. Balances(x, y)
    BY <1>3, <1>4, <1>5, PostBalances DEF Orderly
  <2> QED
    BY <2>1, <2>2, BalancesTransitive
<1> QED
  BY <1>1, <1>7, <1>8, <1>9, <1>10

\* Nothing more is received for this frame: it is sent again later, repeated, or the
\* message ends.
LEMMA NoReceptionIs ==
    ASSUME QueueCap >= 6, NEW d, Orderly(d), d.due = <<>>, d.radio = "sleep", Transmits(d),
           ~d.is_srv_ack_requested, d.armed = AckTimer(d)
    PROVE  LET e == post_process_tx_no_reception(d)
           IN  InPhase(e) /\ Balances(d, e)
<1> DEFINE left == continue_sending_process(d)
           e == post_process_tx_no_reception(d)
           late == d.ack_timeout_retry_counter > d.max_ack_timeout_retries
<1>0. Ready(d) /\ Quiet(d.due) /\ Len(d.due) = 0 /\ DOMAIN d = Fields
  BY EmptyQuiet DEF Ready, Orderly
<1>1. CASE d.req_type = "CONFIRMED" /\ ~late
  <2> DEFINE g == clear_flags(d, {"TX_DONE", "RETRY_EXHAUSTED"})
  <2>1. left = [dev |-> d, more |-> TRUE]
    BY <1>1 DEF continue_sending_process
  <2>2. e = g
    BY <1>1, <2>1 DEF post_process_tx_no_reception
  <2>3. Alters(d, g, {"flags"}) /\ g.flags \subseteq d.flags /\ SameLink(d, g)
    BY <1>0 DEF clear_flags, Alters, Fields, SameLink
  <2> HIDE DEF g
  <2>4. /\ g.device_class = d.device_class /\ g.orphans = d.orphans /\ g.due = d.due
        /\ g.nwk_joined = d.nwk_joined /\ g.tx_type = d.tx_type /\ g.armed = d.armed
        /\ g.radio = d.radio /\ g.is_srv_ack_requested = d.is_srv_ack_requested
        /\ g.ack_timeout_retry_counter = d.ack_timeout_retry_counter
        /\ g.max_ack_timeout_retries = d.max_ack_timeout_retries
        /\ g.tx_ongoing = d.tx_ongoing /\ g.req_type = d.req_type /\ g.state = d.state
        /\ g.is_node_ack_requested = d.is_node_ack_requested /\ DOMAIN g = Fields
    BY <2>3 DEF Alters, Fields
  <2>5. Transmits(g) /\ g.tx_type = "CONFIRMED" /\ Orderly(g)
    BY <1>1, <2>3, <2>4 DEF Transmits, Orderly
  <2>6. g.armed = {} \cup {"ack"} /\ Quiet(g.due)
    BY <1>0, <1>1, <2>4 DEF Transmits, AckTimer
  <2>7. AckAwaited(g)
    BY <1>1, <2>4, <2>5, <2>6 DEF AckAwaited, Pends
  <2>8. Balances(d, g)
    BY <2>3, AltersBalances
  <2> QED
    BY <2>2, <2>5, <2>7, <2>8 DEF InPhase, Phase
<1>2. CASE d.req_type = "CONFIRMED" /\ late
  <2> DEFINE s == stop(d, "ack")
             x == set_flags(clear_flags(s, {"TX_DONE"}), {"RETRY_EXHAUSTED"})
             g == state_machine_run_to_completion(STATUS_CHECK(post_process_mcps_req(x)))
  <2>1. left = [dev |-> s, more |-> FALSE]
    BY <1>2 DEF continue_sending_process
  <2>2. e = g
    BY <1>2, <2>1 DEF post_process_tx_no_reception
  <2>3. Alters(d, s, {"armed"}) /\ s.armed = {} /\ Ready(s)
    BY <1>0, StopIs DEF AckTimer
  <2> HIDE DEF s
  <2>4. Alters(s, x, {"flags"}) /\ x.flags = (s.flags \ {"TX_DONE"}) \cup {"RETRY_EXHAUSTED"}
    BY <2>3 DEF clear_flags, set_flags, Alters, Fields
  <2> HIDE DEF x
  <2>5. Alters(d, x, {"armed", "flags"}) /\ x.armed = {}
        /\ x.flags = (d.flags \ {"TX_DONE"}) \cup {"RETRY_EXHAUSTED"}
    BY <2>3, <2>4 DEF Alters, Fields
  <2>9. SameLink(d, x)
    BY <2>5 DEF SameLink
  <2>6. Ending(x) /\ x.state \in {"SENDING", "AWAITING_ACK"}
    <3>1. /\ x.device_class = d.device_class /\ x.orphans = d.orphans /\ x.due = d.due
          /\ x.nwk_joined = d.nwk_joined /\ x.radio = d.radio /\ DOMAIN x = Fields
          /\ x.tx_ongoing = d.tx_ongoing /\ x.state = d.state
      BY <2>5 DEF Alters, Fields
    <3> QED
      BY <2>5, <3>1 DEF Ending, Orderly, Transmits
  <2>7. Orderly(g) /\ Resting(g) /\ Balances(x, g)
    BY <2>6, UnansweredEnds
  <2>8. Balances(d, x)
    BY <2>5, <2>9, AltersBalances
  <2> HIDE DEF g
  <2> QED
    BY <2>2, <2>7, <2>8, BalancesTransitive DEF InPhase, Phase
<1>3. CASE d.req_type # "CONFIRMED" /\ QOS_repeats(d)
  <2> DEFINE x == set_flags(d, {"TX_DONE"})
             y == repeat_for_QOS(x)
             g == [y EXCEPT !.state = "IDLE"]
  <2>1. Alters(d, x, {"flags"}) /\ x.flags = d.flags \cup {"TX_DONE"}
    BY <1>0 DEF set_flags, Alters, Fields
  <2>2. e = state_machine_run_to_completion(y)
    BY <1>3 DEF post_process_tx_no_reception
  <2> HIDE DEF x
  <2>3. Ending(x) /\ x.tx_type = d.tx_type
    <3>1. /\ x.device_class = d.device_class /\ x.orphans = d.orphans /\ x.due = d.due
          /\ x.nwk_joined = d.nwk_joined /\ x.radio = d.radio /\ DOMAIN x = Fields
          /\ x.tx_ongoing = d.tx_ongoing /\ x.armed = d.armed /\ x.tx_type = d.tx_type
      BY <2>1 DEF Alters, Fields
    <3>2. d.armed = {}
      BY <1>3 DEF Transmits, AckTimer
    <3> QED
      BY <2>1, <3>1, <3>2 DEF Ending, Orderly, Transmits
  <2>4. /\ Orderly(y) /\ Among(y.due, Repetition) /\ Balances(x, y)
        /\ Alters(x, y, {"prev_qos_level", "due", "qos_cnt"})
    BY <2>3, RepeatIs
  <2> HIDE DEF y
  <2>5. e = g
    BY <2>2, <2>4 DEF state_machine_run_to_completion, set_state, Orderly
  <2>6. Alters(y, g, {"state"}) /\ g.state = "IDLE"
    BY <2>4 DEF Alters, Fields
  <2> HIDE DEF g
  <2>7. Repeating(g) /\ Orderly(g)
    <3>1. /\ g.device_class = y.device_class /\ g.orphans = y.orphans /\ g.due = y.due
          /\ g.nwk_joined = x.nwk_joined /\ g.radio = x.radio /\ DOMAIN g = Fields
          /\ g.tx_ongoing = x.tx_ongoing /\ g.armed = x.armed /\ g.tx_type = x.tx_type
          /\ g.flags = x.flags /\ g.nwk_joined = y.nwk_joined
      BY <2>4, <2>6 DEF Alters, Fields
    <3> QED
      BY <1>3, <2>3, <2>4, <2>6, <3>1 DEF Ending, Orderly, Repeating, Transmits
  <2>10. SameLink(d, x)
    BY <2>1 DEF SameLink
  <2>8. Balances(d, x) /\ Balances(y, g)
    BY <2>1, <2>6, <2>10, AltersBalances
  <2>9. Balances(d, g)
    BY <2>4, <2>8, BalancesTransitive
  <2> QED
    BY <2>5, <2>7, <2>9 DEF InPhase, Phase
<1>4. CASE d.req_type # "CONFIRMED" /\ ~QOS_repeats(d)
  <2> DEFINE y == remember_QOS(d)
             x == set_flags(y, {"TX_DONE"})
             g == state_machine_run_to_completion(STATUS_CHECK(post_process_mcps_req(x)))
  <2>1. Alters(d, y, {"prev_qos_level"})
    BY <1>0 DEF remember_QOS, Alters, Fields
  <2>2. e = g
    BY <1>4 DEF post_process_tx_no_reception
  <2> HIDE DEF y
  <2>3. Alters(y, x, {"flags"}) /\ x.flags = y.flags \cup {"TX_DONE"}
    BY <2>1 DEF set_flags, Alters, Fields
  <2> HIDE DEF x
  <2>4. Alters(d, x, {"flags", "prev_qos_level"}) /\ x.flags = d.flags \cup {"TX_DONE"}
    BY <2>1, <2>3 DEF Alters, Fields
  <2>5. Ending(x) /\ x.state \in {"SENDING", "AWAITING_ACK"}
    <3>1. /\ x.device_class = d.device_class /\ x.orphans = d.orphans /\ x.due = d.due
          /\ x.nwk_joined = d.nwk_joined /\ x.radio = d.radio /\ DOMAIN x = Fields
          /\ x.tx_ongoing = d.tx_ongoing /\ x.state = d.state /\ x.armed = d.armed
      BY <2>4 DEF Alters, Fields
    <3>2. d.armed = {}
      BY <1>4 DEF Transmits, AckTimer
    <3> QED
      BY <2>4, <3>1, <3>2 DEF Ending, Orderly, Transmits
  <2>6. Orderly(g) /\ Resting(g) /\ Balances(x, g)
    BY <2>5, UnansweredEnds
  <2>8. SameLink(d, x)
    BY <2>4 DEF SameLink
  <2>7. Balances(d, x)
    BY <2>4, <2>8, AltersBalances
  <2> HIDE DEF g
  <2> QED
    BY <2>2, <2>6, <2>7, BalancesTransitive DEF InPhase, Phase
<1> QED
  BY <1>1, <1>2, <1>3, <1>4

\* No Join Accept came: the request is sent again, or joining fails.
LEMMA JoinRetryIs ==
    ASSUME QueueCap >= 6, NEW d, Alone(d), d.due = <<>>, Joins(d, "AWAITING_JOIN_ACCEPT"),
           d.rx_slot # "RX1", NEW ch \in Clear
    PROVE  LET e == process_joining_state(d, ch)
           IN  InPhase(e) /\ Balances(d, e)
<1> DEFINE j == set_state(d, "JOINING")
           c == continue_joining_process(j, ch)
           r == send_join_request(j, ch)
           g == r.dev
           f == join_failed(j)
           e == process_joining_state(d, ch)
<1>1. Alters(d, j, {"state"}) /\ j.state = "JOINING"
  BY DEF set_state, Alters, Fields, Alone, Orderly
<1>2. e = IF c.more THEN c.dev ELSE join_failed(c.dev)
  BY DEF process_joining_state, Joins
<1> HIDE DEF j
<1>3. /\ Alone(j) /\ j.due = d.due /\ Len(j.due) = 0 /\ ~j.tx_ongoing /\ ~j.nwk_joined
      /\ {"CONN_IN_PROGRESS", "USING_OTAA"} \subseteq j.flags /\ j.ul_frame_counter = 0
  <2>1. /\ j.device_class = d.device_class /\ j.orphans = d.orphans /\ j.due = d.due
        /\ j.nwk_joined = d.nwk_joined /\ j.radio = d.radio /\ DOMAIN j = Fields
        /\ j.tx_ongoing = d.tx_ongoing /\ j.armed = d.armed /\ j.flags = d.flags
        /\ j.ul_frame_counter = d.ul_frame_counter
    BY <1>1 DEF Alters, Fields
  <2> QED
    BY <2>1, EmptyQuiet DEF Alone, Orderly, Joins
<1>4. Balances(d, j)
  BY <1>1, AltersBalances
<1>5. CASE j.join_request_trial_counter >= MaxJoinTrials
  <2>1. c = [dev |-> j, more |-> FALSE]
    BY <1>5 DEF continue_joining_process
  <2>2. e = f
    BY <1>2, <2>1
  <2>3. /\ Orderly(f) /\ Resting(f)
        /\ f.due = Append(j.due, [fn |-> "event", event |-> "JOIN_FAILURE"])
        /\ Alters(j, f, {"flags", "due", "state"})
    BY <1>3, JoinFailedIs
  <2> HIDE DEF f
  <2>4. Balances(j, f)
    <3>1. /\ "CONN_IN_PROGRESS" \in j.flags /\ "CONN_IN_PROGRESS" \notin f.flags
          /\ "JOIN_FAILURE" \in Replies
      BY <1>3, <2>3 DEF Resting, Replies
    <3> QED
      BY <1>3, <2>3, <3>1, ReplyBalances DEF Alone, Orderly
  <2> QED
    BY <1>4, <2>2, <2>3, <2>4, BalancesTransitive DEF InPhase, Phase
<1>6. CASE ~(j.join_request_trial_counter >= MaxJoinTrials)
  <2>1. /\ r.status = "CONNECT_IN_PROGRESS" /\ Orderly(g) /\ Begun(g)
        /\ Alters(j, g, SchedFields \cup FrameFields)
    BY <1>1, <1>3, JoinBegins
  <2>2. handle_retransmission(j, ch) = r
    BY <1>3 DEF handle_retransmission
  <2> HIDE DEF r
  <2>3. c = [dev |-> g, more |-> TRUE]
    BY <1>6, <2>1, <2>2 DEF continue_joining_process
  <2> HIDE DEF g
  <2>4. e = g
    BY <1>2, <2>3
  <2>5. Balances(j, g)
    BY <2>1, AltersBalances DEF SchedFields, FrameFields
  <2> QED
    BY <1>4, <2>1, <2>4, <2>5, BalancesTransitive DEF InPhase, Phase
<1> QED
  BY <1>5, <1>6

\* A window that ends without a frame in a class A device: the radio sleeps.
LEMMA RxTimeoutIs ==
    ASSUME NEW d, Orderly(d), d.due = <<>>
    PROVE  LET e == on_radio_rx_timeout(d)
           IN  /\ Alters(d, e, {"demod_ongoing", "radio", "conf_status"})
               /\ ~e.demod_ongoing /\ e.radio = "sleep"
<1> DEFINE c == IF d.is_node_ack_requested THEN "ERROR" ELSE d.conf_status
           q == [d EXCEPT !.demod_ongoing = FALSE, !.radio = "sleep", !.conf_status = c]
<1>1. ~InDue(d, LiveCall("rx2"))
  BY DEF InDue
<1>2. q = [d EXCEPT !.demod_ongoing = FALSE,
                    !.radio = IF d.device_class = "A" THEN "sleep" ELSE @,
                    !.conf_status = IF d.is_node_ack_requested THEN "ERROR" ELSE @]
  BY DEF Orderly, Fields
<1>3. on_radio_rx_timeout(d) = q
  BY <1>1, <1>2 DEF on_radio_rx_timeout
<1> HIDE DEF c
<1>4. Alters(d, q, {"demod_ongoing", "radio", "conf_status"}) /\ ~q.demod_ongoing
      /\ q.radio = "sleep"
  BY DEF Alters, Fields, Orderly
<1> HIDE DEF q
<1> QED
  BY <1>3, <1>4

\* The end of a window without a frame.
LEMMA ReceptionTimeoutIs ==
    ASSUME QueueCap >= 6, NEW d, InPhase(d), d.due # <<>>,
           Head(d.due).fn = "process_reception_timeout", NEW ch \in Clear
    PROVE  LET e == process_reception_timeout(Popping(d), ch)
           IN  InPhase(e) /\ Balances(Popping(d), e)
<1> DEFINE p == Popping(d)
           q == on_radio_rx_timeout(p)
           e == process_reception_timeout(p, ch)
<1>1. Tail(d.due) = <<>> /\ Orderly(d) /\ \E slot \in Slots : Closes(d, slot)
  <2>1. Head(d.due).fn \notin Light
    BY DEF Light
  <2>2. Dispatched(d)
    BY <2>1, PhaseHead
  <2> QED
    BY <2>2, CallsDiffer DEF Dispatched, InPhase
<1>2. PICK slot \in Slots : Closes(d, slot)
  BY <1>1
<1>3. Alters(d, p, {"due"}) /\ p.due = <<>> /\ Orderly(p)
  BY <1>1, PoppedEmpty
<1> SUFFICES InPhase(e) /\ Balances(p, e)
  OBVIOUS
<1> HIDE DEF p
<1>4. Alters(p, q, {"demod_ongoing", "radio", "conf_status"}) /\ ~q.demod_ongoing
      /\ q.radio = "sleep"
  BY <1>3, RxTimeoutIs
<1>5. e = CASE p.rx_slot # "RX2"                  -> q
            [] p.rx_slot = "RX2" /\ ~p.nwk_joined -> process_joining_state(q, ch)
            [] p.rx_slot = "RX2" /\ p.nwk_joined  -> post_process_tx_no_reception(q)
  BY DEF process_reception_timeout
<1> HIDE DEF e, q
<1>6. Alters(d, q, {"demod_ongoing", "radio", "conf_status", "due"}) /\ q.due = <<>>
  BY <1>3, <1>4 DEF Alters, Fields
<1>7. /\ q.rx_slot = slot /\ p.rx_slot = slot /\ q.armed = d.armed
      /\ q.is_srv_ack_requested = d.is_srv_ack_requested
      /\ \A s : Left(q, s) = Left(d, s)
      /\ Transmits(d) => Transmits(q)
      /\ Joins(d, "AWAITING_JOIN_ACCEPT") => Joins(q, "AWAITING_JOIN_ACCEPT")
      /\ q.orphans = p.orphans /\ q.device_class = p.device_class /\ DOMAIN q = Fields
      /\ q.nwk_joined = p.nwk_joined /\ q.due = p.due
  <2>1. /\ q.tx_ongoing = d.tx_ongoing /\ q.nwk_joined = d.nwk_joined /\ q.flags = d.flags
        /\ q.req_type = d.req_type /\ q.tx_type = d.tx_type /\ q.state = d.state
        /\ q.is_node_ack_requested = d.is_node_ack_requested /\ q.armed = d.armed
        /\ q.is_srv_ack_requested = d.is_srv_ack_requested /\ q.rx_slot = d.rx_slot
        /\ q.ul_frame_counter = d.ul_frame_counter
    BY <1>6 DEF Alters, Fields
  <2>2. /\ q.orphans = p.orphans /\ q.device_class = p.device_class /\ DOMAIN q = Fields
        /\ q.nwk_joined = p.nwk_joined /\ q.due = p.due /\ q.rx_slot = p.rx_slot
    BY <1>4 DEF Alters, Fields
  <2>3. d.rx_slot = slot
    BY <1>2 DEF Closes
  <2>4. /\ Transmits(d) => Transmits(q)
        /\ Joins(d, "AWAITING_JOIN_ACCEPT") => Joins(q, "AWAITING_JOIN_ACCEPT")
    BY <2>1 DEF Transmits, Joins
  <2>5. \A s : Left(q, s) = Left(d, s)
    BY <2>1 DEF Left, AckTimer
  <2> QED
    BY <2>1, <2>2, <2>3, <2>4, <2>5
<1>8. Orderly(q) /\ Quiet(q.due)
  BY <1>3, <1>7, EmptyQuiet DEF Orderly
<1>9. Transmits(q) \/ Joins(q, "AWAITING_JOIN_ACCEPT")
  BY <1>2, <1>7 DEF Closes, Exchange
<1>10. Balances(p, q)
  BY <1>4, AltersBalances
<1>11. CASE slot = "RX1"
  <2>1. q.armed = Left(q, "RX2") \cup {"rx2"}
    BY <1>2, <1>7, <1>11 DEF Closes, Left, AckTimer
  <2>2. Awaits(q, "RX2")
    BY <1>2, <1>4, <1>7, <1>8, <1>9, <2>1 DEF Awaits, Closes, Pends, Exchange
  <2>3. e = q
    BY <1>5, <1>7, <1>11
  <2> QED
    BY <1>8, <1>10, <2>2, <2>3 DEF InPhase, Phase, Slots
<1>12. CASE slot = "RX2" /\ Joins(q, "AWAITING_JOIN_ACCEPT")
  <2>1. e = process_joining_state(q, ch)
    BY <1>5, <1>7, <1>12 DEF Joins
  <2>2. q.armed = {}
    BY <1>2, <1>7, <1>12 DEF Closes, Left, AckTimer, Joins
  <2>3. InPhase(e) /\ Balances(q, e)
    BY <1>4, <1>6, <1>7, <1>8, <1>12, <2>1, <2>2, JoinRetryIs DEF Alone
  <2> QED
    BY <1>10, <2>3, BalancesTransitive
<1>13. CASE slot = "RX2" /\ Transmits(q)
  <2>1. e = post_process_tx_no_reception(q)
    BY <1>5, <1>7, <1>13 DEF Transmits
  <2>2. q.armed = AckTimer(q)
    BY <1>2, <1>7, <1>13 DEF Closes, Left
  <2>3. InPhase(e) /\ Balances(q, e)
    BY <1>2, <1>4, <1>6, <1>7, <1>8, <1>13, <2>1, <2>2, NoReceptionIs DEF Closes
  <2> QED
    BY <1>10, <2>3, BalancesTransitive
<1> QED
  BY <1>9, <1>11, <1>12, <1>13 DEF Slots

-----------------------------------------------------------------------------
(* The reception of a frame *)

\* A device that took a frame within a session: at most n calls wait, and the message
\* ended or is to be repeated.
After(d, n) ==
    /\ Orderly(d) /\ d.nwk_joined /\ Len(d.due) <= n
    /\ d.state = "RECEIVING" /\ {"TX_DONE", "RETRY_EXHAUSTED"} \cap d.flags = {}
    /\ Resting(d) \/ Repeating(d)

\* What is added to the queue leaves a call that waits among the others.
LEMMA AmongAppend ==
    ASSUME NEW q \in Seq(Calls), NEW x, Among(q, x), Len(q) <= 3, NEW c \in Calls, c.fn \in Light
    PROVE  Among(Append(q, c), x)
<1>1. /\ Len(Append(q, c)) = Len(q) + 1 /\ Len(q) \in Nat
      /\ Append(q, c)[Len(q) + 1] = c
      /\ \A i \in 1 .. Len(q) : Append(q, c)[i] = q[i]
  OBVIOUS
<1> DEFINE r == Append(q, c)
<1> HIDE DEF r
<1>2. PICK i \in 1 .. Len(q) : q[i] = x /\ \A j \in 1 .. Len(q) : j # i => q[j].fn \in Light
  BY DEF Among
<1>3. i \in 1 .. Len(r) /\ r[i] = x
  BY <1>1, <1>2 DEF r
<1>4. ASSUME NEW j \in 1 .. Len(r), j # i
      PROVE  r[j].fn \in Light
  <2>1. CASE j \in 1 .. Len(q)
    BY <1>1, <1>2, <1>4, <2>1 DEF r
  <2>2. CASE j = Len(q) + 1
    BY <1>1, <2>2 DEF r
  <2> QED
    BY <1>1, <2>1, <2>2 DEF r
<1>5. Len(r) <= 4
  BY <1>1 DEF r
<1>6. Among(r, x)
  BY <1>3, <1>4, <1>5 DEF Among
<1> QED
  BY <1>6 DEF r

\* What is told, or asked for, after a reception waits with the rest.
LEMMA LightPosted ==
    ASSUME QueueCap >= 6, NEW n \in 0 .. 2, NEW d, After(d, n), NEW c \in Calls, c.fn \in Light
    PROVE  /\ After(post(d, c), n + 1) /\ Alters(d, post(d, c), {"due"})
           /\ post(d, c).due = Append(d.due, c)
<1> DEFINE e == post(d, c)
<1>1. d.armed = {} /\ d.due \in Seq(Calls) /\ Len(d.due) \in Nat /\ d.orphans = {}
  BY DEF After, Resting, Repeating, Orderly
<1>2. Len(d.due) <= 2
  BY <1>1 DEF After
<1>3. Room(d)
  <2>1. d.armed \subseteq {"rx1", "rx2"} /\ Len(d.due) <= 3
    BY <1>1, <1>2
  <2> QED
    BY <1>1, <2>1, RoomIs
<1>4. Alters(d, e, {"due"}) /\ e.due = Append(d.due, c)
  BY <1>3, PostIs DEF After, Orderly
<1> HIDE DEF e
<1>5. e.due \in Seq(Calls) /\ Len(e.due) = Len(d.due) + 1
  BY <1>1, <1>4
<1>6. /\ Quiet(d.due) => Quiet(e.due)
      /\ Among(d.due, Repetition) => Among(e.due, Repetition)
  <2>1. Len(d.due) <= 3
    BY <1>1, <1>2
  <2> QED
    BY <1>1, <1>2, <1>4, <2>1, QuietAppend, AmongAppend
<1>7. /\ e.device_class = d.device_class /\ e.orphans = d.orphans /\ e.nwk_joined = d.nwk_joined
      /\ e.state = d.state /\ e.flags = d.flags /\ e.tx_ongoing = d.tx_ongoing
      /\ e.radio = d.radio /\ e.armed = d.armed /\ e.tx_type = d.tx_type /\ DOMAIN e = Fields
  BY <1>4 DEF Alters, Fields
<1>8. Orderly(e)
  BY <1>5, <1>7 DEF After, Orderly
<1>9. Resting(e) \/ Repeating(e)
  BY <1>6, <1>7 DEF After, Resting, Repeating
<1>10. Len(e.due) <= n + 1
  BY <1>1, <1>5 DEF After
<1> QED
  BY <1>4, <1>7, <1>8, <1>9, <1>10 DEF After, e

\* A message answered while its device receives ends; the report of an automatic uplink
\* is dropped.
LEMMA AnsweredEnds ==
    ASSUME QueueCap >= 6, NEW d, Ending(d), d.conf_status \in ConfirmStatuses,
           d.state = "RECEIVING", "MSG_RECVD" \notin d.flags, "TX_DONE" \in d.flags
    PROVE  After(STATUS_CHECK(d), 1) /\ Reported(d, STATUS_CHECK(d))
<1> DEFINE off == {"TX_DONE", "RETRY_EXHAUSTED"}
           y == end_tx(clear_flags(d, off))
           g == mcps_confirm_handler(y)
           e == STATUS_CHECK(d)
<1> SUFFICES After(e, 1) /\ Reported(d, e)
  OBVIOUS
<1>1. e = IF y.automatic_uplink_ongoing THEN [y EXCEPT !.automatic_uplink_ongoing = FALSE] ELSE g
  BY DEF STATUS_CHECK, process_status_check_state
<1>2. /\ Orderly(g) /\ Resting(g) /\ Reported(d, g) /\ Len(g.due) = 1
      /\ Alters(d, g, {"flags", "can_cancel_tx", "tx_ongoing", "due"})
      /\ g.flags = d.flags \ off
  BY MessageEnds
<1>3. /\ Alters(d, y, {"flags", "can_cancel_tx", "tx_ongoing"}) /\ ~y.tx_ongoing
      /\ y.flags = d.flags \ off
  BY DEF Alters, Fields, Ending, Orderly, end_tx, reset_ongoing_tx, set_tx_ongoing, clear_flags
<1>a. /\ {"TX_DONE", "RETRY_EXHAUSTED"} \cap (d.flags \ off) = {} /\ d.nwk_joined
      /\ "CONN_IN_PROGRESS" \in d.flags \ off <=> "CONN_IN_PROGRESS" \in d.flags
      /\ "CONNECTED" \in d.flags \ off <=> "CONNECTED" \in d.flags
  BY DEF Ending
<1> HIDE DEF g, y, e, off
<1>4. CASE ~y.automatic_uplink_ongoing
  <2>1. e = g /\ g.state = d.state /\ g.nwk_joined = d.nwk_joined
    BY <1>1, <1>2, <1>4 DEF Alters, Fields
  <2>c. Len(e.due) = 1
    BY <1>2, <2>1, Zenon
  <2>a. Len(e.due) <= 1
    BY <2>c
  <2>b. e.state = "RECEIVING" /\ e.nwk_joined
    BY <1>a, <2>1
  <2>2. Len(e.due) <= 1 /\ e.state = "RECEIVING" /\ e.nwk_joined /\ e.flags = d.flags \ off
    BY <1>2, <2>1, <2>a, <2>b
  <2>3. Orderly(e) /\ Resting(e) /\ Reported(d, e)
    BY <1>2, <2>1
  <2> QED
    BY <1>a, <2>2, <2>3 DEF After
<1>5. CASE y.automatic_uplink_ongoing
  <2>1. /\ Alters(d, e, {"flags", "can_cancel_tx", "tx_ongoing", "automatic_uplink_ongoing"})
        /\ ~e.tx_ongoing /\ e.flags = d.flags \ off /\ d.automatic_uplink_ongoing
    BY <1>1, <1>3, <1>5 DEF Alters, Fields
  <2>2. /\ e.due = d.due /\ e.armed = d.armed /\ e.radio = d.radio /\ e.orphans = d.orphans
        /\ e.device_class = d.device_class /\ e.nwk_joined = d.nwk_joined /\ DOMAIN e = Fields
        /\ e.state = d.state /\ e.ul_frame_counter = d.ul_frame_counter
    BY <2>1 DEF Alters, Fields
  <2>3. Orderly(e) /\ Resting(e) /\ Len(e.due) <= 1
    BY <2>1, <2>2, EmptyQuiet DEF Ending, Orderly, Resting
  <2>4. Reported(d, e)
    <3>1. Pays(d, e)
      BY <2>1 DEF Pays, Manual
    <3> QED
      BY <1>a, <2>1, <2>2, <3>1 DEF Reported, SameLink
  <2> QED
    BY <1>a, <2>1, <2>2, <2>3, <2>4 DEF After
<1> QED
  BY <1>4, <1>5

\* With a frame received the radio sleeps, and the first window is over.
LEMMA FrameIs ==
    ASSUME NEW d, Orderly(d), d.due = <<>>, NEW f
    PROVE  \E r : /\ Alters(d, r, {"demod_ongoing", "armed", "radio"})
                  /\ ~r.demod_ongoing /\ r.radio = "sleep" /\ r.armed = d.armed \ {"rx1"}
                  /\ on_radio_rx_done(d, f) =
                       CASE JoinFrame(f) /\ d.nwk_joined  -> [dev |-> r, pending |-> FALSE]
                         [] JoinFrame(f) /\ ~d.nwk_joined ->
                              [dev |-> handle_join_accept_frame(r, f), pending |-> FALSE]
                         [] OTHER -> handle_data_frame(r, f)
<1> DEFINE h == [d EXCEPT !.demod_ongoing = FALSE]
           s == stop(h, "rx1")
           r == put_radio_to_sleep(s)
<1>1. Alters(d, h, {"demod_ongoing"}) /\ ~h.demod_ongoing
  BY DEF Alters, Fields, Orderly
<1>2. on_radio_rx_done(d, f) =
        CASE JoinFrame(f) /\ d.nwk_joined  -> [dev |-> r, pending |-> FALSE]
          [] JoinFrame(f) /\ ~d.nwk_joined ->
               [dev |-> handle_join_accept_frame(r, f), pending |-> FALSE]
          [] OTHER -> handle_data_frame(r, f)
  BY DEF on_radio_rx_done, Orderly
<1> HIDE DEF h
<1>3. Ready(h)
  BY <1>1, EmptyQuiet DEF Alters, Fields, Orderly, Ready
<1>4. Alters(h, s, {"armed"}) /\ s.armed = h.armed \ {"rx1"}
  BY <1>3, StopIs
<1> HIDE DEF s
<1>5. Alters(s, r, {"radio"}) /\ r.radio = "sleep"
  BY <1>4 DEF put_radio_to_sleep, Alters, Fields
<1> HIDE DEF r
<1>6. /\ Alters(d, r, {"demod_ongoing", "armed", "radio"}) /\ ~r.demod_ongoing
      /\ r.armed = d.armed \ {"rx1"}
  BY <1>1, <1>4, <1>5 DEF Alters, Fields
<1> QED
  BY <1>2, <1>5, <1>6

\* The phase does not depend on the buffer of the received frame.
LEMMA PhaseKept ==
    ASSUME NEW d, InPhase(d)
    PROVE  InPhase(release_rx_payload(d)) /\ Balances(d, release_rx_payload(d))
<1> DEFINE e == release_rx_payload(d)
<1>1. Alters(d, e, {"rx_payload_in_use"})
  BY DEF release_rx_payload, Alters, Fields, InPhase, Orderly
<1> HIDE DEF e
<1>2. /\ e.tx_ongoing = d.tx_ongoing /\ e.flags = d.flags /\ e.radio = d.radio /\ e.armed = d.armed
      /\ e.is_srv_ack_requested = d.is_srv_ack_requested /\ e.demod_ongoing = d.demod_ongoing
      /\ e.rx_slot = d.rx_slot /\ e.tx_type = d.tx_type /\ e.nwk_joined = d.nwk_joined
      /\ e.state = d.state /\ e.ack_timeout_retry_counter = d.ack_timeout_retry_counter
      /\ e.max_ack_timeout_retries = d.max_ack_timeout_retries /\ e.tx_buffer = d.tx_buffer
      /\ e.due = d.due /\ e.is_node_ack_requested = d.is_node_ack_requested
      /\ e.device_class = d.device_class /\ e.orphans = d.orphans /\ DOMAIN e = Fields
      /\ e.req_type = d.req_type /\ e.ul_frame_counter = d.ul_frame_counter
  BY <1>1 DEF Alters, Fields
<1>3. /\ \A s : Exchange(d, s) => Exchange(e, s)
      /\ Transmits(d) => Transmits(e)
      /\ \A slot : Left(e, slot) = Left(d, slot)
      /\ \A f : Receivable(d, f) => Receivable(e, f)
      /\ Conveys(d) => Conveys(e)
      /\ \A t, T : Pends(d, t, T) => Pends(e, t, T)
      /\ Orderly(e)
  BY <1>2 DEF Exchange, Transmits, Joins, Left, AckTimer, Receivable, Conveys, Pends, InPhase,
              Orderly
<1>4. ASSUME Resting(d) \/ Repeating(d)
      PROVE  InPhase(e)
  BY <1>2, <1>3, <1>4 DEF InPhase, Phase, Resting, Repeating
<1>5. ASSUME Begun(d) \/ Transmitted(d)
      PROVE  InPhase(e)
  BY <1>2, <1>3, <1>5 DEF InPhase, Phase, Begun, Sending, Delayed, Transmitted
<1>6. ASSUME AckAwaited(d)
      PROVE  InPhase(e)
  BY <1>2, <1>3, <1>6 DEF InPhase, Phase, AckAwaited
<1>7. ASSUME NEW slot \in Slots, Awaits(d, slot) \/ Listens(d, slot)
      PROVE  InPhase(e)
  BY <1>2, <1>3, <1>7 DEF InPhase, Phase, Awaits, Listens
<1>8. ASSUME NEW slot \in Slots, Closes(d, slot)
      PROVE  InPhase(e)
  <2>1. Closes(e, slot)
    BY <1>2, <1>3, <1>8 DEF Closes
  <2> QED
    BY <1>3, <2>1 DEF InPhase, Phase
<1>9. Balances(d, e)
  BY <1>1, AltersBalances
<1>10. InPhase(e)
  BY <1>4, <1>5, <1>6, <1>7, <1>8 DEF InPhase, Phase
<1> QED
  BY <1>9, <1>10 DEF e

\* A Join Accept with a right MIC ends the joining, one with a wrong MIC a window.
LEMMA JoinAcceptIs ==
    ASSUME QueueCap >= 6, NEW r, Orderly(r), r.due = <<>>, Joins(r, "RECEIVING"),
           r.radio = "sleep", ~r.demod_ongoing, ~r.is_srv_ack_requested,
           r.rx_slot \in Slots, r.armed = IF r.rx_slot = "RX1" THEN {"rx2"} ELSE {},
           NEW f, NEW ch \in Clear
    PROVE  LET e == mlme_confirm_handler(handle_join_accept_frame(r, f), f.kind = "accept", ch)
           IN  InPhase(e) /\ Balances(r, e)
<1> DEFINE h == [stop(r, "rx2") EXCEPT !.nwk_joined = TRUE, !.ul_frame_counter = 0,
                                       !.ul_nb_rep_counter = 0]
           c == process_connected_state(h)
           s == set_state(r, "AWAITING_JOIN_ACCEPT")
           e == mlme_confirm_handler(handle_join_accept_frame(r, f), f.kind = "accept", ch)
<1>0. Ready(r) /\ Quiet(r.due) /\ DOMAIN r = Fields
  BY EmptyQuiet DEF Ready, Orderly
<1>1. CASE f.kind = "accept"
  <2>1. e = c
    BY <1>1 DEF mlme_confirm_handler, handle_join_accept_frame
  <2>2. Alters(r, stop(r, "rx2"), {"armed"}) /\ stop(r, "rx2").armed = r.armed \ {"rx2"}
    BY <1>0, StopIs
  <2>3. r.armed \ {"rx2"} = {}
    OBVIOUS
  <2>4. /\ Alters(r, h, {"armed", "nwk_joined", "ul_frame_counter", "ul_nb_rep_counter"})
        /\ h.armed = {} /\ h.nwk_joined /\ h.ul_frame_counter = 0
    BY <2>2, <2>3 DEF Alters, Fields
  <2> HIDE DEF h
  <2>5. Alone(h) /\ Len(h.due) = 0 /\ ~h.tx_ongoing /\ h.due = r.due
    <3>1. /\ h.due = r.due /\ h.radio = r.radio /\ h.orphans = r.orphans /\ DOMAIN h = Fields
          /\ h.device_class = r.device_class /\ h.tx_ongoing = r.tx_ongoing
      BY <2>4 DEF Alters, Fields
    <3> QED
      BY <2>4, <3>1, EmptyQuiet DEF Alone, Orderly, Joins
  <2>6. /\ Orderly(c) /\ Resting(c)
        /\ c.due = Append(h.due, [fn |-> "event", event |-> "CONNECTED"])
        /\ Alters(h, c, {"flags", "session_active", "due", "state"})
    BY <2>5, ConnectedIs
  <2> HIDE DEF c
  <2>7. /\ "CONN_IN_PROGRESS" \in h.flags /\ "CONN_IN_PROGRESS" \notin c.flags
        /\ "CONNECTED" \in Replies
    BY <2>4, <2>6 DEF Resting, Replies, Joins, Alters, Fields
  <2>8. Balances(h, c)
    BY <2>5, <2>6, <2>7, ReplyBalances DEF Alone, Orderly
  <2>9. Balances(r, h)
    <3>1. Alters(r, h, {"armed", "nwk_joined", "ul_nb_rep_counter"})
      BY <2>4 DEF Alters, Joins
    <3> QED
      BY <3>1, AltersBalances
  <2> QED
    BY <2>1, <2>6, <2>8, <2>9, BalancesTransitive DEF InPhase, Phase
<1>2. CASE f.kind # "accept"
  <2>1. e = process_joining_state(s, ch)
    BY <1>2 DEF mlme_confirm_handler, handle_join_accept_frame
  <2>2. Alters(r, s, {"state"}) /\ s.state = "AWAITING_JOIN_ACCEPT"
    BY <1>0 DEF set_state, Alters, Fields
  <2> HIDE DEF s
  <2>3. /\ s.due = r.due /\ s.radio = r.radio /\ s.orphans = r.orphans /\ DOMAIN s = Fields
        /\ s.device_class = r.device_class /\ s.tx_ongoing = r.tx_ongoing /\ s.armed = r.armed
        /\ s.nwk_joined = r.nwk_joined /\ s.flags = r.flags /\ s.rx_slot = r.rx_slot
        /\ s.is_node_ack_requested = r.is_node_ack_requested
        /\ s.is_srv_ack_requested = r.is_srv_ack_requested
        /\ s.demod_ongoing = r.demod_ongoing /\ s.ul_frame_counter = r.ul_frame_counter
    BY <2>2 DEF Alters, Fields
  <2>4. Orderly(s) /\ Joins(s, "AWAITING_JOIN_ACCEPT") /\ Quiet(s.due)
    BY <1>0, <2>2, <2>3 DEF Orderly, Joins
  <2>5. Balances(r, s)
    BY <2>2, AltersBalances
  <2>6. CASE r.rx_slot = "RX1"
    <3>1. e = s
      BY <2>1, <2>2, <2>3, <2>6 DEF process_joining_state
    <3>2. s.armed = Left(s, "RX2") \cup {"rx2"}
      BY <2>3, <2>4, <2>6 DEF Left, AckTimer, Joins
    <3>3. Awaits(s, "RX2")
      BY <2>3, <2>4, <3>2 DEF Awaits, Exchange, Pends
    <3> QED
      BY <2>4, <2>5, <3>1, <3>3 DEF InPhase, Phase, Slots
  <2>7. CASE r.rx_slot = "RX2"
    <3>1. Alone(s)
      BY <2>3, <2>4, <2>7 DEF Alone
    <3>2. InPhase(e) /\ Balances(s, e)
      BY <2>1, <2>3, <2>4, <2>7, <3>1, JoinRetryIs
    <3> QED
      BY <2>5, <3>2, BalancesTransitive
  <2> QED
    BY <2>6, <2>7 DEF Slots
<1> QED
  BY <1>1, <1>2

\* The downlink of a session stops what its uplink waits for, and acknowledges it.
LEMMA DataFrameIs ==
    ASSUME NEW r, Orderly(r), r.due = <<>>, r.radio = "sleep", r.nwk_joined, r.tx_ongoing,
           "CONN_IN_PROGRESS" \notin r.flags, r.armed \subseteq {"rx2"} \cup AckTimer(r),
           NEW f, f.kind \in {"first", "data"}, r.is_node_ack_requested => f.ack
    PROVE  \E g : /\ handle_data_frame(r, f) = [dev |-> g, pending |-> TRUE]
                  /\ Ending(g) /\ (r.is_node_ack_requested => g.is_ack_recvd)
                  /\ Alters(r, g, {"ack_received", "is_ack_recvd", "conf_status", "nb_trans",
                                   "is_srv_ack_requested", "armed", "dl_frame_counter",
                                   "mlme_ind_pending"})
                  /\ ~f.sticky => Balances(r, g)
<1> DEFINE a == [r EXCEPT !.ack_received = FALSE, !.is_ack_recvd = FALSE, !.conf_status = "OK",
                          !.is_srv_ack_requested = f.confirmed]
           acked == r.is_node_ack_requested /\ f.ack
           w == stop_rx_windows(a)
           n == IF f.nb > 0 THEN f.nb ELSE w.nb_trans
           m == w.mlme_ind_pending \/ f.sticky
           t == [w EXCEPT !.dl_frame_counter = DownlinkCounter(r, f),
                          !.ack_received = acked, !.is_ack_recvd = acked,
                          !.nb_trans = n, !.mlme_ind_pending = m]
           g == IF acked THEN stop(t, "ack") ELSE t
           h == handle_data_frame(r, f)
<1>1. h = [dev |-> g, pending |-> TRUE]
  <2>1. ~Discarded(r, f) /\ f.kind # "foreign"
    BY DEF Discarded
  <2> QED
    BY <2>1 DEF handle_data_frame
<1>2. Alters(r, a, {"ack_received", "is_ack_recvd", "conf_status", "is_srv_ack_requested"})
  BY DEF Alters, Fields, Orderly
<1> HIDE DEF a
<1>3. Ready(a) /\ a.armed = r.armed /\ a.device_class = "A"
  <2>1. /\ a.armed = r.armed /\ a.device_class = r.device_class /\ a.due = r.due
        /\ a.orphans = r.orphans /\ DOMAIN a = Fields
    BY <1>2 DEF Alters, Fields
  <2> QED
    BY <2>1, EmptyQuiet DEF Ready, Orderly
<1>4. /\ Alters(a, w, {"armed"}) /\ Ready(w)
      /\ w.armed \subseteq r.armed \ {"rx2"}
  <2>1. /\ Alters(a, stop(a, "rx1"), {"armed"}) /\ Ready(stop(a, "rx1"))
        /\ stop(a, "rx1").armed = r.armed \ {"rx1"}
    BY <1>3, StopIs
  <2>2. /\ Alters(a, stop(a, "rx2"), {"armed"}) /\ Ready(stop(a, "rx2"))
        /\ stop(a, "rx2").armed = r.armed \ {"rx2"}
    BY <1>3, StopIs
  <2>3. /\ Alters(stop(a, "rx1"), stop(stop(a, "rx1"), "rx2"), {"armed"})
        /\ Ready(stop(stop(a, "rx1"), "rx2"))
        /\ stop(stop(a, "rx1"), "rx2").armed = (r.armed \ {"rx1"}) \ {"rx2"}
    BY <2>1, StopIs
  <2>4. w = IF a.rx_slot = "RX1" THEN stop(a, "rx2") ELSE stop(stop(a, "rx1"), "rx2")
    BY <1>3 DEF stop_rx_windows
  <2>5. Alters(a, stop(stop(a, "rx1"), "rx2"), {"armed"})
    BY <2>1, <2>3 DEF Alters
  <2> QED
    BY <2>2, <2>3, <2>4, <2>5
<1> HIDE DEF w, n
<1>5. /\ Alters(w, t, {"dl_frame_counter", "ack_received", "is_ack_recvd", "nb_trans",
                       "mlme_ind_pending"})
      /\ t.is_ack_recvd = acked /\ t.mlme_ind_pending = m /\ t.armed = w.armed
  BY <1>4 DEF Alters, Fields
<1> HIDE DEF t
<1>6. Ready(t)
  BY <1>4, <1>5, ReadyStays
<1>7. Alters(t, g, {"armed"}) /\ g.armed = IF acked THEN t.armed \ {"ack"} ELSE t.armed
  BY <1>6, StopIs, AltersNothing DEF Ready
<1>8. /\ Alters(r, g, {"ack_received", "is_ack_recvd", "conf_status", "nb_trans", "armed",
                       "is_srv_ack_requested", "dl_frame_counter", "mlme_ind_pending"})
      /\ g.is_ack_recvd = acked
  BY <1>2, <1>4, <1>5, <1>7 DEF Alters, Fields
<1>9. g.armed = {}
  BY <1>4, <1>5, <1>7 DEF AckTimer
<1>10. ~f.sticky => g.mlme_ind_pending = r.mlme_ind_pending \/ g.mlme_ind_pending = FALSE
  <2>1. w.mlme_ind_pending = r.mlme_ind_pending /\ g.mlme_ind_pending = t.mlme_ind_pending
    BY <1>2, <1>4, <1>7 DEF Alters, Fields
  <2>2. ~f.sticky => m = (w.mlme_ind_pending \/ FALSE)
    OBVIOUS
  <2> QED
    BY <1>5, <2>1, <2>2
<1> HIDE DEF g
<1>11. /\ g.due = r.due /\ g.radio = r.radio /\ g.orphans = r.orphans /\ DOMAIN g = Fields
       /\ g.device_class = r.device_class /\ g.tx_ongoing = r.tx_ongoing /\ g.flags = r.flags
       /\ g.nwk_joined = r.nwk_joined /\ g.tx_msg = r.tx_msg
       /\ g.automatic_uplink_ongoing = r.automatic_uplink_ongoing
       /\ g.ul_frame_counter = r.ul_frame_counter
  BY <1>8 DEF Alters, Fields
<1>12. Ending(g)
  BY <1>9, <1>11, EmptyQuiet DEF Ending, Orderly
<1>13. ~f.sticky => Balances(r, g)
  <2>1. ~f.sticky => Pays(r, g)
    BY <1>10, <1>11 DEF Pays, Manual, Account, Promised
  <2>2. Settles(r, g)
    BY <1>11 DEF Settles, Tally, Linked, Asked
  <2> QED
    BY <2>1, <2>2 DEF Balances
<1>14. r.is_node_ack_requested => g.is_ack_recvd
  BY <1>8
<1> HIDE DEF h
<1> QED
  BY <1>1, <1>8, <1>12, <1>13, <1>14 DEF h

\* With the frame taken the message is repeated, or ends.
LEMMA AnsweredIs ==
    ASSUME QueueCap >= 6, NEW d, Ending(d), d.state = "RECEIVING",
           {"MSG_RECVD", "TX_DONE", "RETRY_EXHAUSTED"} \cap d.flags = {},
           d.req_type = d.tx_type, d.req_type = "CONFIRMED" => d.is_ack_recvd
    PROVE  LET e == post_process_tx_with_reception(d)
           IN  After(e, 1) /\ Balances(d, e)
<1> DEFINE e == post_process_tx_with_reception(d)
<1>0. DOMAIN d = Fields
  BY DEF Ending, Orderly
<1>1. ASSUME NEW x, NEW F, Alters(d, x, F), "state" \notin F, "due" \notin F, "armed" \notin F,
             "radio" \notin F, "nwk_joined" \notin F, "tx_ongoing" \notin F, "orphans" \notin F,
             "device_class" \notin F, "tx_type" \notin F, "CONN_IN_PROGRESS" \notin x.flags
      PROVE  Ending(x) /\ x.state = "RECEIVING" /\ x.tx_type = d.tx_type
  <2>1. /\ x.due = d.due /\ x.radio = d.radio /\ x.orphans = d.orphans /\ DOMAIN x = Fields
        /\ x.device_class = d.device_class /\ x.tx_ongoing = d.tx_ongoing /\ x.armed = d.armed
        /\ x.nwk_joined = d.nwk_joined /\ x.state = d.state /\ x.tx_type = d.tx_type
    BY <1>1 DEF Alters, Fields
  <2> QED
    BY <1>1, <2>1 DEF Ending, Orderly
<1>2. CASE d.req_type = "CONFIRMED"
  <2> DEFINE k == set_flags(clear_flags(d, {"RETRY_EXHAUSTED"}), {"TX_DONE"})
             p == post_process_mcps_req(k)
  <2>1. e = STATUS_CHECK(p)
    BY <1>2 DEF post_process_tx_with_reception
  <2>2. Alters(d, k, {"flags"}) /\ k.flags = (d.flags \ {"RETRY_EXHAUSTED"}) \cup {"TX_DONE"}
    BY <1>0 DEF set_flags, clear_flags, Alters, Fields
  <2> HIDE DEF k
  <2>3. /\ Alters(k, p, {"conf_status", "is_node_ack_requested", "ack_received",
                         "is_ack_recvd", "ul_frame_counter"})
        /\ p.conf_status \in {"OK", "ERROR"} /\ p.ul_frame_counter = k.ul_frame_counter + 1
    BY <2>2, PostProcessIs DEF Alters
  <2> HIDE DEF p
  <2>4. /\ Alters(d, p, {"flags", "conf_status", "is_node_ack_requested", "ack_received",
                         "is_ack_recvd", "ul_frame_counter"})
        /\ p.flags = (d.flags \ {"RETRY_EXHAUSTED"}) \cup {"TX_DONE"}
        /\ p.ul_frame_counter = d.ul_frame_counter + 1
    BY <2>2, <2>3 DEF Alters, Fields
  <2>5. /\ "CONN_IN_PROGRESS" \notin p.flags /\ "TX_DONE" \in p.flags
        /\ "MSG_RECVD" \notin p.flags
    BY <2>4 DEF Ending
  <2>6. Ending(p) /\ p.state = "RECEIVING"
    BY <1>1, <2>4, <2>5
  <2>7. After(e, 1) /\ Reported(p, e)
    BY <2>1, <2>3, <2>5, <2>6, AnsweredEnds DEF ConfirmStatuses
  <2>8. SameLink(d, p) /\ d.tx_ongoing
    BY <2>4 DEF SameLink, Ending
  <2> HIDE DEF e
  <2>9. Balances(d, e)
    BY <2>4, <2>7, <2>8, EndedBalances
  <2> QED
    BY <2>7, <2>9 DEF e
<1>3. CASE d.req_type # "CONFIRMED" /\ QOS_repeats(d)
  <2> DEFINE k == clear_flags(d, {"TX_DONE"})
  <2>1. e = repeat_for_QOS(k)
    BY <1>3 DEF post_process_tx_with_reception
  <2>2. Alters(d, k, {"flags"}) /\ k.flags = d.flags \ {"TX_DONE"}
    BY <1>0 DEF clear_flags, Alters, Fields
  <2> HIDE DEF k
  <2>3. Ending(k) /\ k.state = "RECEIVING" /\ k.tx_type = d.tx_type
    <3>1. "CONN_IN_PROGRESS" \notin k.flags
      BY <2>2 DEF Ending
    <3> QED
      BY <1>1, <2>2, <3>1
  <2>4. /\ Orderly(e) /\ Among(e.due, Repetition) /\ Len(e.due) = 1 /\ Balances(k, e)
        /\ Alters(k, e, {"prev_qos_level", "due", "qos_cnt"})
    BY <2>1, <2>3, RepeatIs
  <2> HIDE DEF e
  <2>5. /\ e.state = k.state /\ e.nwk_joined = k.nwk_joined /\ e.flags = k.flags
        /\ e.tx_ongoing = k.tx_ongoing /\ e.radio = k.radio /\ e.armed = k.armed
        /\ e.tx_type = k.tx_type
    BY <2>4 DEF Alters, Fields
  <2>6. Repeating(e)
    BY <1>3, <2>3, <2>4, <2>5 DEF Repeating, Ending
  <2>7. {"TX_DONE", "RETRY_EXHAUSTED"} \cap e.flags = {}
    BY <2>2, <2>5
  <2>8. After(e, 1)
    BY <2>3, <2>4, <2>5, <2>6, <2>7 DEF After, Ending
  <2>10. SameLink(d, k)
    BY <2>2 DEF SameLink
  <2>9. Balances(d, k)
    BY <2>2, <2>10, AltersBalances
  <2> QED
    BY <2>4, <2>8, <2>9, BalancesTransitive DEF e
<1>4. CASE d.req_type # "CONFIRMED" /\ ~QOS_repeats(d)
  <2> DEFINE q == remember_QOS(d)
             p == post_process_mcps_req(q)
             k == set_flags(p, {"TX_DONE"})
  <2>1. e = STATUS_CHECK(k)
    BY <1>4 DEF post_process_tx_with_reception
  <2>2. Alters(d, q, {"prev_qos_level"})
    BY <1>0 DEF remember_QOS, Alters, Fields
  <2> HIDE DEF q
  <2>3. /\ Alters(q, p, {"conf_status", "is_node_ack_requested", "ack_received",
                         "is_ack_recvd", "ul_frame_counter"})
        /\ p.conf_status \in {"OK", "ERROR"} /\ p.ul_frame_counter = q.ul_frame_counter + 1
    BY <2>2, PostProcessIs DEF Alters
  <2> HIDE DEF p
  <2>4. Alters(p, k, {"flags"}) /\ k.flags = p.flags \cup {"TX_DONE"}
    BY <2>3 DEF set_flags, Alters, Fields
  <2> HIDE DEF k
  <2>5. /\ Alters(d, k, {"flags", "conf_status", "is_node_ack_requested", "ack_received",
                         "is_ack_recvd", "ul_frame_counter", "prev_qos_level"})
        /\ k.flags = d.flags \cup {"TX_DONE"} /\ k.conf_status \in {"OK", "ERROR"}
        /\ k.ul_frame_counter = d.ul_frame_counter + 1
    BY <2>2, <2>3, <2>4 DEF Alters, Fields
  <2>6. /\ "CONN_IN_PROGRESS" \notin k.flags /\ "TX_DONE" \in k.flags
        /\ "MSG_RECVD" \notin k.flags
    BY <2>5 DEF Ending
  <2>7. Ending(k) /\ k.state = "RECEIVING"
    BY <1>1, <2>5, <2>6
  <2>8. After(e, 1) /\ Reported(k, e)
    BY <2>1, <2>5, <2>6, <2>7, AnsweredEnds DEF ConfirmStatuses
  <2>9. SameLink(d, k) /\ d.tx_ongoing
    BY <2>5 DEF SameLink, Ending
  <2> HIDE DEF e
  <2>10. Balances(d, e)
    BY <2>5, <2>8, <2>9, EndedBalances
  <2> QED
    BY <2>8, <2>10 DEF e
<1> QED
  BY <1>2, <1>3, <1>4

\* The frame's payload is told, and an uplink asked for if the network has more to send.
LEMMA IndicatedIs ==
    ASSUME QueueCap >= 6, NEW d, After(d, 1), NEW f
    PROVE  LET e == mcps_indication_handler(d, f)
           IN  /\ After(e, 3) /\ (~e.automatic_uplink_ongoing => After(e, 2))
               /\ ~f.fpending => Balances(d, e)
<1> DEFINE t == IF f.payload THEN send_event_to_application(d, "RX_DONE") ELSE d
           a == [t EXCEPT !.automatic_uplink_ongoing = TRUE]
           c == [fn |-> "send_automatic_uplink_message"]
           e == mcps_indication_handler(d, f)
<1> SUFFICES /\ After(e, 3) /\ (~e.automatic_uplink_ongoing => After(e, 2))
             /\ ~f.fpending => Balances(d, e)
  OBVIOUS
<1>0. ASSUME NEW x, NEW m \in 0 .. 2, After(x, m), NEW n \in 0 .. 3, m <= n
      PROVE  After(x, n)
  BY <1>0 DEF After, Orderly
<1>1. e = IF f.fpending /\ ~d.automatic_uplink_ongoing THEN post(a, c) ELSE t
  BY DEF mcps_indication_handler, UplinkWanted, schedule_automatic_uplink, After, Orderly
<1>2. /\ After(t, 2) /\ t.automatic_uplink_ongoing = d.automatic_uplink_ongoing
      /\ Balances(d, t)
  <2> DEFINE v == [fn |-> "event", event |-> "RX_DONE"]
  <2>1. /\ v \in Calls /\ v.fn \in Light /\ v.fn # "send_automatic_uplink_message"
        /\ ~IsReport(v) /\ ~IsReply(v)
    BY DEF Calls, Light, IsReport, IsReply, IsEvent, Reports, Replies, AppEvents
  <2>2. send_event_to_application(d, "RX_DONE") = post(d, v)
    BY DEF send_event_to_application
  <2> HIDE DEF v
  <2>3. /\ After(post(d, v), 1 + 1) /\ Alters(d, post(d, v), {"due"})
        /\ post(d, v).due = Append(d.due, v)
    BY <2>1, LightPosted
  <2>4. d.due \in Seq(Calls)
    BY DEF After, Orderly
  <2>5. Balances(d, post(d, v))
    BY <2>1, <2>3, <2>4, PostBalances
  <2>6. post(d, v).automatic_uplink_ongoing = d.automatic_uplink_ongoing
    BY <2>3 DEF Alters, Fields
  <2>7. After(d, 2) /\ Balances(d, d)
    BY <1>0 DEF Balances, Pays, Settles, Linked
  <2> QED
    BY <2>2, <2>3, <2>5, <2>6, <2>7
<1> HIDE DEF t, e
<1>3. CASE f.fpending /\ ~d.automatic_uplink_ongoing
  <2>1. Alters(t, a, {"automatic_uplink_ongoing"}) /\ a.automatic_uplink_ongoing = TRUE
    BY <1>2 DEF Alters, Fields, After, Orderly
  <2> HIDE DEF a
  <2>2. After(a, 2)
    <3>1. /\ a.due = t.due /\ a.radio = t.radio /\ a.orphans = t.orphans /\ DOMAIN a = Fields
          /\ a.device_class = t.device_class /\ a.tx_ongoing = t.tx_ongoing /\ a.armed = t.armed
          /\ a.nwk_joined = t.nwk_joined /\ a.state = t.state /\ a.tx_type = t.tx_type
          /\ a.flags = t.flags
      BY <2>1 DEF Alters, Fields
    <3> QED
      BY <1>2, <3>1 DEF After, Orderly, Resting, Repeating
  <2>3. c \in Calls /\ c.fn \in Light
    BY DEF Calls, Light
  <2> HIDE DEF c
  <2>4. After(e, 2 + 1) /\ Alters(a, e, {"due"})
    BY <1>1, <1>3, <2>2, <2>3, LightPosted
  <2>5. e.automatic_uplink_ongoing
    BY <2>1, <2>4 DEF Alters, Fields
  <2>6. 2 + 1 = 3
    OBVIOUS
  <2> QED
    BY <1>3, <2>4, <2>5, <2>6
<1>4. CASE ~(f.fpending /\ ~d.automatic_uplink_ongoing)
  <2>1. e = t
    BY <1>1, <1>4
  <2>2. After(t, 3)
    BY <1>0, <1>2
  <2> QED
    BY <1>2, <2>1, <2>2
<1> QED
  BY <1>3, <1>4

\* What the reception of a downlink leads to: the message is settled, the frame told, and
\* the answer that a command of the network asks for is on its way.
LEMMA FinishIs ==
    ASSUME QueueCap >= 6, NEW d, Ending(d), d.state = "RECEIVING",
           {"MSG_RECVD", "TX_DONE", "RETRY_EXHAUSTED"} \cap d.flags = {},
           d.req_type = d.tx_type, d.req_type = "CONFIRMED" => d.is_ack_recvd, NEW f
    PROVE  LET e == finish_reception(d, f, TRUE)
           IN  InPhase(e) /\ (~f.fpending => Balances(d, e))
<1> DEFINE p == post_process_tx_with_reception(d)
           m == set_flags(p, {"MSG_RECVD"})
           k == clear_flags(m, {"MSG_RECVD"})
           i == mcps_indication_handler(k, f)
           j == [i EXCEPT !.mlme_ind_pending = FALSE]
           a == [j EXCEPT !.automatic_uplink_ongoing = TRUE]
           c == [fn |-> "send_automatic_uplink_message"]
           e == finish_reception(d, f, TRUE)
<1>1. After(p, 1) /\ Balances(d, p)
  BY AnsweredIs
<1>2. e = LET indicated == process_status_check_state(m, f)
              completed == IF "TX_DONE" \in indicated.flags
                           THEN state_machine_run_to_completion(indicated) ELSE indicated
          IN  IF completed.mlme_ind_pending /\ ~completed.automatic_uplink_ongoing
              THEN mlme_indication_handler([completed EXCEPT !.mlme_ind_pending = FALSE])
              ELSE completed
  BY DEF finish_reception
<1> SUFFICES InPhase(e) /\ (~f.fpending => Balances(d, e))
  OBVIOUS
<1> HIDE DEF p, e
<1>3. Alters(p, m, {"flags"}) /\ m.flags = p.flags \cup {"MSG_RECVD"}
  BY <1>1 DEF set_flags, Alters, Fields, After, Orderly
<1> HIDE DEF m
<1>4. Alters(m, k, {"flags"}) /\ k.flags = m.flags \ {"MSG_RECVD"}
  BY <1>3 DEF clear_flags, Alters, Fields
<1>5. process_status_check_state(m, f) = i
  <2>1. m.state = "RECEIVING" /\ m.flags \cap {"TX_DONE", "RETRY_EXHAUSTED"} = {}
        /\ "MSG_RECVD" \in m.flags
    BY <1>1, <1>3 DEF Alters, Fields, After
  <2> QED
    BY <2>1 DEF process_status_check_state
<1> HIDE DEF k
<1>6. Alters(p, k, {"flags"}) /\ {"TX_DONE", "RETRY_EXHAUSTED"} \cap k.flags = {}
      /\ SameLink(p, k)
  BY <1>1, <1>3, <1>4 DEF Alters, Fields, After, SameLink
<1>7. After(k, 1) /\ Balances(p, k)
  <2>1. /\ k.due = p.due /\ k.radio = p.radio /\ k.orphans = p.orphans /\ DOMAIN k = Fields
        /\ k.device_class = p.device_class /\ k.tx_ongoing = p.tx_ongoing /\ k.armed = p.armed
        /\ k.nwk_joined = p.nwk_joined /\ k.state = p.state /\ k.tx_type = p.tx_type
    BY <1>6 DEF Alters, Fields
  <2>2. Orderly(k) /\ (Resting(k) \/ Repeating(k))
    BY <1>1, <1>6, <2>1 DEF After, Orderly, Resting, Repeating, SameLink
  <2> QED
    BY <1>1, <1>6, <2>1, <2>2, AltersBalances DEF After
<1>8. /\ After(i, 3) /\ (~i.automatic_uplink_ongoing => After(i, 2))
      /\ ~f.fpending => Balances(k, i)
  BY <1>7, IndicatedIs
<1> HIDE DEF i
<1>9. e = IF i.mlme_ind_pending /\ ~i.automatic_uplink_ongoing THEN post(a, c) ELSE i
  <2>1. "TX_DONE" \notin i.flags
    BY <1>8 DEF After
  <2> QED
    BY <1>2, <1>5, <2>1 DEF mlme_indication_handler, schedule_automatic_uplink
<1>10. CASE i.mlme_ind_pending /\ ~i.automatic_uplink_ongoing
  <2>1. After(i, 2)
    BY <1>8, <1>10
  <2>2. Alters(i, a, {"mlme_ind_pending", "automatic_uplink_ongoing"})
    BY <2>1 DEF Alters, Fields, After, Orderly
  <2> HIDE DEF a
  <2>3. After(a, 2)
    <3>1. /\ a.due = i.due /\ a.radio = i.radio /\ a.orphans = i.orphans /\ DOMAIN a = Fields
          /\ a.device_class = i.device_class /\ a.tx_ongoing = i.tx_ongoing /\ a.armed = i.armed
          /\ a.nwk_joined = i.nwk_joined /\ a.state = i.state /\ a.tx_type = i.tx_type
          /\ a.flags = i.flags
      BY <2>2 DEF Alters, Fields
    <3> QED
      BY <2>1, <3>1 DEF After, Orderly, Resting, Repeating
  <2>4. c \in Calls /\ c.fn \in Light
    BY DEF Calls, Light
  <2> HIDE DEF c
  <2>5. After(e, 2 + 1)
    BY <1>9, <1>10, <2>3, <2>4, LightPosted
  <2>6. ~Manual(i)
    BY <1>10 DEF Manual
  <2>7. ~f.fpending => ~Manual(d)
    BY <1>1, <1>7, <1>8, <2>6 DEF Balances, Pays
  <2> QED
    BY <2>5, <2>7 DEF After, InPhase, Phase, Balances, Pays
<1>11. CASE ~(i.mlme_ind_pending /\ ~i.automatic_uplink_ongoing)
  <2>1. e = i
    BY <1>9, <1>11
  <2>2. ~f.fpending => Balances(d, i)
    BY <1>1, <1>7, <1>8, BalancesTransitive
  <2> QED
    BY <1>8, <2>1, <2>2 DEF After, InPhase, Phase
<1> QED
  BY <1>10, <1>11

\* A frame is taken.  One that asks for nothing leaves nothing more owed.
LEMMA FrameTakenIs ==
    ASSUME Regular, NEW d, InPhase(d), d.due # <<>>,
           Head(d.due).fn = "process_reception", NEW ch \in Clear
    PROVE  LET f == Head(d.due).frame
               e == process_reception(Popping(d), f, ch)
           IN  /\ InPhase(e)
               /\ ~f.fpending /\ ~f.sticky => Balances(Popping(d), e)
<1> DEFINE f == Head(d.due).frame
           p == Popping(d)
           x == clear_flags(set_state(p, "RECEIVING"),
                            {"MSG_RECVD", "TX_DONE", "RETRY_EXHAUSTED"})
           h == on_radio_rx_done(x, f)
           z == CASE JoinFrame(f) /\ ~p.nwk_joined ->
                       mlme_confirm_handler(h.dev, f.kind = "accept", ch)
                  [] ~JoinFrame(f) /\ ~p.nwk_joined -> h.dev
                  [] p.nwk_joined -> finish_reception(h.dev, f, h.pending)
           e == process_reception(p, f, ch)
<1>0. QueueCap >= 6
  BY DEF Regular
<1>1. /\ Tail(d.due) = <<>> /\ Orderly(d)
      /\ \E slot \in Slots : Closes(d, slot) /\ f \in Downlinks /\ Receivable(d, f)
  <2>1. Head(d.due).fn \notin Light
    BY DEF Light
  <2>2. Dispatched(d)
    BY <2>1, PhaseHead
  <2> QED
    BY <2>2, CallsDiffer DEF Dispatched, InPhase
<1>2. PICK slot \in Slots : Closes(d, slot) /\ f \in Downlinks /\ Receivable(d, f)
  BY <1>1
<1>a. f.kind \in {"accept", "reject", "first", "data"}
  BY <1>2 DEF Regular
<1>3. Alters(d, p, {"due"}) /\ p.due = <<>> /\ Orderly(p)
  BY <1>1, PoppedEmpty
<1>4. e = release_rx_payload(z)
  BY DEF process_reception
<1> SUFFICES InPhase(e) /\ (~f.fpending /\ ~f.sticky => Balances(p, e))
  OBVIOUS
<1> HIDE DEF p, e, f
<1>5. /\ Alters(p, x, {"state", "flags"}) /\ x.state = "RECEIVING"
      /\ x.flags = p.flags \ {"MSG_RECVD", "TX_DONE", "RETRY_EXHAUSTED"}
  BY <1>3 DEF clear_flags, set_state, Alters, Fields
<1> HIDE DEF x
<1>6. Orderly(x) /\ x.due = <<>>
  BY <1>3, <1>5 DEF Alters, Fields, Orderly
<1>7. PICK r : /\ Alters(x, r, {"demod_ongoing", "armed", "radio"})
               /\ ~r.demod_ongoing /\ r.radio = "sleep" /\ r.armed = x.armed \ {"rx1"}
               /\ h = CASE JoinFrame(f) /\ x.nwk_joined  -> [dev |-> r, pending |-> FALSE]
                        [] JoinFrame(f) /\ ~x.nwk_joined ->
                             [dev |-> handle_join_accept_frame(r, f), pending |-> FALSE]
                        [] OTHER -> handle_data_frame(r, f)
  BY <1>6, FrameIs
<1> HIDE DEF h, z
<1>8. /\ Alters(d, r, {"due", "state", "flags", "demod_ongoing", "armed", "radio"})
      /\ Alters(p, r, {"state", "flags", "demod_ongoing", "armed", "radio"})
      /\ r.state = "RECEIVING" /\ r.due = <<>> /\ r.armed = d.armed \ {"rx1"}
      /\ r.flags = d.flags \ {"MSG_RECVD", "TX_DONE", "RETRY_EXHAUSTED"}
  BY <1>3, <1>5, <1>6, <1>7 DEF Alters, Fields
<1>9. /\ r.tx_ongoing = d.tx_ongoing /\ r.nwk_joined = d.nwk_joined
      /\ r.req_type = d.req_type /\ r.tx_type = d.tx_type
      /\ r.is_node_ack_requested = d.is_node_ack_requested
      /\ r.is_srv_ack_requested = d.is_srv_ack_requested /\ r.rx_slot = d.rx_slot
      /\ r.orphans = d.orphans /\ r.device_class = d.device_class /\ DOMAIN r = Fields
      /\ x.nwk_joined = d.nwk_joined /\ p.nwk_joined = d.nwk_joined
      /\ r.ul_frame_counter = d.ul_frame_counter
  BY <1>3, <1>5, <1>8 DEF Alters, Fields
<1>10. Orderly(r) /\ r.rx_slot = slot /\ ~r.is_srv_ack_requested
  BY <1>1, <1>2, <1>8, <1>9, EmptyQuiet DEF Orderly, Closes
<1>11. Balances(p, r)
  <2>1. SameLink(p, r)
    BY <1>3, <1>8 DEF SameLink, Alters, Fields
  <2> QED
    BY <1>8, <2>1, AltersBalances
<1>12. CASE Joins(d, "AWAITING_JOIN_ACCEPT")
  <2>1. JoinFrame(f) /\ ~d.nwk_joined
    BY <1>2, <1>12, <1>a DEF JoinFrame, Receivable, Joins
  <2>2. h.dev = handle_join_accept_frame(r, f)
    BY <1>7, <1>9, <2>1
  <2>3. z = mlme_confirm_handler(handle_join_accept_frame(r, f), f.kind = "accept", ch)
    BY <1>9, <2>1, <2>2 DEF z
  <2>4. Joins(r, "RECEIVING")
    BY <1>8, <1>9, <1>12 DEF Joins
  <2>5. d.armed = IF slot = "RX1" THEN {"rx2"} ELSE {}
    BY <1>2, <1>12 DEF Closes, Left, AckTimer, Joins
  <2>6. r.armed = IF r.rx_slot = "RX1" THEN {"rx2"} ELSE {}
    BY <1>8, <1>10, <2>5
  <2>7. InPhase(z) /\ Balances(r, z)
    BY <1>0, <1>7, <1>8, <1>10, <2>3, <2>4, <2>6, JoinAcceptIs
  <2> QED
    BY <1>4, <1>11, <2>7, PhaseKept, BalancesTransitive
<1>13. CASE Transmits(d)
  <2>1. d.nwk_joined /\ f.kind \in {"first", "data"} /\ ~JoinFrame(f)
    BY <1>2, <1>13 DEF JoinFrame, Receivable, Transmits
  <2>2. h = handle_data_frame(r, f)
    BY <1>7, <1>9, <2>1
  <2>3. z = finish_reception(h.dev, f, h.pending)
    BY <1>9, <2>1 DEF z
  <2>4. r.armed \subseteq {"rx2"} \cup AckTimer(r)
    <3>1. d.armed \subseteq {"rx2"} \cup AckTimer(d) /\ AckTimer(r) = AckTimer(d)
      BY <1>2, <1>9 DEF Closes, Left, AckTimer
    <3> QED
      BY <1>8, <3>1
  <2>5. /\ r.nwk_joined /\ r.tx_ongoing /\ "CONN_IN_PROGRESS" \notin r.flags
        /\ (r.is_node_ack_requested => f.ack)
    BY <1>2, <1>8, <1>9, <1>13 DEF Transmits, Receivable
  <2>6. PICK g : /\ handle_data_frame(r, f) = [dev |-> g, pending |-> TRUE]
                 /\ Ending(g) /\ (r.is_node_ack_requested => g.is_ack_recvd)
                 /\ Alters(r, g, {"ack_received", "is_ack_recvd", "conf_status", "nb_trans",
                                  "is_srv_ack_requested", "armed", "dl_frame_counter",
                                  "mlme_ind_pending"})
                 /\ ~f.sticky => Balances(r, g)
    <3>1. r.due = <<>> /\ r.radio = "sleep"
      BY <1>7, <1>8
    <3> QED
      BY <1>10, <2>1, <2>4, <2>5, <3>1, DataFrameIs
  <2>7. /\ g.state = "RECEIVING" /\ g.req_type = g.tx_type
        /\ {"MSG_RECVD", "TX_DONE", "RETRY_EXHAUSTED"} \cap g.flags = {}
        /\ g.req_type = "CONFIRMED" => g.is_ack_recvd
    <3>1. /\ g.state = r.state /\ g.req_type = r.req_type /\ g.tx_type = r.tx_type
          /\ g.flags = r.flags
      BY <2>6 DEF Alters, Fields
    <3> QED
      BY <1>8, <1>9, <1>13, <2>6, <3>1 DEF Transmits
  <2>8. z = finish_reception(g, f, TRUE)
    BY <2>2, <2>3, <2>6
  <2>9. InPhase(z) /\ (~f.fpending => Balances(g, z))
    BY <1>0, <2>6, <2>7, <2>8, FinishIs
  <2>10. InPhase(e) /\ Balances(z, e)
    BY <1>4, <2>9, PhaseKept
  <2> QED
    BY <1>11, <2>6, <2>9, <2>10, BalancesTransitive
<1> QED
  BY <1>2, <1>12, <1>13 DEF Closes, Exchange

-----------------------------------------------------------------------------
(* Every step *)

\* In an exchange a message is sent within a session, or a connection is in progress.
LEMMA FreeRests ==
    ASSUME NEW d, InPhase(d), "CONN_IN_PROGRESS" \notin d.flags, ~d.tx_ongoing \/ ~d.nwk_joined
    PROVE  Resting(d)
BY DEF InPhase, Phase, Begun, Sending, Delayed, Transmitted, Awaits, Listens, Closes,
       AckAwaited, Repeating, Exchange, Transmits, Joins

\* Before the stack is initialized there is no exchange.
LEMMA NewRests ==
    ASSUME NEW d, InPhase(d), d.state = "NOT_INITIALIZED"
    PROVE  Resting(d)
BY DEF InPhase, Phase, Begun, Sending, Delayed, Transmitted, Awaits, Listens, Closes,
       AckAwaited, Repeating, Exchange, Transmits, Joins

\* Outside a session, with every event heard, nothing waits for a device that rests.
LEMMA HeardNothing ==
    ASSUME NEW d, Orderly(d), Resting(d), ~d.nwk_joined,
           \A i \in DOMAIN d.due : d.due[i].fn # "event"
    PROVE  d.due = <<>>
<1>1. Len(d.due) \in Nat /\ DOMAIN d.due = 1 .. Len(d.due) /\ d.due \in Seq(Calls)
  BY DEF Orderly
<1>2. \A i \in 1 .. Len(d.due) : FALSE
  BY <1>1 DEF Orderly, Resting, Quiet, Light
<1>3. Len(d.due) = 0
  BY <1>1, <1>2
<1> QED
  BY <1>1, <1>3, EmptyIs

\* The calls that are dispatched are those of the phases.
LEMMA NotDispatched ==
    ASSUME NEW d, InPhase(d), d.due # <<>>
    PROVE  /\ Head(d.due).fn \notin {"process_transmission_timeout", "cancelled"}
           /\ Head(d.due).fn = "state_controller_scheduling" => Head(d.due) = Repetition
           /\ Head(d.due).fn = "timer" => Head(d.due).timer # "rx2_closure"
<1>1. CASE Head(d.due).fn \in Light
  BY <1>1 DEF Light
<1>2. CASE Head(d.due).fn \notin Light
  <2>1. Dispatched(d)
    BY <1>2, PhaseHead
  <2> QED
    BY <2>1, CallsDiffer DEF Dispatched
<1> QED
  BY <1>1, <1>2

\* A handler takes the exchange from one phase to the next.
LEMMA DispatchPhase ==
    ASSUME Regular, SessionInv, InPhase(dev), Dispatch
    PROVE  InPhase(dev')
<1>1. QueueCap >= 6 /\ Outcomes \subseteq Clear
  BY DEF Regular, Clear
<1>2. Popped = Popping(dev)
  BY DEF Popped, Popping
<1>3. \A d : Step(d) => dev' = d
  BY DEF Step
<1>4. dev.session_active <=> dev.nwk_joined
  BY SessionInvIs DEF SessionConsistent
<1>5. \A fn : Called(fn) => dev.due # <<>> /\ Head(dev.due).fn = fn
  BY DEF Called
<1>6. CASE ProcessTransmission
  BY <1>1, <1>2, <1>3, <1>5, <1>6, ProcessTransmissionIs DEF ProcessTransmission
<1>7. CASE ProcessReception
  BY <1>1, <1>2, <1>3, <1>5, <1>7, FrameTakenIs DEF ProcessReception
<1>8. CASE ProcessReceptionTimeout
  BY <1>1, <1>2, <1>3, <1>5, <1>8, ReceptionTimeoutIs DEF ProcessReceptionTimeout
<1>9. CASE RepeatForQOS
  BY <1>1, <1>2, <1>3, <1>5, <1>9, RepetitionIs, NotDispatched DEF RepeatForQOS
<1>10. CASE SendAutomaticUplink
  BY <1>1, <1>2, <1>3, <1>4, <1>5, <1>10, AutomaticIs DEF SendAutomaticUplink
<1>11. CASE EventHandler
  <2>1. Pops(dev, Popping(dev)) /\ dev' = Popping(dev)
    BY <1>2, <1>3, <1>11, PoppingIs DEF EventHandler, InPhase
  <2> QED
    BY <1>5, <1>11, <2>1, PhaseTail DEF EventHandler, Light
<1>12. CASE OpenRx1
  BY <1>2, <1>3, <1>5, <1>12, OpenRx1Is DEF OpenRx1, TimerCalled
<1>13. CASE OpenRx2
  BY <1>2, <1>3, <1>5, <1>13, OpenRx2Is DEF OpenRx2, TimerCalled
<1>14. ASSUME NEW ch \in Outcomes, BackoffExpired(ch)
       PROVE  InPhase(dev')
  BY <1>1, <1>2, <1>3, <1>5, <1>14, BackoffIs DEF BackoffExpired, TimerCalled
<1>15. ASSUME NEW ch \in [1 .. 3 -> Outcomes], AckTimeout(ch)
       PROVE  InPhase(dev')
  <2>1. ch[1] \in Clear
    BY <1>1
  <2> QED
    BY <1>1, <1>2, <1>3, <1>5, <1>15, <2>1, AckTimeoutIs DEF AckTimeout, TimerCalled
<1>16. ~ProcessTransmissionTimeout /\ ~SkipCancelled /\ ~Rx2Closure
  BY <1>5, NotDispatched DEF ProcessTransmissionTimeout, SkipCancelled, Rx2Closure, TimerCalled
<1> QED
  BY <1>6, <1>7, <1>8, <1>9, <1>10, <1>11, <1>12, <1>13, <1>14, <1>15, <1>16 DEF Dispatch

\* So does the application, whose calls begin an exchange, or end one that waits.
LEMMA ApplicationPhase ==
    ASSUME Regular, SessionInv, InPhase(dev), Application
    PROVE  InPhase(dev')
<1>1. QueueCap >= 6 /\ Outcomes \subseteq Clear /\ Patient /\ "class_c" \notin AppCalls
  BY DEF Regular, Clear
<1>2. Orderly(dev) /\ \A d : Orderly(d) /\ (Resting(d) \/ Begun(d)) => InPhase(d)
  BY DEF InPhase, Phase
<1>3. \A d : Step(d) => dev' = d
  BY DEF Step
<1>4. /\ dev.session_active <=> dev.nwk_joined
      /\ dev.nwk_joined <=> "CONNECTED" \in dev.flags
      /\ ~({"CONNECTED", "CONN_IN_PROGRESS"} \subseteq dev.flags)
  BY SessionInvIs DEF SessionConsistent
<1>5. Idle => Resting(dev) /\ dev.due = <<>>
  BY FreeRests DEF Idle
<1>6. CASE Initialize
  <2>1. Resting(dev)
    BY <1>1, <1>5, <1>6, NewRests DEF Initialize, Initialized
  <2>2. dev' = set_state(dev, "IDLE")
    BY <1>3, <1>6 DEF Initialize
  <2>3. Alters(dev, dev', {"state"})
    BY <1>2, <2>2 DEF set_state, Alters, Fields, Orderly
  <2>4. /\ dev'.due = dev.due /\ dev'.device_class = dev.device_class
        /\ dev'.orphans = dev.orphans /\ dev'.nwk_joined = dev.nwk_joined
        /\ dev'.tx_ongoing = dev.tx_ongoing /\ dev'.flags = dev.flags
        /\ dev'.radio = dev.radio /\ dev'.armed = dev.armed /\ DOMAIN dev' = Fields
    BY <2>3 DEF Alters, Fields
  <2>5. Orderly(dev') /\ Resting(dev')
    BY <1>2, <2>1, <2>4 DEF Orderly, Resting
  <2> QED
    BY <1>2, <2>5
<1>7. ASSUME NEW otaa \in BOOLEAN, Connect(otaa)
      PROVE  InPhase(dev')
  <2>1. ~dev.nwk_joined /\ "CONN_IN_PROGRESS" \notin dev.flags
    BY <1>4, <1>7 DEF Connect
  <2>2. Resting(dev) /\ dev.due = <<>>
    BY <1>2, <1>7, <2>1, FreeRests, HeardNothing DEF Connect, Heard
  <2>3. PICK ch \in Outcomes : dev' = connect(dev, otaa, ch)
    BY <1>3, <1>7 DEF Connect
  <2>4. CASE otaa = TRUE
    BY <1>1, <1>2, <2>2, <2>3, <2>4, ConnectOtaaIs
  <2>5. CASE otaa = FALSE
    BY <1>1, <1>2, <2>2, <2>3, <2>5, ConnectAbpIs
  <2> QED
    BY <2>4, <2>5
<1>8. ASSUME NEW type \in SendTypes, Send(type)
      PROVE  InPhase(dev')
  <2>1. PICK ch \in Outcomes : dev' = handle_tx(dev, messages + 1, type, ch).dev
    BY <1>3, <1>8 DEF Send
  <2>2. ~dev.tx_ongoing
    BY <1>8 DEF Send
  <2>3. CASE "CONN_IN_PROGRESS" \in dev.flags
    <3>1. ~dev.session_active
      BY <1>4, <2>3
    <3>2. handle_tx(dev, messages + 1, type, ch).dev = dev
      BY <3>1 DEF handle_tx
    <3> QED
      BY <2>1, <3>2
  <2>4. CASE "CONN_IN_PROGRESS" \notin dev.flags
    BY <1>1, <1>2, <2>1, <2>2, <2>4, FreeRests, HandleTxIs
  <2> QED
    BY <2>3, <2>4
<1>9. CASE StopSending
  BY <1>1, <1>2, <1>3, <1>9, StopSendingIs DEF StopSending
<1>10. CASE Shutdown
  BY <1>1, <1>2, <1>3, <1>5, <1>10, ShutdownIs DEF Shutdown
<1>11. ASSUME NEW c \in {"A", "C"}, SetDeviceClass(c)
       PROVE  InPhase(dev')
  BY <1>1, <1>2, <1>11 DEF SetDeviceClass, Orderly
<1> QED
  BY <1>6, <1>7, <1>8, <1>9, <1>10, <1>11 DEF Application

\* While a window is open there is room for what the radio posts, and no frame is in the
\* buffer.
LEMMA WindowFree ==
    ASSUME QueueCap >= 6, NEW d, InPhase(d), d.radio = "rx"
    PROVE  Room(d) /\ Quiet(d.due) /\ \E slot \in Slots : Listens(d, slot)
<1>1. PICK slot \in Slots : Listens(d, slot)
  BY DEF InPhase, Phase, Resting, Begun, Sending, Delayed, Transmitted, Awaits, Listens, Closes,
         AckAwaited, Repeating
<1>2. Quiet(d.due) /\ d.armed \subseteq {"rx2", "ack"} /\ d.due \in Seq(Calls) /\ d.orphans = {}
  BY <1>1, LeftFew DEF Listens, InPhase, Orderly
<1>3. Room(d)
  BY <1>2, RoomIs DEF Quiet
<1> QED
  BY <1>1, <1>2, <1>3

\* The radio listens in the windows only.
LEMMA ListeningIs ==
    ASSUME InPhase(dev), Listening
    PROVE  dev.radio = "rx"
BY DEF Listening, InPhase, Phase, Resting, Begun, Sending, Delayed, Transmitted, Awaits, Listens,
       Closes, AckAwaited, Repeating

\* The frame that arrives in a window is one of the phase.
LEMMA ArrivesReceivable ==
    ASSUME Regular, InPhase(dev), dev.radio = "rx", NEW f \in Downlinks, Arrives(f)
    PROVE  Receivable(dev, f)
<1>1. dev.is_node_ack_requested => dev.nwk_joined
  BY WindowFree DEF Regular, Listens, Exchange, Transmits, Joins
<1>2. dev.nwk_joined <=> f.kind \in {"first", "data"}
  BY DEF Regular, Arrives, JoinFrame
<1> QED
  BY <1>1, <1>2 DEF Regular, Arrives, Receivable

\* A frame arrives in a window, in the buffer that is free.
LEMMA ArrivalIs ==
    ASSUME Regular, SessionInv, FreedInv, InPhase(dev), NEW f \in Downlinks, RxDone(f)
    PROVE  dev' = post([AfterReception(dev) EXCEPT !.rx_payload_in_use = TRUE], Reception(f))
<1>1. dev.radio = "rx" /\ Quiet(dev.due) /\ dev.due \in Seq(Calls)
  BY ListeningIs, WindowFree DEF RxDone, Regular, InPhase, Orderly
<1>2. Waiting(dev.due) = {}
  BY <1>1 DEF Quiet, Light, Waiting
<1> QED
  BY <1>2 DEF FreedInv, RxDone, Reception

\* The radio's interrupts lead on.
LEMMA RadioPhase ==
    ASSUME Regular, SessionInv, FreedInv, InPhase(dev), Radio
    PROVE  InPhase(dev')
<1>1. QueueCap >= 6 /\ DOMAIN dev = Fields /\ "tx_timeout" \notin RadioFaults
  BY DEF Regular, InPhase, Orderly
<1>2. \A d : Step(d) => dev' = d
  BY DEF Step
<1>3. CASE TxDone
  BY <1>1, <1>2, <1>3, TxDoneIs DEF TxDone, Sent
<1>4. ASSUME dev.radio = "rx"
      PROVE  LET e == AfterReception(dev)
             IN  /\ Alters(dev, e, {"radio", "rx_payload_in_use"}) /\ e.radio = "standby"
                 /\ Alters(dev, [e EXCEPT !.rx_payload_in_use = TRUE], {"radio", "rx_payload_in_use"})
                 /\ [e EXCEPT !.rx_payload_in_use = TRUE].radio = "standby"
  BY <1>1, <1>4 DEF AfterReception, Alters, Fields
<1>5. ASSUME NEW f \in Downlinks, RxDone(f)
      PROVE  InPhase(dev')
  <2>1. dev.radio = "rx" /\ Receivable(dev, f)
    BY <1>5, ListeningIs, ArrivesReceivable DEF RxDone
  <2>2. dev' = post([AfterReception(dev) EXCEPT !.rx_payload_in_use = TRUE], Reception(f))
    BY <1>5, ArrivalIs
  <2> QED
    BY <1>1, <1>4, <2>1, <2>2, WindowCloses
<1>6. CASE RxError
  <2>1. dev.radio = "rx" /\ dev' = post(AfterReception(dev), Silence(FALSE))
    BY <1>2, <1>6, ListeningIs DEF RxError, Silence
  <2> QED
    BY <1>1, <1>4, <2>1, WindowCloses
<1>7. CASE RxTimeout
  <2>1. dev.radio = "rx" /\ dev' = post(AfterReception(dev), Silence(TRUE))
    BY <1>2, <1>7 DEF RxTimeout, Silence
  <2> QED
    BY <1>1, <1>4, <2>1, WindowCloses
<1> QED
  BY <1>1, <1>3, <1>5, <1>6, <1>7 DEF Radio, TxTimeout

\* A step of the device, of its radio or of the clock.
LEMMA PhaseNext ==
    ASSUME Regular, SessionInv, FreedInv, InPhase(dev), [Next]_vars
    PROVE  InPhase(dev')
<1>1. CASE Clock
  <2>1. PICK t \in Timers : Expire(t) \/ ExpireOrphan(t)
    BY <1>1 DEF Clock
  <2>2. Expire(t)
    BY <2>1 DEF InPhase, Orderly, ExpireOrphan
  <2>3. /\ t \in dev.armed /\ Before(t) \cap dev.armed = {}
        /\ t \in {"backoff", "rx1"} \/ Settled(dev)
        /\ dev' = [dev EXCEPT !.armed = dev.armed \ {t}, !.due = Append(dev.due, LiveCall(t))]
    BY <2>2 DEF Expire, Step, Regular
  <2> QED
    BY <2>3, ExpireIs
<1>2. CASE UNCHANGED vars
  BY <1>2 DEF vars
<1> QED
  BY <1>1, <1>2, DispatchPhase, ApplicationPhase, RadioPhase DEF Next

\* A new device rests.
LEMMA PhaseInit == Init => InPhase(dev)
BY EmptyQuiet DEF Init, NewDevice, InPhase, Orderly, Phase, Resting, Fields, Quiet

\* The buffer is free whenever a frame arrives: there is room for it.
LEMMA RegularFreed ==
    ASSUME Regular, SessionInv, FreedInv, InPhase(dev), [Next]_vars
    PROVE  FreedInv'
<1>1. \A f \in Downlinks : RxDone(f) => Room(dev)
  BY ListeningIs, WindowFree DEF RxDone, Regular
<1> QED
  BY <1>1, FreedNext

-----------------------------------------------------------------------------
(* What holds of every device *)

\* An exchange has something left that will end it.
LEMMA PhaseInProgress ==
    ASSUME InPhase(dev), ~Resting(dev)
    PROVE  InProgress
<1>0. dev.due \in Seq(Calls) /\ DOMAIN dev.due = 1 .. Len(dev.due)
  BY DEF InPhase, Orderly
<1>1. ASSUME NEW c, c.fn \notin Light, c.fn # "cancelled", Last(dev.due, c) \/ Among(dev.due, c)
      PROVE  InProgress
  BY <1>0, <1>1, NotQuiet DEF InProgress, Light
<1>2. ASSUME NEW t, NEW T, Pends(dev, t, T)
      PROVE  InProgress
  <2>1. CASE dev.armed = T \cup {t}
    BY <2>1 DEF InProgress
  <2>2. CASE Last(dev.due, LiveCall(t))
    BY <1>1, <2>2, CallsDiffer DEF Light
  <2> QED
    BY <1>2, <2>1, <2>2 DEF Pends
<1>3. CASE Sending(dev)
  BY <1>3 DEF Sending, InProgress
<1>4. CASE Transmitted(dev)
  BY <1>1, <1>4, CallsDiffer DEF Transmitted, Light
<1>5. CASE Delayed(dev) \/ AckAwaited(dev)
  BY <1>2, <1>5 DEF Delayed, AckAwaited
<1>6. CASE Repeating(dev)
  BY <1>1, <1>6, CallsDiffer DEF Repeating, Light
<1>7. ASSUME NEW slot \in Slots, Awaits(dev, slot)
      PROVE  InProgress
  BY <1>2, <1>7 DEF Awaits
<1>8. ASSUME NEW slot \in Slots, Listens(dev, slot)
      PROVE  InProgress
  BY <1>8 DEF Listens, InProgress
<1>9. ASSUME NEW slot \in Slots, Closes(dev, slot)
      PROVE  InProgress
  BY <1>1, <1>9, CallsDiffer DEF Closes, Light
<1> QED
  BY <1>3, <1>4, <1>5, <1>6, <1>7, <1>8, <1>9 DEF InPhase, Phase, Begun

\* That is the property of a transmission and of a join; and in class A no timer is
\* forgotten.
LEMMA PhaseSays ==
    ASSUME InPhase(dev)
    PROVE  TransmissionUnderway /\ JoinUnderway /\ NoOrphans
<1>1. TransmissionUnderway /\ JoinUnderway
  BY PhaseInProgress DEF TransmissionUnderway, JoinUnderway, Resting
<1> QED
  BY <1>1 DEF InPhase, Orderly, NoOrphans

\* Only its own interrupt ends a transmission.
LEMMA SendingEnds ==
    ASSUME Regular, SessionInv, InPhase(dev), dev.radio = "tx", [Next]_vars
    PROVE  dev'.radio \in {"tx", "standby"}
<1>1. /\ Sending(dev) /\ Orderly(dev)
      /\ dev.tx_ongoing \/ "CONN_IN_PROGRESS" \in dev.flags
      /\ dev.armed = {} /\ Quiet(dev.due) /\ dev.due \in Seq(Calls)
      /\ dev.orphans = {} /\ DOMAIN dev = Fields
  BY DEF InPhase, Orderly, Phase, Begun, Resting, Delayed, Transmitted, Awaits, Listens, Closes,
         AckAwaited, Repeating, Sending, Exchange, Transmits, Joins
<1>2. dev.tx_ongoing <=> dev.nwk_joined
  BY <1>1 DEF Sending, Exchange, Transmits, Joins
<1>3. \A d : Step(d) => dev' = d
  BY DEF Step
<1>4. /\ dev.session_active <=> dev.nwk_joined
      /\ ~({"CONNECTED", "CONN_IN_PROGRESS"} \subseteq dev.flags)
  BY SessionInvIs DEF SessionConsistent
<1>5. ~Idle
  BY DEF Idle
<1>6. CASE Dispatch
  <2>1. dev.due # <<>> => Head(dev.due).fn \in Light
    BY <1>1, QuietTail
  <2>2. EventHandler \/ SendAutomaticUplink
    BY <1>6, <2>1 DEF Dispatch, ProcessTransmission, ProcessTransmissionTimeout, ProcessReception,
          ProcessReceptionTimeout, RepeatForQOS, SkipCancelled, OpenRx1, OpenRx2, Rx2Closure,
          BackoffExpired, AckTimeout, Called, TimerCalled, Light
  <2>3. Popped.radio = "tx" /\ Popped.tx_ongoing = dev.tx_ongoing /\ DOMAIN Popped = Fields
        /\ Popped.session_active = dev.session_active
    BY <1>1 DEF Popped, Fields
  <2>4. CASE EventHandler
    BY <1>3, <2>3, <2>4 DEF EventHandler
  <2>5. CASE SendAutomaticUplink
    <3>1. PICK ch \in Outcomes : dev' = send_automatic_uplink_message(Popped, ch)
      BY <1>3, <2>5 DEF SendAutomaticUplink
    <3>2. dev.nwk_joined
      <4>1. 1 \in 1 .. Len(dev.due) /\ dev.due[1].fn = "send_automatic_uplink_message"
        BY <1>1, <2>5, TailShifts DEF SendAutomaticUplink, Called
      <4> QED
        BY <1>1, <4>1 DEF Orderly
    <3> DEFINE p == Popped
               h == handle_tx(p, AutomaticUplink, "CONFIRMED", ch)
    <3> HIDE DEF p
    <3>3. h = [dev |-> p, status |-> "WOULD_BLOCK"]
      BY <1>2, <1>4, <2>3, <3>2 DEF handle_tx, p
    <3>4. send_automatic_uplink_message(p, ch) = [p EXCEPT !.automatic_uplink_ongoing = FALSE]
      <4>1. h.status = "WOULD_BLOCK" /\ h.dev = p
        BY <3>3
      <4>2. send_automatic_uplink_message(p, ch) =
              CASE h.status = "OK"          -> h.dev
                [] h.status = "WOULD_BLOCK" -> [h.dev EXCEPT !.automatic_uplink_ongoing = FALSE]
                [] h.status = "ERROR"       ->
                     send_event_to_application(h.dev, "AUTOMATIC_UPLINK_ERROR")
        BY DEF send_automatic_uplink_message
      <4> HIDE DEF h
      <4> QED
        BY <4>1, <4>2
    <3> QED
      BY <2>3, <3>1, <3>4 DEF p
  <2> QED
    BY <2>2, <2>4, <2>5
<1>7. CASE Application
  <2>1. CASE Initialize
    BY <1>1, <1>3, <2>1 DEF Initialize, set_state, Fields
  <2>2. ASSUME NEW type \in SendTypes, Send(type)
        PROVE  dev'.radio = "tx"
    <3>1. ~dev.session_active
      BY <1>2, <1>4, <2>2 DEF Send
    <3>2. PICK ch \in Outcomes : dev' = handle_tx(dev, messages + 1, type, ch).dev
      BY <1>3, <2>2 DEF Send
    <3>3. handle_tx(dev, messages + 1, type, ch) = [dev |-> dev, status |-> "ERROR"]
      BY <3>1 DEF handle_tx
    <3> QED
      BY <3>2, <3>3
  <2>3. ~StopSending
    <3>1. clear_tx_pipe(dev).status # "OK"
      BY <1>1 DEF clear_tx_pipe
    <3> QED
      BY <3>1 DEF StopSending
  <2>4. \A otaa \in BOOLEAN : ~Connect(otaa)
    <3>1. dev.nwk_joined => "CONNECTED" \in dev.flags
      BY SessionInvIs DEF SessionConsistent
    <3> QED
      BY <1>1, <1>2, <3>1 DEF Connect
  <2>5. ~Shutdown /\ \A c \in {"A", "C"} : ~SetDeviceClass(c)
    BY <1>5 DEF Regular, Shutdown, SetDeviceClass
  <2> QED
    BY <1>7, <2>1, <2>2, <2>3, <2>4, <2>5 DEF Application
<1>8. CASE Radio
  <2>1. TxDone \/ TxTimeout
    BY <1>8 DEF Radio, RxDone, RxError, RxTimeout, Listening
  <2>2. TxDone
    BY <2>1 DEF TxTimeout, Regular
  <2>3. dev' = post([dev EXCEPT !.radio = "standby"], Sent)
    BY <1>3, <2>2 DEF TxDone, Sent
  <2>4. post([dev EXCEPT !.radio = "standby"], Sent).radio = "standby"
    BY <1>1 DEF post, Fields
  <2> QED
    BY <2>3, <2>4
<1>9. ~Clock
  BY <1>1 DEF Clock, Expire, ExpireOrphan
<1>10. CASE UNCHANGED vars
  BY <1>10 DEF vars
<1> QED
  BY <1>6, <1>7, <1>8, <1>9, <1>10 DEF Next

\* The invariant: the device is in a phase, and the buffer of a frame held while the
\* frame waits.
ExchangeInv == InPhase(dev) /\ FreedInv

LEMMA ExchangeNext ==
    ASSUME Regular, SessionInv, ExchangeInv, [Next]_vars
    PROVE  ExchangeInv'
BY PhaseNext, RegularFreed DEF ExchangeInv

LEMMA ExchangeInit == Init => ExchangeInv
BY PhaseInit, FreedInit DEF ExchangeInv

\* A device built for its conditions is in a phase at every moment.
LEMMA ExchangeInvHolds == Regular /\ Spec => []ExchangeInv
<1> SUFFICES ASSUME Regular PROVE Spec => []ExchangeInv
  OBVIOUS
<1>1. SessionInv /\ ExchangeInv /\ [Next]_vars => ExchangeInv'
  BY ExchangeNext
<1> QED
  BY <1>1, ExchangeInit, SessionInvHolds, PTL DEF Spec

\* No timer is started while it runs: each is stopped, or has expired and been
\* dispatched, before the next exchange starts it.
THEOREM TimersAreOwned == Regular /\ Spec => []NoOrphans
<1> SUFFICES ASSUME Regular PROVE Spec => []NoOrphans
  OBVIOUS
<1>1. ExchangeInv => NoOrphans
  BY PhaseSays DEF ExchangeInv
<1> QED
  BY <1>1, ExchangeInvHolds, PTL

\* A transmission that is not over has something left that goes on with it, through every
\* wait, window, retransmission and repetition: send() never answers WOULD_BLOCK with
\* nothing left that could change that.
THEOREM TransmissionsGoOn == Regular /\ Spec => []TransmissionUnderway
<1> SUFFICES ASSUME Regular PROVE Spec => []TransmissionUnderway
  OBVIOUS
<1>1. ExchangeInv => TransmissionUnderway
  BY PhaseSays DEF ExchangeInv
<1> QED
  BY <1>1, ExchangeInvHolds, PTL

\* So has a join: connect() never answers BUSY with nothing left that could change that.
THEOREM JoinsGoOn == Regular /\ Spec => []JoinUnderway
<1> SUFFICES ASSUME Regular PROVE Spec => []JoinUnderway
  OBVIOUS
<1>1. ExchangeInv => JoinUnderway
  BY PhaseSays DEF ExchangeInv
<1> QED
  BY <1>1, ExchangeInvHolds, PTL

\* Neither a timer nor a call of the application takes the radio from a frame on the
\* air: while the device sends, no timer runs, and the calls that would are refused.
THEOREM TransmissionsAreUndisturbed == Regular /\ Spec => TransmissionUndisturbed
<1> SUFFICES ASSUME Regular PROVE Spec => TransmissionUndisturbed
  OBVIOUS
<1>1. SessionInv /\ ExchangeInv /\ [Next]_vars =>
        [dev.radio = "tx" /\ dev'.radio \notin {"tx", "standby"} =>
           dev'.state = "SHUTDOWN" \/ dev'.device_class # dev.device_class]_vars
  BY SendingEnds DEF ExchangeInv
<1> QED
  BY <1>1, ExchangeInvHolds, SessionInvHolds, PTL DEF Spec, TransmissionUndisturbed

\* The buffer of a downlink is held exactly while the call that frees it waits: there is
\* room for that call whenever a window is open.
THEOREM RxBufferIsAlwaysFreed == Regular /\ Spec => []RxBufferFreed
<1> SUFFICES ASSUME Regular PROVE Spec => []RxBufferFreed
  OBVIOUS
<1>1. SessionInv /\ ExchangeInv => RxBufferFreed
  BY FreedInvIs DEF ExchangeInv
<1> QED
  BY <1>1, ExchangeInvHolds, SessionInvHolds, PTL

-----------------------------------------------------------------------------
(* Downlinks that want an acknowledgement *)

\* The acknowledgement that is owed waits for a frame that waits, or for the next one: the
\* frame on the air has taken its own.
LEMMA OwingCalls ==
    ASSUME NEW d, InPhase(d), d.due # <<>>, d.is_srv_ack_requested, Head(d.due).fn \notin Light
    PROVE  Head(d.due) \in {LiveCall("backoff"), Repetition}
<1>1. Dispatched(d)
  BY PhaseHead
<1> QED
  BY <1>1 DEF Dispatched, Transmitted, Closes, Awaits, AckAwaited

\* A handler keeps it, or puts it on the air; but a downlink decides anew.
LEMMA DispatchKeepsAck ==
    ASSUME Regular, SessionInv, InPhase(dev), Dispatch, ~Called("process_reception")
    PROVE  AckKept(dev, dev')
<1> SUFFICES ASSUME dev.is_srv_ack_requested PROVE AckKept(dev, dev')
  BY DEF AckKept
<1>1. QueueCap >= 6 /\ Outcomes \subseteq Clear
  BY DEF Regular, Clear
<1>2. Popped = Popping(dev)
  BY DEF Popped, Popping
<1>3. \A d : Step(d) => dev' = d
  BY DEF Step
<1>4. dev.session_active <=> dev.nwk_joined
  BY SessionInvIs DEF SessionConsistent
<1>5. \A fn : Called(fn) => dev.due # <<>> /\ Head(dev.due).fn = fn
  BY DEF Called
<1>6. \A fn : Called(fn) /\ fn \notin Light =>
                Head(dev.due) \in {LiveCall("backoff"), Repetition}
  BY <1>5, OwingCalls
<1>7. ~ProcessTransmission /\ ~ProcessTransmissionTimeout /\ ~ProcessReceptionTimeout
      /\ ~ProcessReception /\ ~SkipCancelled
  BY <1>5, <1>6, CallsDiffer
  DEF Light, ProcessTransmission, ProcessTransmissionTimeout, ProcessReceptionTimeout,
      ProcessReception, SkipCancelled
<1>8. ~OpenRx1 /\ ~OpenRx2 /\ ~Rx2Closure /\ \A ch : ~AckTimeout(ch)
  BY <1>5, <1>6, CallsDiffer DEF Light, OpenRx1, OpenRx2, Rx2Closure, AckTimeout, TimerCalled
<1>9. CASE RepeatForQOS
  BY <1>1, <1>2, <1>3, <1>5, <1>9, RepetitionIs, NotDispatched DEF RepeatForQOS
<1>10. CASE SendAutomaticUplink
  BY <1>1, <1>2, <1>3, <1>4, <1>5, <1>10, AutomaticIs DEF SendAutomaticUplink
<1>11. CASE EventHandler
  <2>1. Alters(dev, Popping(dev), {"due"}) /\ dev' = Popping(dev)
    BY <1>2, <1>3, <1>11, PoppingIs DEF EventHandler, InPhase
  <2>2. dev'.is_srv_ack_requested = dev.is_srv_ack_requested
    BY <2>1 DEF Alters, Fields
  <2> QED
    BY <2>2 DEF AckKept
<1>12. ASSUME NEW ch \in Outcomes, BackoffExpired(ch)
       PROVE  AckKept(dev, dev')
  BY <1>1, <1>2, <1>3, <1>5, <1>12, BackoffIs DEF BackoffExpired, TimerCalled
<1> QED
  BY <1>7, <1>8, <1>9, <1>10, <1>11, <1>12 DEF Dispatch

\* So does the application within the session.
LEMMA ApplicationKeepsAck ==
    ASSUME Regular, SessionInv, InPhase(dev), Application
    PROVE  AckKept(dev, dev')
<1>1. QueueCap >= 6 /\ Outcomes \subseteq Clear /\ Patient /\ "class_c" \notin AppCalls
  BY DEF Regular, Clear
<1>2. Orderly(dev)
  BY DEF InPhase
<1>3. \A d : Step(d) => dev' = d
  BY DEF Step
<1>4. /\ dev.session_active <=> dev.nwk_joined
      /\ dev.nwk_joined <=> "CONNECTED" \in dev.flags
      /\ ~({"CONNECTED", "CONN_IN_PROGRESS"} \subseteq dev.flags)
  BY SessionInvIs DEF SessionConsistent
<1>5. ASSUME \/ dev'.is_srv_ack_requested = dev.is_srv_ack_requested
             \/ ~dev'.nwk_joined
      PROVE  AckKept(dev, dev')
  BY <1>5 DEF AckKept
<1>6. CASE Initialize
  <2>1. dev' = [dev EXCEPT !.state = "IDLE"]
    BY <1>3, <1>6 DEF Initialize, set_state
  <2>2. dev'.is_srv_ack_requested = dev.is_srv_ack_requested
    BY <1>2, <2>1 DEF Orderly, Fields
  <2> QED
    BY <1>5, <2>2
<1>7. ASSUME NEW otaa \in BOOLEAN, Connect(otaa)
      PROVE  AckKept(dev, dev')
  <2>1. ~dev.nwk_joined /\ "CONN_IN_PROGRESS" \notin dev.flags
    BY <1>4, <1>7 DEF Connect
  <2>2. Resting(dev) /\ dev.due = <<>>
    BY <1>2, <1>7, <2>1, FreeRests, HeardNothing DEF Connect, Heard
  <2>3. PICK ch \in Outcomes : dev' = connect(dev, otaa, ch)
    BY <1>3, <1>7 DEF Connect
  <2>4. CASE otaa = TRUE
    BY <1>1, <1>2, <1>5, <2>2, <2>3, <2>4, ConnectOtaaIs
  <2>5. CASE otaa = FALSE
    BY <1>1, <1>2, <1>5, <2>2, <2>3, <2>5, ConnectAbpIs
  <2> QED
    BY <2>4, <2>5
<1>8. ASSUME NEW type \in SendTypes, Send(type)
      PROVE  AckKept(dev, dev')
  <2>1. PICK ch \in Outcomes : dev' = handle_tx(dev, messages + 1, type, ch).dev
    BY <1>3, <1>8 DEF Send
  <2>2. ~dev.tx_ongoing
    BY <1>8 DEF Send
  <2>3. CASE "CONN_IN_PROGRESS" \in dev.flags
    <3>1. ~dev.session_active
      BY <1>4, <2>3
    <3>2. handle_tx(dev, messages + 1, type, ch).dev = dev
      BY <3>1 DEF handle_tx
    <3> QED
      BY <1>5, <2>1, <3>2
  <2>4. CASE "CONN_IN_PROGRESS" \notin dev.flags
    BY <1>1, <1>2, <2>1, <2>2, <2>4, FreeRests, HandleTxIs
  <2> QED
    BY <2>3, <2>4
<1>9. CASE StopSending
  BY <1>1, <1>3, <1>5, <1>9, StopSendingIs DEF StopSending
<1>10. CASE Shutdown
  <2>1. Resting(dev) /\ dev.due = <<>>
    BY <1>1, <1>10, FreeRests DEF Shutdown, Idle
  <2> QED
    BY <1>1, <1>2, <1>3, <1>5, <1>10, <2>1, ShutdownIs DEF Shutdown
<1>11. ASSUME NEW c \in {"A", "C"}, SetDeviceClass(c)
       PROVE  AckKept(dev, dev')
  BY <1>1, <1>2, <1>11 DEF SetDeviceClass, Orderly
<1> QED
  BY <1>6, <1>7, <1>8, <1>9, <1>10, <1>11 DEF Application

\* The radio works only when nothing is owed; the clock has nothing to do with it.
LEMMA NextKeepsAck ==
    ASSUME Regular, SessionInv, FreedInv, InPhase(dev), [Next]_vars, ~Called("process_reception")
    PROVE  AckKept(dev, dev')
<1>1. CASE Radio
  <2>1. dev.radio \in {"tx", "rx"}
    BY <1>1, ListeningIs DEF Radio, TxDone, TxTimeout, RxDone, RxError, RxTimeout
  <2>2. ~dev.is_srv_ack_requested
    BY <2>1 DEF InPhase, Phase, Resting, Begun, Sending, Delayed, Transmitted, Awaits, Listens,
                Closes, AckAwaited, Repeating
  <2> QED
    BY <2>2 DEF AckKept
<1>2. CASE Clock
  <2>1. PICK t \in Timers : Expire(t) \/ ExpireOrphan(t)
    BY <1>2 DEF Clock
  <2>2. dev' = [dev EXCEPT !.armed = dev.armed \ {t}, !.due = Append(dev.due, LiveCall(t))]
    BY <2>1 DEF Expire, ExpireOrphan, Step, InPhase, Orderly
  <2>3. dev'.is_srv_ack_requested = dev.is_srv_ack_requested
    BY <2>2 DEF InPhase, Orderly, Fields
  <2> QED
    BY <2>3 DEF AckKept
<1>3. CASE UNCHANGED vars
  BY <1>3 DEF vars, AckKept
<1> QED
  BY <1>1, <1>2, <1>3, DispatchKeepsAck, ApplicationKeepsAck DEF Next

\* No message is proprietary if the application sends none.
TypeInv == MessageInv /\ dev.tx_type # "PROPRIETARY"

LEMMA TypeNext ==
    ASSUME Regular, "PROPRIETARY" \notin SendTypes, SessionInv, TypeInv, [Next]_vars
    PROVE  TypeInv'
<1>1. Steady
  BY DEF Regular, Steady
<1> QED
  BY <1>1, MessageNext DEF TypeInv

LEMMA TypeInit == Init => TypeInv
BY MessageInit DEF Init, NewDevice, TypeInv

\* The acknowledgement of a confirmed downlink is not forgotten: if the wait for the duty
\* cycle, a cancelled message or a repetition comes in between, the next frame that is on the
\* air carries it.  (A proprietary frame has no place for it.)
THEOREM AcknowledgementsAreKept ==
    Regular /\ "PROPRIETARY" \notin SendTypes /\ Spec => AcknowledgementKept
<1> SUFFICES ASSUME Regular, "PROPRIETARY" \notin SendTypes PROVE Spec => AcknowledgementKept
  OBVIOUS
<1>1. SessionInv /\ TypeInv /\ [Next]_vars => TypeInv'
  BY TypeNext
<1>2. SessionInv /\ ExchangeInv /\ TypeInv /\ TypeInv' /\ [Next]_vars =>
        [dev.is_srv_ack_requested /\ ~dev'.is_srv_ack_requested =>
           \/ dev'.radio = "tx" /\ dev'.tx_buffer.ack
           \/ Called("process_reception")
           \/ ~dev'.nwk_joined]_vars
  <2> SUFFICES ASSUME SessionInv, ExchangeInv, TypeInv', [Next]_vars,
                      ~Called("process_reception")
               PROVE  dev.is_srv_ack_requested /\ ~dev'.is_srv_ack_requested =>
                        \/ dev'.radio = "tx" /\ dev'.tx_buffer.ack
                        \/ ~dev'.nwk_joined
    OBVIOUS
  <2>1. AckKept(dev, dev')
    BY NextKeepsAck DEF ExchangeInv
  <2> QED
    BY <2>1 DEF AckKept, TypeInv
<1> QED
  BY <1>1, <1>2, TypeInit, ExchangeInvHolds, SessionInvHolds, PTL DEF Spec, AcknowledgementKept

-----------------------------------------------------------------------------
(* Reports *)

\* The network does not ask for an uplink, with a pending downlink or a command whose answer
\* is repeated.
Unprompted == \A f \in Downlinks : ~f.fpending /\ ~f.sticky

\* What is owed is on its way, or promised.
OwedInv == Manual(dev) /\ owed = Account(dev)

\* A message that is accepted is promised a report.
LEMMA HandleTxOwes ==
    ASSUME QueueCap >= 6, NEW d, Orderly(d), Resting(d), Manual(d), NEW msg \in Nat,
           msg # AutomaticUplink, NEW type, NEW ch \in Clear
    PROVE  LET r == handle_tx(d, msg, type, ch)
           IN  /\ Manual(r.dev)
               /\ Account(r.dev) = Account(d) + (IF r.status = "OK" THEN 1 ELSE 0)
<1> DEFINE r == handle_tx(d, msg, type, ch)
<1>1. /\ r.dev.due = d.due /\ Alters(d, r.dev, SchedFields \cup HandleFields)
      /\ \/ r.status = "OK" /\ Begun(r.dev) /\ r.dev.tx_ongoing /\ r.dev.tx_msg = msg
         \/ r.status = "ERROR" /\ Resting(r.dev)
  <2>1. /\ Orderly(r.dev) /\ r.dev.due = d.due
        /\ Alters(d, r.dev, SchedFields \cup HandleFields) /\ AckKept(d, r.dev)
        /\ r.dev.tx_type \in {d.tx_type, type}
        /\ SameLink(d, r.dev) /\ (r.status = "OK" => d.nwk_joined)
        /\ \/ r.status = "OK" /\ Begun(r.dev) /\ r.dev.tx_ongoing /\ r.dev.tx_msg = msg
           \/ r.status = "ERROR" /\ Resting(r.dev)
    BY Zenon, HandleTxIs
  <2> QED
    BY <2>1
<1> HIDE DEF r
<1> DEFINE F == SchedFields \cup HandleFields
<1>2. "automatic_uplink_ongoing" \notin F /\ "mlme_ind_pending" \notin F
  BY DEF SchedFields, HandleFields, SendFields, TxFields, FrameFields
<1> HIDE DEF F
<1>3. /\ r.dev.automatic_uplink_ongoing = d.automatic_uplink_ongoing
      /\ r.dev.mlme_ind_pending = d.mlme_ind_pending
  <2>1. Alters(d, r.dev, F)
    BY <1>1 DEF F
  <2> QED
    BY <1>2, <2>1 DEF Alters, Fields
<1>4. Promised(d) = 0 /\ Promised(r.dev) = IF r.status = "OK" THEN 1 ELSE 0
  BY <1>1 DEF Promised, Resting
<1>5. r.dev.tx_ongoing => r.dev.tx_msg # AutomaticUplink
  BY <1>1 DEF Resting
<1>6. Count(d.due) \in Nat
  BY CountNat DEF Orderly
<1> QED
  BY <1>1, <1>3, <1>4, <1>5, <1>6 DEF Manual, Account, r

\* A handler balances what it takes from the queue, if it does not tell of an event.
LEMMA DispatchBalances ==
    ASSUME Regular, Unprompted, InPhase(dev), OwedInv, Dispatch
    PROVE  \/ EventHandler
           \/ /\ Balances(Popping(dev), dev') /\ owed' = owed
              /\ dev.due # <<>> /\ Head(dev.due).fn # "event"
<1>1. QueueCap >= 6 /\ Outcomes \subseteq Clear
  BY DEF Regular, Clear
<1>2. Popped = Popping(dev)
  BY DEF Popped, Popping
<1>3. \A d : Step(d) => dev' = d
  BY DEF Step
<1>4. \A fn : Called(fn) => dev.due # <<>> /\ Head(dev.due).fn = fn
  BY DEF Called
<1>5. dev.due \in Seq(Calls)
  BY DEF InPhase, Orderly
<1> DEFINE Balanced == /\ Balances(Popping(dev), dev') /\ owed' = owed
                       /\ dev.due # <<>> /\ Head(dev.due).fn # "event"
<1>6. ASSUME NEW fn, Called(fn), fn # "event", Balances(Popping(dev), dev'), owed' = owed
      PROVE  Balanced
  BY <1>4, <1>6
<1> HIDE DEF Balanced
<1>7. SUFFICES ASSUME ~EventHandler
               PROVE  Balanced
  BY DEF Balanced
<1>8. CASE ProcessTransmission
  BY <1>1, <1>2, <1>3, <1>4, <1>6, <1>8, ProcessTransmissionIs DEF ProcessTransmission
<1>9. CASE ProcessReception
  <2>1. Called("process_reception") /\ Head(dev.due).frame \in Downlinks
    <3>1. Head(dev.due).fn \notin Light
      BY <1>4, <1>9 DEF ProcessReception, Light
    <3>2. Dispatched(dev) /\ Head(dev.due).fn = "process_reception"
      BY <1>4, <1>9, <3>1, PhaseHead DEF ProcessReception
    <3>3. PICK f \in Downlinks : Head(dev.due) = Reception(f)
      BY <3>2, CallsDiffer DEF Dispatched
    <3> QED
      BY <1>9, <3>3, CallsDiffer DEF ProcessReception
  <2>2. PICK ch \in Clear : dev' = process_reception(Popping(dev), Head(dev.due).frame, ch)
    BY <1>1, <1>2, <1>3, <1>9 DEF ProcessReception
  <2>3. Balances(Popping(dev), dev')
    BY <1>4, <2>1, <2>2, FrameTakenIs DEF Unprompted
  <2> QED
    BY <1>6, <1>9, <2>1, <2>3 DEF ProcessReception
<1>10. CASE ProcessReceptionTimeout
  <2>1. Balances(Popping(dev), dev')
    BY <1>1, <1>2, <1>3, <1>4, <1>10, ReceptionTimeoutIs DEF ProcessReceptionTimeout
  <2> QED
    BY <1>6, <1>10, <2>1 DEF ProcessReceptionTimeout
<1>11. CASE RepeatForQOS
  <2>1. Balances(Popping(dev), dev')
    BY <1>1, <1>2, <1>3, <1>4, <1>11, RepetitionIs, NotDispatched DEF RepeatForQOS
  <2> QED
    BY <1>6, <1>11, <2>1 DEF RepeatForQOS
<1>12. CASE OpenRx1
  BY <1>2, <1>3, <1>4, <1>6, <1>12, OpenRx1Is DEF OpenRx1, TimerCalled
<1>13. CASE OpenRx2
  BY <1>2, <1>3, <1>4, <1>6, <1>13, OpenRx2Is DEF OpenRx2, TimerCalled
<1>14. ASSUME NEW ch \in Outcomes, BackoffExpired(ch)
       PROVE  Balanced
  <2>1. Balances(Popping(dev), dev')
    BY <1>1, <1>2, <1>3, <1>4, <1>14, BackoffIs DEF BackoffExpired, TimerCalled
  <2> QED
    BY <1>6, <1>14, <2>1 DEF BackoffExpired, TimerCalled
<1>15. ASSUME NEW ch \in [1 .. 3 -> Outcomes], AckTimeout(ch)
       PROVE  Balanced
  <2>1. ch[1] \in Clear
    BY <1>1
  <2>2. Balances(Popping(dev), dev')
    BY <1>1, <1>2, <1>3, <1>4, <1>15, <2>1, AckTimeoutIs DEF AckTimeout, TimerCalled
  <2> QED
    BY <1>6, <1>15, <2>2 DEF AckTimeout, TimerCalled
<1>16. ~SendAutomaticUplink
  <2>1. dev.due # <<>> => 1 \in 1 .. Len(dev.due) /\ Head(dev.due) = dev.due[1]
    BY <1>5, TailShifts
  <2> QED
    BY <1>4, <2>1 DEF SendAutomaticUplink, OwedInv, Manual
<1>17. ~ProcessTransmissionTimeout /\ ~SkipCancelled /\ ~Rx2Closure
  BY <1>4, NotDispatched DEF ProcessTransmissionTimeout, SkipCancelled, Rx2Closure, TimerCalled
<1> QED
  BY <1>7, <1>8, <1>9, <1>10, <1>11, <1>12, <1>13, <1>14, <1>15, <1>16, <1>17 DEF Dispatch

\* A handler turns what was promised into a report, or tells of one.
LEMMA DispatchOwes ==
    ASSUME Regular, Unprompted, SessionInv, InPhase(dev), OwedInv, Dispatch
    PROVE  OwedInv'
<1>5. dev.due \in Seq(Calls) /\ DOMAIN dev = Fields
  BY DEF InPhase, Orderly
<1>6. dev.due # <<>> => /\ Manual(Popping(dev))
                        /\ Account(dev) = Account(Popping(dev))
                                            + (IF IsReport(Head(dev.due)) THEN 1 ELSE 0)
  BY <1>5, PoppingBalances DEF OwedInv
<1>7. Account(Popping(dev)) \in Int \/ dev.due = <<>>
  <2>1. ASSUME dev.due # <<>>
        PROVE  Account(Popping(dev)) \in Int
    <3>1. Popping(dev).due \in Seq(Calls)
      BY <1>5, <2>1, TailShifts DEF Popping, Fields
    <3> QED
      BY <3>1, CountNat DEF Account, Promised
  <2> QED
    BY <2>1
<1>8. CASE /\ Balances(Popping(dev), dev') /\ owed' = owed
           /\ dev.due # <<>> /\ Head(dev.due).fn # "event"
  <2>1. ~IsReport(Head(dev.due)) /\ dev.due # <<>>
    BY <1>8 DEF IsReport, IsEvent
  <2>2. Manual(dev') /\ Account(dev') = Account(Popping(dev))
    BY <1>6, <1>8, <2>1 DEF Balances, Pays
  <2>3. Account(dev') = Account(dev)
    BY <1>6, <1>7, <2>1, <2>2
  <2> QED
    BY <1>8, <2>2, <2>3 DEF OwedInv, Manual, Account, Promised, Count, Announced, EventsIn
<1>9. CASE EventHandler
  <2>1. dev' = Popping(dev) /\ dev.due # <<>> /\ Head(dev.due).fn = "event"
    BY <1>9 DEF EventHandler, Called, Step, Popped, Popping
  <2>2. owed' = IF IsReport(Head(dev.due)) THEN owed - 1 ELSE owed
    BY <1>9, <2>1 DEF EventHandler, IsReport, IsEvent
  <2>3. Manual(dev') /\ owed' = Account(dev')
    BY <1>6, <1>7, <2>1, <2>2 DEF OwedInv
  <2> QED
    BY <2>3 DEF OwedInv, Manual, Account, Promised, Count, Announced, EventsIn
<1> QED
  BY <1>8, <1>9, DispatchBalances

\* What the application submits, or takes back, it is owed, or no longer.
LEMMA ApplicationOwes ==
    ASSUME Regular, SessionInv, InPhase(dev), OwedInv, Application
    PROVE  OwedInv'
<1>1. QueueCap >= 6 /\ Outcomes \subseteq Clear /\ Patient /\ "class_c" \notin AppCalls
  BY DEF Regular, Clear
<1>2. Orderly(dev) /\ Manual(dev) /\ owed = Account(dev) /\ messages \in Nat
  BY DEF InPhase, OwedInv, SessionInv, Sound, HistoryOK
<1>3. \A d : Step(d) => dev' = d
  BY DEF Step
<1>4. /\ dev.session_active <=> dev.nwk_joined
      /\ dev.nwk_joined <=> "CONNECTED" \in dev.flags
      /\ ~({"CONNECTED", "CONN_IN_PROGRESS"} \subseteq dev.flags)
  BY SessionInvIs DEF SessionConsistent
<1> DEFINE Due == Manual(dev') /\ owed' = Account(dev')
<1>5. ASSUME Pays(dev, dev'), owed' = owed
      PROVE  Due
  BY <1>2, <1>5 DEF Pays
<1> SUFFICES Due
  BY DEF OwedInv, Manual, Account, Promised, Count, Announced, EventsIn
<1>6. CASE Initialize
  <2>1. Alters(dev, dev', {"state"})
    BY <1>2, <1>3, <1>6 DEF Initialize, set_state, Alters, Fields, Orderly
  <2> QED
    BY <1>5, <1>6, <2>1, AltersPays DEF Initialize
<1>7. ASSUME NEW otaa \in BOOLEAN, Connect(otaa)
      PROVE  Due
  <2>1. ~dev.nwk_joined /\ "CONN_IN_PROGRESS" \notin dev.flags /\ owed' = owed
    BY <1>4, <1>7 DEF Connect
  <2>2. Resting(dev) /\ dev.due = <<>>
    BY <1>2, <1>7, <2>1, FreeRests, HeardNothing DEF Connect, Heard
  <2>3. PICK ch \in Outcomes : dev' = connect(dev, otaa, ch)
    BY <1>3, <1>7 DEF Connect
  <2>4. CASE otaa = TRUE
    BY <1>1, <1>2, <1>5, <2>1, <2>2, <2>3, <2>4, ConnectOtaaIs
  <2>5. CASE otaa = FALSE
    BY <1>1, <1>2, <1>5, <2>1, <2>2, <2>3, <2>5, ConnectAbpIs
  <2> QED
    BY <2>4, <2>5
<1>8. ASSUME NEW type \in SendTypes, Send(type)
      PROVE  Due
  <2>1. PICK ch \in Outcomes :
          /\ dev' = handle_tx(dev, messages + 1, type, ch).dev
          /\ owed' = IF handle_tx(dev, messages + 1, type, ch).status = "OK" THEN owed + 1 ELSE owed
    BY <1>3, <1>8 DEF Send
  <2>2. ~dev.tx_ongoing /\ messages + 1 \in Nat /\ messages + 1 # AutomaticUplink
    BY <1>2, <1>8 DEF Send, AutomaticUplink
  <2>3. CASE "CONN_IN_PROGRESS" \in dev.flags
    <3>1. ~dev.session_active
      BY <1>4, <2>3
    <3>2. handle_tx(dev, messages + 1, type, ch) = [dev |-> dev, status |-> "ERROR"]
      BY <3>1 DEF handle_tx
    <3> QED
      BY <1>2, <2>1, <3>2
  <2>4. CASE "CONN_IN_PROGRESS" \notin dev.flags
    <3> DEFINE r == handle_tx(dev, messages + 1, type, ch)
    <3>1. Manual(r.dev) /\ Account(r.dev) = Account(dev) + (IF r.status = "OK" THEN 1 ELSE 0)
      BY <1>1, <1>2, <2>1, <2>2, <2>4, FreeRests, HandleTxOwes
    <3>2. dev' = r.dev /\ owed' = IF r.status = "OK" THEN owed + 1 ELSE owed
      BY <2>1
    <3> HIDE DEF r
    <3>3. Account(dev) \in Int
      BY <1>2, CountNat DEF Account, Promised, Orderly
    <3> QED
      BY <1>2, <3>1, <3>2, <3>3
  <2> QED
    BY <2>3, <2>4
<1>9. CASE StopSending
  <2>1. dev' = stop_sending(dev) /\ owed' = owed - 1
    BY <1>1, <1>3, <1>9 DEF StopSending
  <2> QED
    BY <1>1, <1>2, <1>9, <2>1, StopSendingIs DEF StopSending
<1>10. CASE Shutdown
  <2>1. Resting(dev) /\ dev.due = <<>>
    BY <1>1, <1>10, FreeRests DEF Shutdown, Idle
  <2> QED
    BY <1>1, <1>2, <1>3, <1>5, <1>10, <2>1, ShutdownIs DEF Shutdown
<1>11. ASSUME NEW c \in {"A", "C"}, SetDeviceClass(c)
       PROVE  Due
  BY <1>1, <1>2, <1>11 DEF SetDeviceClass, Orderly
<1> QED
  BY <1>6, <1>7, <1>8, <1>9, <1>10, <1>11 DEF Application

\* The radio and the clock promise nothing.
LEMMA RadioBalances ==
    ASSUME Regular, SessionInv, ExchangeInv, Radio \/ Clock
    PROVE  Balances(dev, dev') /\ owed' = owed
<1>1. QueueCap >= 6 /\ DOMAIN dev = Fields /\ "tx_timeout" \notin RadioFaults
  BY DEF Regular, ExchangeInv, InPhase, Orderly
<1>2. InPhase(dev) /\ FreedInv
  BY DEF ExchangeInv
<1>3. \A d : Step(d) => dev' = d
  BY DEF Step
<1>5. CASE Radio
  <2>1. owed' = owed
    BY <1>5 DEF Radio, TxDone, TxTimeout, RxDone, RxError, RxTimeout
  <2>2. CASE TxDone
    <3>1. dev.radio = "tx" /\ dev' = post([dev EXCEPT !.radio = "standby"], Sent)
      BY <1>3, <2>2 DEF TxDone, Sent
    <3>2. Balances(dev, dev')
      BY <1>1, <1>2, <3>1, TxDoneIs
    <3> QED
      BY <2>1, <3>2
  <2>3. ASSUME dev.radio = "rx"
        PROVE  LET e == AfterReception(dev)
                   x == [e EXCEPT !.rx_payload_in_use = TRUE]
               IN  /\ Alters(dev, e, {"radio", "rx_payload_in_use"}) /\ e.radio = "standby"
                   /\ Alters(dev, x, {"radio", "rx_payload_in_use"}) /\ x.radio = "standby"
    BY <1>1, <2>3 DEF AfterReception, Alters, Fields
  <2>4. ASSUME NEW f \in Downlinks, RxDone(f)
        PROVE  Balances(dev, dev')
    <3>1. dev.radio = "rx" /\ Receivable(dev, f)
      BY <1>2, <2>4, ListeningIs, ArrivesReceivable DEF RxDone
    <3>2. dev' = post([AfterReception(dev) EXCEPT !.rx_payload_in_use = TRUE], Reception(f))
      BY <1>2, <2>4, ArrivalIs
    <3> QED
      BY <1>1, <1>2, <2>3, <3>1, <3>2, WindowCloses
  <2>5. CASE RxError
    <3>1. dev.radio = "rx" /\ dev' = post(AfterReception(dev), Silence(FALSE))
      BY <1>2, <1>3, <2>5, ListeningIs DEF RxError, Silence
    <3>2. Balances(dev, dev')
      BY <1>1, <1>2, <2>3, <3>1, WindowCloses
    <3> QED
      BY <2>1, <3>2
  <2>6. CASE RxTimeout
    <3>1. dev.radio = "rx" /\ dev' = post(AfterReception(dev), Silence(TRUE))
      BY <1>3, <2>6 DEF RxTimeout, Silence
    <3>2. Balances(dev, dev')
      BY <1>1, <1>2, <2>3, <3>1, WindowCloses
    <3> QED
      BY <2>1, <3>2
  <2> QED
    BY <1>1, <1>5, <2>1, <2>2, <2>4, <2>5, <2>6 DEF Radio, TxTimeout
<1>6. CASE Clock
  <2>1. PICK t \in Timers : Expire(t) \/ ExpireOrphan(t)
    BY <1>6 DEF Clock
  <2>2. Expire(t)
    BY <1>2, <2>1 DEF InPhase, Orderly, ExpireOrphan
  <2>3. /\ t \in dev.armed /\ Before(t) \cap dev.armed = {} /\ owed' = owed
        /\ t \in {"backoff", "rx1"} \/ Settled(dev)
        /\ dev' = [dev EXCEPT !.armed = dev.armed \ {t}, !.due = Append(dev.due, LiveCall(t))]
    BY <2>2 DEF Expire, Step, Regular
  <2>4. LET e == [dev EXCEPT !.armed = dev.armed \ {t}, !.due = Append(dev.due, LiveCall(t))]
        IN  InPhase(e) /\ Balances(dev, e)
    BY Zenon, <1>2, <2>3, ExpireIs
  <2> QED
    BY <2>3, <2>4
<1> QED
  BY <1>5, <1>6

\* So at any time what is owed is on its way, or promised.
LEMMA OwedNext ==
    ASSUME Regular, Unprompted, SessionInv, ExchangeInv, OwedInv, [Next]_vars
    PROVE  OwedInv'
<1>1. InPhase(dev)
  BY DEF ExchangeInv
<1>2. CASE Radio \/ Clock
  <2>1. Manual(dev') /\ owed' = Account(dev')
    BY <1>2, RadioBalances DEF OwedInv, Balances, Pays
  <2> QED
    BY <2>1 DEF OwedInv, Manual, Account, Promised, Count, Announced, EventsIn
<1>3. CASE UNCHANGED vars
  BY <1>3 DEF vars, OwedInv, Manual, Account, Promised, Count, Announced, EventsIn
<1> QED
  BY <1>1, <1>2, <1>3, DispatchOwes, ApplicationOwes DEF Next

\* A new device owes nothing.
LEMMA OwedInit == Init => OwedInv
BY CountEmpty DEF Init, NewDevice, OwedInv, Manual, Account, Promised

\* Every message that is accepted is reported exactly once, or cancelled: at any time its
\* report is still promised, is on its way, or has been heard.
THEOREM MessagesAreReportedOnce == Regular /\ Unprompted /\ Spec => []ReportedOnce
<1> SUFFICES ASSUME Regular, Unprompted PROVE Spec => []ReportedOnce
  OBVIOUS
<1>1. SessionInv /\ ExchangeInv /\ OwedInv /\ [Next]_vars => OwedInv'
  BY OwedNext
<1>2. ExchangeInv /\ OwedInv => ReportedOnce
  <2> SUFFICES ASSUME ExchangeInv, OwedInv PROVE ReportedOnce
    OBVIOUS
  <2>1. dev.due \in Seq(Calls)
    BY DEF ExchangeInv, InPhase, Orderly
  <2>2. EventsDue(Reports) = Count(dev.due)
    BY <2>1, EventsDueIs DEF Count, Announced
  <2> QED
    BY <2>2 DEF OwedInv, Account, Promised, ReportedOnce
<1> QED
  BY <1>1, <1>2, OwedInit, ExchangeInvHolds, SessionInvHolds, PTL DEF Spec

-----------------------------------------------------------------------------
(* The service *)

LinkOf(d) ==
    CASE "CONNECTED" \in d.flags        -> "up"
      [] "CONN_IN_PROGRESS" \in d.flags -> "joining"
      [] OTHER                          -> "down"

\* What the service shows of the device.
Shows(d, link, busy, answers, reports, counter) ==
    /\ LinkOf(d) = link
    /\ d.tx_ongoing = busy
    /\ Replied(d.due) = answers
    /\ Count(d.due) = reports
    /\ d.ul_frame_counter = counter

\* A device is shown, whatever it does.
LEMMA ShowsItself ==
    ASSUME NEW d
    PROVE  Shows(d, LinkOf(d), d.tx_ongoing, Replied(d.due), Count(d.due), d.ul_frame_counter)
BY DEF Shows

\* The steps of the service, by what they show.
LEMMA ShownStep ==
    ASSUME dev.due \in Seq(Calls), dev'.due \in Seq(Calls), dev.tx_ongoing \in BOOLEAN,
           NEW l, NEW b, NEW a, NEW r, NEW n, Shows(dev, l, b, a, r, n),
           \/ Shows(dev', l, b, a, r, n)
           \/ l = "down" /\ Shows(dev', "joining", b, a, r, 0)
           \/ l = "down" /\ Shows(dev', "up", b, a + 1, r, n)
           \/ l = "joining" /\ \E k \in {"up", "down"} : Shows(dev', k, b, a + 1, r, n)
           \/ l # "joining" /\ ~b /\ Shows(dev', "down", b, a + 1, r, n)
           \/ l = "up" /\ ~b /\ Shows(dev', l, TRUE, a, r, n)
           \/ b /\ Shows(dev', l, FALSE, a, r + 1, n + 1)
           \/ b /\ Shows(dev', l, FALSE, a, r, n)
           \/ a > 0 /\ Shows(dev', l, b, a - 1, r, n)
           \/ r > 0 /\ Shows(dev', l, b, a, r - 1, n)
    PROVE  Service!Next \/ UNCHANGED Service!vars
<1>1. /\ EventsDue({"CONNECTED", "JOIN_FAILURE", "DISCONNECTED"}) = Replied(dev.due)
      /\ EventsDue(Reports) = Count(dev.due)
  BY EventsDueIs DEF Replied, Count, Announced, Replies
<1>2. /\ EventsDue({"CONNECTED", "JOIN_FAILURE", "DISCONNECTED"})' = Replied(dev'.due)
      /\ EventsDue(Reports)' = Count(dev'.due)
  <2>1. DOMAIN dev'.due = 1 .. Len(dev'.due)
    OBVIOUS
  <2> QED
    BY <2>1 DEF Replied, Count, Announced, Replies, Reports, EventsDue, EventsIn
<1>3. CASE Shows(dev', l, b, a, r, n)
  <2>1. UNCHANGED Service!vars
    BY <1>1, <1>2, <1>3 DEF Shows, LinkOf, Service!vars
  <2> QED
    BY <2>1
<1>4. CASE l = "down" /\ Shows(dev', "joining", b, a, r, 0)
  <2>1. Service!Join
    BY <1>1, <1>2, <1>4 DEF Shows, LinkOf, Service!Join
  <2> QED
    BY <2>1 DEF Service!Next
<1>5. CASE l = "down" /\ Shows(dev', "up", b, a + 1, r, n)
  <2>1. Service!Personalize
    BY <1>1, <1>2, <1>5 DEF Shows, LinkOf, Service!Personalize
  <2> QED
    BY <2>1 DEF Service!Next
<1>6. CASE l = "joining" /\ \E k \in {"up", "down"} : Shows(dev', k, b, a + 1, r, n)
  <2>1. Service!JoinOver
    BY <1>1, <1>2, <1>6 DEF Shows, LinkOf, Service!JoinOver
  <2> QED
    BY <2>1 DEF Service!Next
<1>7. CASE l # "joining" /\ ~b /\ Shows(dev', "down", b, a + 1, r, n)
  <2>1. Service!Disconnect
    BY <1>1, <1>2, <1>7 DEF Shows, LinkOf, Service!Disconnect
  <2> QED
    BY <2>1 DEF Service!Next
<1>8. CASE l = "up" /\ ~b /\ Shows(dev', l, TRUE, a, r, n)
  <2>1. Service!Submit
    BY <1>1, <1>2, <1>8 DEF Shows, LinkOf, Service!Submit
  <2> QED
    BY <2>1 DEF Service!Next
<1>9. CASE b /\ Shows(dev', l, FALSE, a, r + 1, n + 1)
  <2>1. Service!Complete
    BY <1>1, <1>2, <1>9 DEF Shows, LinkOf, Service!Complete
  <2> QED
    BY <2>1 DEF Service!Next
<1>10. CASE b /\ Shows(dev', l, FALSE, a, r, n)
  <2>1. Service!Cancel
    BY <1>1, <1>2, <1>10 DEF Shows, LinkOf, Service!Cancel
  <2> QED
    BY <2>1 DEF Service!Next
<1>11. CASE a > 0 /\ Shows(dev', l, b, a - 1, r, n)
  <2>1. Service!HearAnswer
    BY <1>1, <1>2, <1>11 DEF Shows, LinkOf, Service!HearAnswer
  <2> QED
    BY <2>1 DEF Service!Next
<1>12. CASE r > 0 /\ Shows(dev', l, b, a, r - 1, n)
  <2>1. Service!HearReport
    BY <1>1, <1>2, <1>12 DEF Shows, LinkOf, Service!HearReport
  <2> QED
    BY <2>1 DEF Service!Next
<1> QED
  BY <1>3, <1>4, <1>5, <1>6, <1>7, <1>8, <1>9, <1>10, <1>11, <1>12

\* A device that joins sends no message.
LEMMA JoiningIs ==
    ASSUME NEW d, InPhase(d), "CONN_IN_PROGRESS" \in d.flags
    PROVE  ~d.tx_ongoing
BY DEF InPhase, Phase, Begun, Sending, Delayed, Transmitted, Awaits, Listens, Closes,
       AckAwaited, Repeating, Exchange, Transmits, Joins, Resting

\* A step by which nothing is owed more, or less, ends an attempt to connect, or a
\* message, or is not seen.
LEMMA BalancesShown ==
    ASSUME SessionInv, SessionInv', InPhase(dev), InPhase(dev'), OwedInv, Balances(dev, dev')
    PROVE  Service!Next \/ UNCHANGED Service!vars
<1>1. /\ dev.due \in Seq(Calls) /\ dev'.due \in Seq(Calls)
      /\ dev.tx_ongoing \in BOOLEAN /\ dev'.tx_ongoing \in BOOLEAN
      /\ dev.ul_frame_counter \in Nat /\ dev'.ul_frame_counter \in Nat
      /\ ~({"CONNECTED", "CONN_IN_PROGRESS"} \subseteq dev.flags)
      /\ ~({"CONNECTED", "CONN_IN_PROGRESS"} \subseteq dev'.flags)
  BY DEF InPhase, Orderly, SessionInv, Sound, Devices
<1>2. /\ Manual(dev) /\ Manual(dev') /\ Account(dev') = Account(dev) /\ Settles(dev, dev')
  BY DEF OwedInv, Balances, Pays
<1>3. /\ Count(dev.due) \in Nat /\ Replied(dev.due) \in Nat
      /\ Count(dev'.due) \in Nat /\ Replied(dev'.due) \in Nat
  BY <1>1, CountNat
<1>4. /\ Promised(dev) = IF dev.tx_ongoing THEN 1 ELSE 0
      /\ Promised(dev') = IF dev'.tx_ongoing THEN 1 ELSE 0
  BY <1>2 DEF Manual, Promised
<1> DEFINE l == LinkOf(dev)
           b == dev.tx_ongoing
           a == Replied(dev.due)
           r == Count(dev.due)
           n == dev.ul_frame_counter
<1>5. Shows(dev, l, b, a, r, n)
  BY ShowsItself
<1>6. CASE dev'.tx_ongoing = dev.tx_ongoing
  <2>1. Count(dev'.due) = Count(dev.due) /\ dev'.ul_frame_counter = dev.ul_frame_counter
    BY <1>1, <1>2, <1>3, <1>4, <1>6 DEF Account, Settles, Tally
  <2>2. CASE "CONN_IN_PROGRESS" \notin dev.flags
    <3>1. LinkOf(dev') = l /\ Replied(dev'.due) = a
      BY <1>2, <1>3, <2>2 DEF Settles, Linked, Asked, LinkOf
    <3>2. Shows(dev', l, b, a, r, n)
      BY <1>6, <2>1, <3>1 DEF Shows
    <3> QED
      BY <1>1, <1>5, <3>2, ShownStep
  <2>3. CASE "CONN_IN_PROGRESS" \in dev.flags /\ "CONN_IN_PROGRESS" \in dev'.flags
    <3>1. LinkOf(dev') = l /\ Replied(dev'.due) = a
      BY <1>1, <1>2, <1>3, <2>3 DEF Settles, Asked, LinkOf
    <3>2. Shows(dev', l, b, a, r, n)
      BY <1>6, <2>1, <3>1 DEF Shows
    <3> QED
      BY <1>1, <1>5, <3>2, ShownStep
  <2>4. CASE "CONN_IN_PROGRESS" \in dev.flags /\ "CONN_IN_PROGRESS" \notin dev'.flags
    <3>1. /\ l = "joining" /\ LinkOf(dev') \in {"up", "down"}
          /\ Replied(dev'.due) = a + 1
      BY <1>1, <1>2, <1>3, <2>4 DEF Settles, Asked, LinkOf
    <3>2. \E k \in {"up", "down"} : Shows(dev', k, b, a + 1, r, n)
      BY <1>6, <2>1, <3>1 DEF Shows
    <3> HIDE DEF l, b, a, r, n
    <3> QED
      BY <1>1, <1>5, <3>1, <3>2, ShownStep
  <2> QED
    BY <2>2, <2>3, <2>4
<1>7. CASE dev'.tx_ongoing # dev.tx_ongoing
  <2>1. dev.tx_ongoing /\ dev'.tx_ongoing = FALSE
    BY <1>1, <1>2, <1>7 DEF Settles
  <2>2. "CONN_IN_PROGRESS" \notin dev.flags
    BY <2>1, JoiningIs
  <2>3. Count(dev'.due) = r + 1 /\ dev'.ul_frame_counter = n + 1
    BY <1>1, <1>2, <1>3, <1>4, <2>1 DEF Account, Settles, Tally
  <2>4. LinkOf(dev') = l /\ Replied(dev'.due) = a
    BY <1>2, <1>3, <2>2 DEF Settles, Linked, Asked, LinkOf
  <2>5. b /\ Shows(dev', l, FALSE, a, r + 1, n + 1)
    BY <2>1, <2>3, <2>4 DEF Shows
  <2> HIDE DEF l, b, a, r, n
  <2> QED
    BY <1>1, <1>5, <2>5, ShownStep
<1> QED
  BY <1>6, <1>7

\* Taking a call that is no event from the queue is not seen.
LEMMA PoppingShown ==
    ASSUME NEW d, DOMAIN d = Fields, d.due \in Seq(Calls), d.due # <<>>, Head(d.due).fn # "event"
    PROVE  Balances(d, Popping(d))
<1> DEFINE p == Popping(d)
<1>1. Alters(d, p, {"due"}) /\ p.due = Tail(d.due)
  BY DEF Popping, Alters, Fields
<1>2. ~IsReport(Head(d.due)) /\ ~IsReply(Head(d.due))
  BY DEF IsReport, IsReply, IsEvent
<1>3. Account(p) \in Nat
  <2>1. Count(p.due) \in Nat
    BY <1>1, CountNat, TailShifts
  <2> QED
    BY <2>1 DEF Account, Promised
<1>4. Pays(d, p)
  BY <1>2, <1>3, PoppingBalances DEF Pays
<1> HIDE DEF p
<1>5. Replied(p.due) = Replied(d.due)
  <2>1. Replied(d.due) = Replied(p.due) + (IF IsReply(Head(d.due)) THEN 1 ELSE 0)
    BY <1>1, CountTail
  <2>2. Replied(p.due) \in Nat
    BY <1>1, CountNat, TailShifts
  <2> QED
    BY <1>2, <2>1, <2>2
<1>6. /\ p.tx_ongoing = d.tx_ongoing /\ p.ul_frame_counter = d.ul_frame_counter
      /\ p.flags = d.flags
  BY <1>1 DEF Alters, Fields
<1>7. Settles(d, p)
  BY <1>5, <1>6 DEF Settles, Tally, Linked, Asked
<1> QED
  BY <1>4, <1>7 DEF Balances, p

\* The application hears of one event, a report or an answer.
LEMMA EventShown ==
    ASSUME InPhase(dev), SessionInv, InPhase(dev'), dev.due # <<>>, Head(dev.due).fn = "event",
           dev' = Popping(dev)
    PROVE  Service!Next \/ UNCHANGED Service!vars
<1>1. /\ dev.due \in Seq(Calls) /\ dev'.due \in Seq(Calls) /\ dev.tx_ongoing \in BOOLEAN
      /\ DOMAIN dev = Fields
  BY DEF InPhase, Orderly, SessionInv, Sound, Devices
<1>2. /\ dev'.tx_ongoing = dev.tx_ongoing /\ dev'.flags = dev.flags
      /\ dev'.ul_frame_counter = dev.ul_frame_counter /\ dev'.due = Tail(dev.due)
  BY <1>1 DEF Popping, Fields
<1>3. /\ Count(dev.due) = Count(dev'.due) + (IF IsReport(Head(dev.due)) THEN 1 ELSE 0)
      /\ Replied(dev.due) = Replied(dev'.due) + (IF IsReply(Head(dev.due)) THEN 1 ELSE 0)
      /\ Count(dev'.due) \in Nat /\ Replied(dev'.due) \in Nat
  BY <1>1, <1>2, CountTail, CountNat
<1> DEFINE l == LinkOf(dev)
           b == dev.tx_ongoing
           a == Replied(dev.due)
           r == Count(dev.due)
           n == dev.ul_frame_counter
<1>4. Shows(dev, l, b, a, r, n) /\ LinkOf(dev') = l
  BY <1>2, ShowsItself DEF LinkOf
<1>5. CASE IsReport(Head(dev.due))
  <2>1. ~IsReply(Head(dev.due))
    BY <1>5 DEF IsReport, IsReply, IsEvent, Reports, Replies
  <2>2. r > 0 /\ Shows(dev', l, b, a, r - 1, n)
    BY <1>2, <1>3, <1>4, <1>5, <2>1 DEF Shows
  <2> HIDE DEF l, b, a, r, n
  <2> QED
    BY <1>1, <1>4, <2>2, ShownStep
<1>6. CASE IsReply(Head(dev.due))
  <2>1. ~IsReport(Head(dev.due))
    BY <1>6 DEF IsReport, IsReply, IsEvent, Reports, Replies
  <2>2. a > 0 /\ Shows(dev', l, b, a - 1, r, n)
    BY <1>2, <1>3, <1>4, <1>6, <2>1 DEF Shows
  <2> HIDE DEF l, b, a, r, n
  <2> QED
    BY <1>1, <1>4, <2>2, ShownStep
<1>7. CASE ~IsReport(Head(dev.due)) /\ ~IsReply(Head(dev.due))
  <2>1. Shows(dev', l, b, a, r, n)
    BY <1>2, <1>3, <1>4, <1>7 DEF Shows
  <2> HIDE DEF l, b, a, r, n
  <2> QED
    BY <1>1, <1>4, <2>1, ShownStep
<1> QED
  BY <1>5, <1>6, <1>7

\* A handler does what the service does.
LEMMA DispatchServes ==
    ASSUME Regular, Unprompted, SessionInv, SessionInv', InPhase(dev), InPhase(dev'), OwedInv,
           Dispatch
    PROVE  Service!Next \/ UNCHANGED Service!vars
<1>1. CASE EventHandler
  <2>1. dev' = Popping(dev) /\ dev.due # <<>> /\ Head(dev.due).fn = "event"
    BY <1>1 DEF EventHandler, Called, Step, Popped, Popping
  <2> QED
    BY <2>1, EventShown
<1>2. CASE /\ Balances(Popping(dev), dev')
           /\ dev.due # <<>> /\ Head(dev.due).fn # "event"
  <2>1. Balances(dev, Popping(dev))
    BY <1>2, PoppingShown DEF InPhase, Orderly
  <2>2. Balances(dev, dev')
    BY <1>2, <2>1, BalancesTransitive
  <2> QED
    BY <2>2, BalancesShown
<1> QED
  BY <1>1, <1>2, DispatchBalances

\* The answer to a call is on its way at once.
LEMMA AnswerShown ==
    ASSUME NEW d, d.due \in Seq(Calls), NEW e, NEW event \in Replies,
           e.due = Append(d.due, [fn |-> "event", event |-> event])
    PROVE  Replied(e.due) = Replied(d.due) + 1 /\ Count(e.due) = Count(d.due)
<1> DEFINE c == [fn |-> "event", event |-> event]
<1>1. c \in Calls /\ ~IsReport(c) /\ IsReply(c) /\ e.due = Append(d.due, c)
  BY DEF Calls, AppEvents, IsReport, IsReply, IsEvent, Reports, Replies
<1> HIDE DEF c
<1> QED
  BY <1>1, CountAppend, CountNat

\* A call of the application is one of the service, or changes nothing the service shows.
LEMMA ApplicationServes ==
    ASSUME Regular, SessionInv, SessionInv', InPhase(dev), InPhase(dev'), Application
    PROVE  Service!Next \/ UNCHANGED Service!vars
<1>1. QueueCap >= 6 /\ Outcomes \subseteq Clear /\ Patient /\ "class_c" \notin AppCalls
  BY DEF Regular, Clear
<1>2. /\ Orderly(dev) /\ messages \in Nat /\ DOMAIN dev = Fields
      /\ dev.due \in Seq(Calls) /\ dev'.due \in Seq(Calls)
      /\ dev.tx_ongoing \in BOOLEAN /\ dev'.tx_ongoing \in BOOLEAN
  BY DEF InPhase, Orderly, SessionInv, Sound, Devices, HistoryOK
<1>3. \A d : Step(d) => dev' = d
  BY DEF Step
<1>4. /\ dev.session_active <=> dev.nwk_joined
      /\ dev.nwk_joined <=> "CONNECTED" \in dev.flags
      /\ ~({"CONNECTED", "CONN_IN_PROGRESS"} \subseteq dev.flags)
      /\ ~({"CONNECTED", "CONN_IN_PROGRESS"} \subseteq dev'.flags)
  BY DEF SessionInv, Sound
<1> DEFINE l == LinkOf(dev)
           b == dev.tx_ongoing
           a == Replied(dev.due)
           r == Count(dev.due)
           n == dev.ul_frame_counter
           Served == Service!Next \/ UNCHANGED Service!vars
<1> SUFFICES Served
  OBVIOUS
<1> HIDE DEF Served
<1>5. Shows(dev, l, b, a, r, n)
  BY ShowsItself
<1>6. ASSUME dev'.flags = dev.flags, dev'.tx_ongoing = dev.tx_ongoing, dev'.due = dev.due,
             dev'.ul_frame_counter = dev.ul_frame_counter
      PROVE  Served
  <2>1. Shows(dev', l, b, a, r, n)
    BY <1>6 DEF Shows, LinkOf
  <2> HIDE DEF l, b, a, r, n
  <2> QED
    BY <1>2, <1>5, <2>1, ShownStep DEF Served
<1>7. CASE Initialize
  <2>1. Alters(dev, dev', {"state"})
    BY <1>2, <1>3, <1>7 DEF Initialize, set_state, Alters, Fields
  <2> QED
    BY <1>6, <2>1 DEF Alters, Fields
<1>8. ASSUME NEW otaa \in BOOLEAN, Connect(otaa)
      PROVE  Served
  <2>1. ~dev.nwk_joined /\ {"CONN_IN_PROGRESS", "CONNECTED"} \cap dev.flags = {}
    BY <1>4, <1>8 DEF Connect
  <2>2. Resting(dev) /\ dev.due = <<>> /\ l = "down"
    BY <1>2, <1>8, <2>1, FreeRests, HeardNothing DEF Connect, Heard, LinkOf
  <2>3. PICK ch \in Outcomes : dev' = connect(dev, otaa, ch)
    BY <1>3, <1>8 DEF Connect
  <2>4. CASE otaa = TRUE
    <3>1. /\ dev'.due = dev.due /\ dev'.tx_ongoing = dev.tx_ongoing
          /\ dev'.ul_frame_counter = 0 /\ "CONN_IN_PROGRESS" \in dev'.flags
      BY <1>1, <1>2, <2>2, <2>3, <2>4, ConnectOtaaIs
    <3>2. Shows(dev', "joining", b, a, r, 0)
      BY <1>4, <3>1 DEF Shows, LinkOf
    <3> HIDE DEF l, b, a, r, n
    <3> QED
      BY <1>2, <1>5, <2>2, <3>2, ShownStep DEF Served
  <2>5. CASE otaa = FALSE
    <3>1. /\ Resting(dev') /\ "CONNECTED" \in dev'.flags
          /\ dev'.due = Append(dev.due, [fn |-> "event", event |-> "CONNECTED"])
          /\ dev'.ul_frame_counter = dev.ul_frame_counter
      BY <1>1, <1>2, <2>2, <2>3, <2>5, ConnectAbpIs
    <3>2. Replied(dev'.due) = a + 1 /\ Count(dev'.due) = r
      BY <1>2, <3>1, AnswerShown DEF Replies
    <3>3. dev'.tx_ongoing = dev.tx_ongoing
      BY <1>2, <2>2, <3>1 DEF Resting
    <3>4. LinkOf(dev') = "up"
      BY <3>1 DEF LinkOf, Resting
    <3>5. Shows(dev', "up", b, a + 1, r, n)
      BY <3>1, <3>2, <3>3, <3>4 DEF Shows
    <3> HIDE DEF l, b, a, r, n
    <3> QED
      BY <1>2, <1>5, <2>2, <3>5, ShownStep DEF Served
  <2> QED
    BY <2>4, <2>5
<1>9. ASSUME NEW type \in SendTypes, Send(type)
      PROVE  Served
  <2> DEFINE s(ch) == handle_tx(dev, messages + 1, type, ch)
  <2>1. PICK ch \in Outcomes : dev' = s(ch).dev
    BY <1>3, <1>9 DEF Send
  <2>2. ~dev.tx_ongoing
    BY <1>9 DEF Send
  <2>3. CASE "CONN_IN_PROGRESS" \in dev.flags
    <3>1. ~dev.session_active
      BY <1>4, <2>3
    <3>2. s(ch) = [dev |-> dev, status |-> "ERROR"]
      BY <3>1 DEF handle_tx
    <3>3. dev' = dev
      BY <2>1, <3>2
    <3> QED
      BY <1>6, <3>3
  <2>4. CASE "CONN_IN_PROGRESS" \notin dev.flags
    <3> DEFINE t == s(ch)
               F == SchedFields \cup HandleFields
    <3>1. Orderly(dev) /\ Resting(dev) /\ ch \in Clear
      BY <1>1, <1>2, <2>2, <2>4, FreeRests
    <3>2. /\ Orderly(t.dev) /\ t.dev.due = dev.due
          /\ Alters(dev, t.dev, SchedFields \cup HandleFields) /\ AckKept(dev, t.dev)
          /\ t.dev.tx_type \in {dev.tx_type, type}
          /\ SameLink(dev, t.dev) /\ (t.status = "OK" => dev.nwk_joined)
          /\ \/ t.status = "OK" /\ Begun(t.dev) /\ t.dev.tx_ongoing /\ t.dev.tx_msg = messages + 1
             \/ t.status = "ERROR" /\ Resting(t.dev)
      BY Zenon, <1>1, <3>1, HandleTxIs
    <3>3. t.dev = dev'
      BY <2>1
    <3> HIDE DEF t
    <3>4. "ul_frame_counter" \notin F
      BY DEF SchedFields, HandleFields, SendFields, TxFields, FrameFields
    <3> HIDE DEF F
    <3>5. dev'.ul_frame_counter = dev.ul_frame_counter
      <4>1. Alters(dev, dev', F)
        BY <3>2, <3>3 DEF F
      <4> QED
        BY <3>4, <4>1 DEF Alters, Fields
    <3>6. LinkOf(dev') = l /\ dev'.due = dev.due
      BY <3>2, <3>3 DEF SameLink, LinkOf
    <3>7. CASE dev'.tx_ongoing
      <4>1. dev.nwk_joined
        BY <3>2, <3>3, <3>7 DEF Resting
      <4>2. l = "up" /\ ~b /\ Shows(dev', l, TRUE, a, r, n)
        BY <1>2, <1>4, <2>2, <3>5, <3>6, <3>7, <4>1 DEF Shows, LinkOf
      <4> HIDE DEF l, b, a, r, n
      <4> QED
        BY <1>2, <1>5, <4>2, ShownStep DEF Served
    <3>8. CASE ~dev'.tx_ongoing
      <4>1. Shows(dev', l, b, a, r, n)
        BY <1>2, <2>2, <3>5, <3>6, <3>8 DEF Shows
      <4> HIDE DEF l, b, a, r, n
      <4> QED
        BY <1>2, <1>5, <4>1, ShownStep DEF Served
    <3> QED
      BY <3>7, <3>8
  <2> QED
    BY <2>3, <2>4
<1>10. CASE StopSending
  <2>1. dev' = stop_sending(dev) /\ dev.tx_ongoing /\ clear_tx_pipe(dev).status = "OK"
    BY <1>1, <1>3, <1>10 DEF StopSending
  <2>2. /\ Resting(dev') /\ dev'.due = dev.due /\ SameLink(dev, dev')
        /\ dev'.ul_frame_counter = dev.ul_frame_counter
    BY <2>1, StopSendingIs
  <2>3. b /\ Shows(dev', l, FALSE, a, r, n)
    BY <1>2, <2>1, <2>2 DEF Shows, LinkOf, SameLink, Resting
  <2> HIDE DEF l, b, a, r, n
  <2> QED
    BY <1>2, <1>5, <2>3, ShownStep DEF Served
<1>11. CASE Shutdown
  <2>1. Resting(dev) /\ dev.due = <<>> /\ dev' = process_shutdown_state(dev)
    BY <1>1, <1>3, <1>11, FreeRests DEF Shutdown, Idle
  <2>2. /\ Resting(dev') /\ dev'.flags = {} /\ dev'.ul_frame_counter = dev.ul_frame_counter
        /\ dev'.due = Append(dev.due, [fn |-> "event", event |-> "DISCONNECTED"])
    BY <1>1, <1>2, <2>1, ShutdownIs
  <2>3. Replied(dev'.due) = a + 1 /\ Count(dev'.due) = r
    BY <1>2, <2>2, AnswerShown DEF Replies
  <2>4. /\ ~b /\ dev'.tx_ongoing = b /\ l # "joining" /\ LinkOf(dev') = "down"
    BY <1>2, <2>1, <2>2 DEF Resting, LinkOf
  <2>5. l # "joining" /\ ~b /\ Shows(dev', "down", b, a + 1, r, n)
    BY <2>2, <2>3, <2>4 DEF Shows
  <2> HIDE DEF l, b, a, r, n
  <2> QED
    BY <1>2, <1>5, <2>5, ShownStep DEF Served
<1>12. ASSUME NEW c \in {"A", "C"}, SetDeviceClass(c)
       PROVE  Served
  BY <1>1, <1>2, <1>12 DEF SetDeviceClass, Orderly
<1> QED
  BY <1>7, <1>8, <1>9, <1>10, <1>11, <1>12 DEF Application

\* While transactions are not interrupted and the network asks for no uplink, the device
\* does what LoRaWANInterface promises: one attempt to connect or one message at a time,
\* one event for each that ends, and a counter that moves on with every message sent.
THEOREM DeviceImplementsService ==
    Regular /\ Unprompted /\ Spec => Service!Init /\ [][Service!Next]_(Service!vars)
<1> SUFFICES ASSUME Regular, Unprompted
             PROVE  Spec => Service!Init /\ [][Service!Next]_(Service!vars)
  OBVIOUS
<1> DEFINE Inv == SessionInv /\ ExchangeInv /\ OwedInv
<1>1. Init => Inv
  BY SessionInvInit, ExchangeInit, OwedInit
<1>2. Inv /\ [Next]_vars => Inv'
  BY SessionInvNext, ExchangeNext, OwedNext
<1>3. Init => Service!Init
  <2> SUFFICES ASSUME Init PROVE Service!Init
    OBVIOUS
  <2>1. dev.flags = {} /\ ~dev.tx_ongoing /\ dev.ul_frame_counter = 0 /\ dev.due = <<>>
    BY DEF Init, NewDevice
  <2>2. dev.tx_ongoing = FALSE
    BY DEF Init, NewDevice
  <2>3. dev.due \in Seq(Calls)
    BY <2>1
  <2>4. /\ EventsDue({"CONNECTED", "JOIN_FAILURE", "DISCONNECTED"}) = 0
        /\ EventsDue(Reports) = 0
    BY <2>1, <2>3, EventsDueIs, CountEmpty DEF Count, Replied, Announced, Replies
  <2> QED
    BY <2>1, <2>2, <2>4 DEF Service!Init
<1>4. Inv /\ Inv' /\ [Next]_vars => [Service!Next]_(Service!vars)
  <2> SUFFICES ASSUME Inv, Inv', [Next]_vars PROVE Service!Next \/ UNCHANGED Service!vars
    OBVIOUS
  <2>1. InPhase(dev) /\ InPhase(dev')
    BY DEF ExchangeInv, InPhase, Orderly, Phase
  <2>2. CASE Radio \/ Clock
    BY <2>1, <2>2, RadioBalances, BalancesShown
  <2>3. CASE UNCHANGED vars
    <3>1. dev' = dev
      BY <2>3 DEF vars
    <3> QED
      BY <3>1 DEF Service!vars, EventsDue
  <2> QED
    BY <2>1, <2>2, <2>3, DispatchServes, ApplicationServes DEF Next
<1> HIDE DEF Inv
<1> QED
  BY <1>1, <1>2, <1>3, <1>4, PTL DEF Spec
=============================================================================
