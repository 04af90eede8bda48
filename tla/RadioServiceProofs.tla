------------------------- MODULE RadioServiceProofs -------------------------
(***************************************************************************)
(* The driver of the radio and its interrupt handler implement             *)
(* RadioService, for every value of the constants: each of their steps is  *)
(* one of the service's, or leaves what the layers above see as it is.     *)
(***************************************************************************)
EXTENDS RadioCallProofs

-----------------------------------------------------------------------------
(* The invariant *)

\* A call that starts something finds the radio at rest, until it has started it.
Settled ==
    /\ call.name \in {"send", "receive", "standby"} =>
          \/ AtRest
          \/ call.name # "standby" /\ chip.mode = call.starts /\ Len(call.todo) = 1
    /\ call.starts = "rx_continuous" => call.modem = "LORA"

\* The interrupts that will report the end of what is under way are not masked out,
\* and the reception of random() has none.
Masked ==
    /\ call.name = "random" =>
          /\ chip.mask = {}
          /\ Free(call.todo, Doing({"DIOIRQ"}))
          /\ call.todo[Len(call.todo)].with = "STDBY_RC"
    /\ call.name = "none" /\ mode = "SLEEP" => chip.mask = {}
    /\ call.name # "random" =>
          /\ chip.mode = "tx" => chip.mask = TxMask
          /\ chip.mode \in {"rx", "rx_continuous"} => chip.mask = RxMask

\* A single operation has ended, with one of the interrupts given, and _operation_mode
\* says which it was, unless sleep() has begun.
Over(ended, noted, raised) ==
    /\ chip.ended = ended /\ Calm(chip) /\ Pending \in raised
    /\ mode = noted \/ (mode = "SLEEP" /\ call.name = "sleep")

\* What RadioTask has to deal with is the end of what was under way, or a frame of the
\* continuous reception that goes on.
Unserved ==
    /\ irq.pc # "pend" => Pending # {}
    /\ Pending # {} =>
          /\ call.name # "random"
          /\ \/ Over("tx", "TX", {{"TX_DONE"}, {"RX_TX_TIMEOUT"}})
             \/ Over("rx", "RX", {{"RX_DONE"}, {"RX_DONE", "CRC_ERROR"}, {"RX_TX_TIMEOUT"}})
             \/ /\ chip.ended = "rx_continuous" /\ chip.mode = "rx_continuous"
                /\ Pending \in {{"RX_DONE"}, {"RX_DONE", "CRC_ERROR"}}

ServiceInv == Settled /\ Masked /\ Unserved

\* The invariant holds at the start.
LEMMA ServiceInvInit == Init => ServiceInv
  BY DEF Init, ServiceInv, Settled, Masked, Unserved, AtRest, Cold, Pending

-----------------------------------------------------------------------------
(* What the layers above see *)

\* While LoRaTask runs, RadioTask has nothing to deal with.
LEMMA Quiet ==
    ASSUME TypeInv, FrameInv
    PROVE  /\ Scheduled => chip.irq = {} /\ irq.status = {} /\ Pending = {}
           /\ (chip.irq # {} \/ irq.status # {}) <=> Pending # {}
  BY DEF TypeInv, FrameInv, Served, Scheduled, Pending

\* What the mode of the service is, from the mode of the chip.
LEMMA ModeSeen ==
    ASSUME TypeInv, FrameInv
    PROVE  /\ call.name = "random" => Mode = "rest"
           /\ call.name # "random" /\ chip.mode \in Underway => Mode = chip.mode
           /\ call.name # "random" /\ Calm(chip) /\ Pending # {} => Mode = chip.ended
           /\ call.name # "random" /\ Calm(chip) /\ Pending = {} => Mode = "rest"
           /\ chip.mode \in Underway \/ Calm(chip)
  BY Quiet DEF Mode, Calm, Underway, TypeInv, Chips, ChipModes

\* The callbacks for what is to be dealt with.
LEMMA OneCallback ==
    ASSUME NEW fifo
    PROVE  /\ Callbacks({"TX_DONE"}, fifo) = <<[event |-> "tx_done", frame |-> 0]>>
           /\ Callbacks({"RX_DONE"}, fifo) = <<[event |-> "rx_done", frame |-> fifo]>>
           /\ Callbacks({"RX_DONE", "CRC_ERROR"}, fifo) = <<[event |-> "rx_error", frame |-> 0]>>
           /\ mode = "TX" => Callbacks({"RX_TX_TIMEOUT"}, fifo) = <<[event |-> "tx_timeout", frame |-> 0]>>
           /\ mode = "RX" => Callbacks({"RX_TX_TIMEOUT"}, fifo) = <<[event |-> "rx_timeout", frame |-> 0]>>
           /\ mode = "SLEEP" => Callbacks({"RX_TX_TIMEOUT"}, fifo) = <<>>
  BY DEF Callbacks

\* The events reported, as RadioService has them, after one more report.
LEMMA EventsAppend ==
    ASSUME NEW list \in Seq(Reports), NEW r \in Reports
    PROVE  [i \in DOMAIN (list \o <<r>>) |-> (list \o <<r>>)[i].event]
               = Append([i \in DOMAIN list |-> list[i].event], r.event)
  <1> DEFINE longer == list \o <<r>>
             events == [i \in DOMAIN list |-> list[i].event]
             n == Len(list)
  <1>1. /\ n \in Nat /\ DOMAIN list = 1 .. n /\ DOMAIN longer = 1 .. n + 1
        /\ \A i \in 1 .. n : longer[i] = list[i]
        /\ longer[n + 1] = r
    OBVIOUS
  <1>2. events \in Seq({list[i].event : i \in 1 .. n}) /\ Len(events) = n
    BY <1>1
  <1>3. /\ DOMAIN Append(events, r.event) = 1 .. n + 1
        /\ \A i \in 1 .. n : Append(events, r.event)[i] = events[i]
        /\ Append(events, r.event)[n + 1] = r.event
    BY <1>1, <1>2
  <1>4. Append(events, r.event) = [i \in 1 .. n + 1 |-> Append(events, r.event)[i]]
    BY <1>1, <1>2
  <1>5. \A i \in 1 .. n + 1 : Append(events, r.event)[i] = longer[i].event
    BY <1>1, <1>3
  <1> HIDE DEF longer, events, n
  <1>6. [i \in DOMAIN longer |-> longer[i].event] = Append(events, r.event)
    BY <1>1, <1>4, <1>5
  <1> QED BY <1>6 DEF longer, events


-----------------------------------------------------------------------------
(* The steps of a call *)

\* The step of sleep(), and that of another call.
LEMMA SleepStep ==
    ASSUME TypeInv, CallInv, Note \/ Deselect, call.name = "sleep"
    PROVE  \/ /\ chip' = chip /\ mode' = "SLEEP"
              /\ call'.name = "sleep" /\ call'.starts = call.starts
           \/ /\ chip' = Cold("sleep") /\ mode' = "SLEEP"
              /\ call'.name = "none" /\ call'.starts = "nothing"
  <1> DEFINE s == call.todo
             h == Head(call.todo)
  <1>1. s # <<>> /\ call' = Rest /\ Takes(h, chip, mode, chip', mode')
    BY TaskStep DEF Next_step
  <1>2. \/ /\ Len(s) = 1 /\ call'.name = "none" /\ call'.starts = "nothing"
        \/ /\ Len(s) # 1 /\ call'.name = call.name /\ call'.starts = call.starts
    BY <1>1, RestFacts
  <1>3. s = sleep \/ (s = Tail(sleep) /\ mode = "SLEEP")
    BY DEF CallInv, Sequenced
  <1>4. CASE s = sleep
    <2>1. Len(s) # 1 /\ h.does = "operation_mode" /\ h.with = "SLEEP"
      BY <1>4, SleepSteps
    <2> QED BY <1>1, <1>2, <2>1 DEF Takes
  <1>5. CASE s = Tail(sleep) /\ mode = "SLEEP"
    <2>1. Len(s) = 1 /\ h.does = "SLEEP"
      BY <1>5, SleepSteps
    <2>2. h \in Steps /\ chip \in Chips
      BY <1>1, RestTyped DEF TypeInv, Next_step
    <2>3. chip' = Cold("sleep") /\ mode' = mode
      BY <1>1, <2>1, <2>2, ExecuteEffects DEF Takes
    <2> QED BY <1>2, <1>5, <2>1, <2>3
  <1> QED BY <1>3, <1>4, <1>5

\* What a step of a call other than sleep() does to the chip.
LEMMA OtherStep ==
    ASSUME TypeInv, CallInv, Note \/ Deselect, call.name # "sleep"
    PROVE  LET h == Head(call.todo) IN
           /\ h \in Steps /\ call.name # "none" /\ call.starts # "nothing"
           /\ chip'.irq = chip.irq /\ chip'.ended = chip.ended
           /\ h \notin Starts => chip'.mode = chip.mode \/ Calm(chip')
           /\ h \in Calming => Calm(chip)
           /\ h \notin Doing({"DIOIRQ"}) => chip'.mask = chip.mask
           /\ h.does = "operation_mode" => chip' = chip /\ mode' = h.with /\ mode' # "SLEEP"
           /\ h.does # "operation_mode" => mode' = mode /\ call'.name # "none"
           /\ call'.name = "none" => h = call.todo[Len(call.todo)]
           /\ \/ call'.name = "none" /\ call'.starts = "nothing"
              \/ call'.name = call.name /\ call'.starts = call.starts
           /\ Len(call.todo) = 1 => call'.name = "none"
           /\ call'.modem = call.modem
           /\ h \in Starts /\ call.name \in {"send", "receive", "standby"} =>
                 /\ call.name # "standby" /\ Len(call'.todo) = 1
                 /\ chip'.mode = Starting
                 /\ chip'.mask = IF call.name = "send" THEN TxMask ELSE RxMask
  <1> DEFINE s == call.todo
             h == Head(call.todo)
  <1>1. s # <<>> /\ call' = Rest /\ Takes(h, chip, mode, chip', mode')
    BY TaskStep DEF Next_step
  <1>2. /\ chip \in Chips /\ mode \in DriverModes /\ s \in Seq(Steps) /\ h \in Steps
        /\ call \in CallRecords /\ call.modem \in Modems
    BY <1>1 DEF TypeInv, CallRecords
  <1>3. call.name # "none" /\ call.starts # "nothing"
    BY <1>1, <1>2 DEF CallInv, Named, CallRecords
  <1>4. /\ call'.todo = Tail(s) /\ call'.modem = call.modem
        /\ \/ /\ Len(s) = 1 /\ call'.name = "none" /\ call'.starts = "nothing"
           \/ /\ Len(s) # 1 /\ call'.name = call.name /\ call'.starts = call.starts
    BY <1>1, RestFacts
  <1>5. Readied(s, chip, mode) /\ s[Len(s)].does = "operation_mode"
    BY <1>3 DEF CallInv, Sequenced
  <1>6. /\ h \notin Asleep /\ h \notin Noting({"SLEEP"})
        /\ h \in Calming => Calm(chip)
    BY <1>1, <1>2, <1>5, ReadiedStep
  <1>7. /\ h \notin Starts => chip'.mode = chip.mode \/ Calm(chip')
        /\ h \in Doing({"TX"}) => chip'.mode = "tx"
        /\ h \in Doing({"RX"}) => chip'.mode = h.with
        /\ h \notin Doing({"DIOIRQ"}) => chip'.mask = chip.mask
        /\ h.does # "operation_mode" => mode' = mode
        /\ chip'.irq = chip.irq /\ chip'.ended = chip.ended
    <2>1. h \notin Doing({"DIOIRQ"}) => h \notin Asleep \union Doing({"DIOIRQ"})
      BY <1>6
    <2> QED BY <1>1, <1>2, <1>6, <2>1, TakesEffects
  <1>8. h.does = "operation_mode" => chip' = chip /\ mode' = h.with /\ mode' # "SLEEP"
    BY <1>1, <1>2, <1>6 DEF Takes, Noting, With
  <1>9. /\ h = s[1] /\ 1 \in DOMAIN s /\ Len(s) \in Nat /\ Len(Tail(s)) = Len(s) - 1
    BY <1>1, <1>2
  <1>10. /\ Len(s) = 1 => h = s[Len(s)]
         /\ h.does # "operation_mode" => Len(s) # 1
    BY <1>5, <1>9
  <1>11. ASSUME h \in Starts, call.name \in {"send", "receive", "standby"}
         PROVE  /\ call.name # "standby" /\ Len(call'.todo) = 1
                /\ chip'.mode = Starting
                /\ chip'.mask = IF call.name = "send" THEN TxMask ELSE RxMask
    <2>1. call.name # "standby"
      BY <1>9, <1>11 DEF CallInv, Sequenced, Free
    <2>2. 1 = Len(s) - 1 /\ Kind(h) = Starting
      BY <1>9, <1>11, <2>1 DEF CallInv, Sequenced
    <2>3. Len(call'.todo) = 1
      BY <1>4, <1>9, <2>2
    <2>4. chip'.mode = Kind(h)
      BY <1>7, <1>11 DEF Kind, Starts, Doing
    <2>5. h \notin Doing({"DIOIRQ"})
      BY <1>11 DEF Starts, Doing
    <2>6. CASE call.name = "send"
      <3>1. /\ chip \in Chips /\ mode \in DriverModes /\ s \in Seq(Steps) /\ s # <<>>
            /\ Takes(Head(s), chip, mode, chip', mode') /\ Readied(s, chip, mode)
            /\ call.modem \in Modems /\ Configuring(s, call.modem, TxMask, chip)
            /\ Head(s) \in Starts
        BY <1>1, <1>2, <1>5, <1>11, <2>6 DEF CallInv, Sequenced
      <3>2. chip.mask = TxMask
        BY <3>1, ConfiguringStep
      <3> QED BY <1>7, <2>1, <2>2, <2>3, <2>4, <2>5, <2>6, <3>2
    <2>7. CASE call.name = "receive"
      <3>1. /\ chip \in Chips /\ mode \in DriverModes /\ s \in Seq(Steps) /\ s # <<>>
            /\ Takes(Head(s), chip, mode, chip', mode') /\ Readied(s, chip, mode)
            /\ call.modem \in Modems /\ Configuring(s, call.modem, RxMask, chip)
            /\ Head(s) \in Starts
        BY <1>1, <1>2, <1>5, <1>11, <2>7 DEF CallInv, Sequenced
      <3>2. chip.mask = RxMask
        BY <3>1, ConfiguringStep
      <3> QED BY <1>7, <2>1, <2>2, <2>3, <2>4, <2>5, <2>7, <3>2
    <2> QED BY <1>11, <2>1, <2>6, <2>7
  <1> QED BY <1>2, <1>3, <1>4, <1>6, <1>7, <1>8, <1>10, <1>11


\* A step of the call under way keeps the invariant.
LEMMA ServiceInvStep ==
    ASSUME TypeInv, CallInv, FrameInv, ServiceInv, Note \/ Deselect
    PROVE  ServiceInv'
  <1>1. Scheduled /\ irq' = irq /\ sema' = sema /\ irq.pc = "pend" /\ call' = Rest /\ call.todo # <<>>
    BY TaskStep DEF Scheduled
  <1>2. Pending = {} /\ chip.irq = {}
    BY <1>1, Quiet
  <1>3. chip'.irq = {} => Unserved'
    BY <1>1 DEF Unserved, Pending
  <1>4. CASE call.name = "sleep"
    <2>1. CASE chip' = chip /\ mode' = "SLEEP" /\ call'.name = "sleep" /\ call'.starts = call.starts
      <3>1. call.starts = "rest"
        BY <1>4 DEF CallInv, Named
      <3> QED BY <1>2, <1>3, <1>4, <2>1, <3>1 DEF ServiceInv, Settled, Masked
    <2>2. CASE chip' = Cold("sleep") /\ mode' = "SLEEP" /\ call'.name = "none"
                  /\ call'.starts = "nothing"
      <3>1. chip'.irq = {} /\ chip'.mask = {} /\ chip'.mode = "sleep"
        BY <2>2 DEF Cold
      <3> QED BY <1>3, <2>2, <3>1 DEF ServiceInv, Settled, Masked
    <2> QED BY <1>4, <2>1, <2>2, SleepStep
  <1>5. CASE call.name # "sleep"
    <2> DEFINE h == Head(call.todo)
    <2>1. /\ h \in Steps /\ call.name # "none" /\ call.starts # "nothing"
          /\ chip'.irq = chip.irq /\ chip'.ended = chip.ended
          /\ h \notin Starts => chip'.mode = chip.mode \/ Calm(chip')
          /\ h \in Calming => Calm(chip)
          /\ h \notin Doing({"DIOIRQ"}) => chip'.mask = chip.mask
          /\ h.does = "operation_mode" => chip' = chip /\ mode' = h.with /\ mode' # "SLEEP"
          /\ h.does # "operation_mode" => mode' = mode /\ call'.name # "none"
          /\ call'.name = "none" => h = call.todo[Len(call.todo)]
          /\ \/ call'.name = "none" /\ call'.starts = "nothing"
             \/ call'.name = call.name /\ call'.starts = call.starts
          /\ Len(call.todo) = 1 => call'.name = "none"
          /\ call'.modem = call.modem
          /\ h \in Starts /\ call.name \in {"send", "receive", "standby"} =>
                /\ call.name # "standby" /\ Len(call'.todo) = 1
                /\ chip'.mode = Starting
                /\ chip'.mask = IF call.name = "send" THEN TxMask ELSE RxMask
      BY <1>5, OtherStep
    <2>2. /\ call.todo \in Seq(Steps)
          /\ call.name \in {"none", "send", "receive", "sleep", "standby", "random"}
      BY DEF TypeInv, CallRecords
    <2>3. /\ call'.todo = Tail(call.todo)
          /\ call'.name # "none" => call'.todo[Len(call'.todo)] = call.todo[Len(call.todo)]
      BY <1>1, <2>1, RestFacts
    <2>4. \A bad : Free(call.todo, bad) => h \notin bad /\ Free(call'.todo, bad)
      BY <1>1, <2>2, <2>3, FreeTail
    <2>5. /\ h \in Doing({"DIOIRQ"}) => h \in Calming /\ h \notin Starts
          /\ h.does = "operation_mode" /\ h.with = "STDBY_RC" => h \in Calming
          /\ h \in Starts => h.does # "operation_mode"
      BY <2>1 DEF Doing, Calming, Starts, Noting, With
    <2> HIDE DEF h
    <2>6. Settled'
      <3>1. call'.starts = "rx_continuous" => call'.modem = "LORA"
        BY <2>1 DEF ServiceInv, Settled
      <3>2. ASSUME call'.name \in {"send", "receive", "standby"}
            PROVE  \/ AtRest'
                   \/ call'.name # "standby" /\ chip'.mode = call'.starts /\ Len(call'.todo) = 1
        <4>1. call'.name = call.name /\ call'.starts = call.starts /\ Len(call.todo) # 1
          BY <2>1, <3>2
        <4>2. AtRest
          BY <3>2, <4>1 DEF ServiceInv, Settled
        <4>3. CASE h \in Starts
          <5>1. Starting = call.starts
            BY DEF Starting, ServiceInv, Settled
          <5> QED BY <2>1, <3>2, <4>1, <4>3, <5>1
        <4>4. CASE h \notin Starts
          BY <2>1, <4>2, <4>4 DEF AtRest, Calm
        <4> QED BY <4>3, <4>4
      <3> QED BY <3>1, <3>2 DEF Settled
    <2>7. Masked'
      <3>1. CASE call.name = "random"
        <4>1. h \notin Doing({"DIOIRQ"}) /\ Free(call'.todo, Doing({"DIOIRQ"})) /\ chip'.mask = {}
          BY <2>1, <2>4, <3>1 DEF ServiceInv, Masked
        <4>2. CASE call'.name = "none"
          <5>1. h.does = "operation_mode" /\ h.with = "STDBY_RC"
            BY <2>1, <3>1, <4>2 DEF ServiceInv, Masked
          <5>2. Calm(chip')
            BY <2>1, <2>5, <5>1
          <5> QED BY <2>1, <4>2, <5>1, <5>2 DEF Masked, Calm
        <4>3. CASE call'.name # "none"
          BY <2>1, <2>3, <3>1, <4>1, <4>3 DEF ServiceInv, Masked
        <4> QED BY <4>2, <4>3
      <3>2. CASE call.name # "random"
        <4>1. call'.name # "random" /\ ~(call'.name = "none" /\ mode' = "SLEEP")
          BY <2>1, <3>2
        <4>2. CASE h \in Starts
          <5>1. call.name \in {"send", "receive", "standby"}
            BY <1>5, <2>1, <2>2, <3>2
          <5>2. Starting = "tx" <=> call.name = "send"
            BY <2>1, <4>2, <5>1 DEF CallInv, Named, Starting
          <5> QED BY <2>1, <4>1, <4>2, <5>1, <5>2 DEF Masked
        <4>3. CASE h \in Doing({"DIOIRQ"})
          BY <2>1, <2>5, <4>1, <4>3 DEF Masked, Calm
        <4>4. CASE h \notin Starts /\ h \notin Doing({"DIOIRQ"})
          BY <2>1, <3>2, <4>1, <4>4 DEF ServiceInv, Masked, Calm
        <4> QED BY <4>2, <4>3, <4>4
      <3> QED BY <3>1, <3>2
    <2> QED BY <1>2, <1>3, <2>1, <2>6, <2>7 DEF ServiceInv
  <1> QED BY <1>4, <1>5


-----------------------------------------------------------------------------
(* The chip and RadioTask *)

\* What the chip may have to say, to a driver that has noted what it started.
Spoken(from, to, kinds) ==
    /\ chip.mode = from /\ chip'.mode = to /\ chip'.ended = from
    /\ \E raised \in kinds : chip'.irq = raised \intersect chip.mask

\* A prompt chip speaks between calls only, and says how its operation ended.
LEMMA ChipSpeaks ==
    ASSUME TypeInv, FrameInv, Prompt, Chip
    PROVE  /\ Scheduled /\ ~Unnoted /\ Pending = {}
           /\ \/ Spoken("tx", "standby", {{"TX_DONE"}, {"RX_TX_TIMEOUT"}})
              \/ Spoken("rx", "standby", {{"RX_DONE"}, {"RX_DONE", "CRC_ERROR"}, {"RX_TX_TIMEOUT"}})
              \/ Spoken("rx_continuous", "rx_continuous", {{"RX_DONE"}, {"RX_DONE", "CRC_ERROR"}})
  <1>1. MaySpeak
    BY DEF Chip, TransmissionEnds, FrameReceived, FrameDamaged, NothingReceived
  <1>2. Scheduled /\ ~Unnoted /\ Pending = {} /\ chip.irq = {}
    BY <1>1, Quiet DEF MaySpeak, Scheduled
  <1>3. chip \in Chips
    BY DEF TypeInv
  <1>4. ASSUME NEW c \in Chips, NEW raised, Raise(c, raised), c.irq = chip.irq, c.mask = chip.mask
        PROVE  chip'.mode = c.mode /\ chip'.ended = chip.mode /\ chip'.irq = raised \intersect chip.mask
    BY <1>2, <1>4 DEF Raise, Chips
  <1>5. CASE TransmissionEnds
    <2> DEFINE c == [chip EXCEPT !.mode = "standby"]
    <2>1. PICK raised \in {"TX_DONE", "RX_TX_TIMEOUT"} : Raise(c, {raised})
      BY <1>5 DEF TransmissionEnds
    <2>2. c \in Chips /\ c.irq = chip.irq /\ c.mask = chip.mask /\ c.mode = "standby"
      BY <1>3 DEF Chips, ChipModes
    <2>3. chip.mode = "tx"
      BY <1>5 DEF TransmissionEnds
    <2>4. {raised} \in {{"TX_DONE"}, {"RX_TX_TIMEOUT"}}
      BY <2>1
    <2> HIDE DEF c
    <2>5. chip'.mode = "standby" /\ chip'.ended = "tx" /\ chip'.irq = {raised} \intersect chip.mask
      BY <1>4, <2>1, <2>2, <2>3
    <2>6. Spoken("tx", "standby", {{"TX_DONE"}, {"RX_TX_TIMEOUT"}})
      BY <2>3, <2>4, <2>5 DEF Spoken
    <2> QED BY <1>2, <2>6
  <1>6. ASSUME NEW fifo \in 0 .. MaxFrames, NEW raised \in {{"RX_DONE"}, {"RX_DONE", "CRC_ERROR"}},
               Raise([AfterReception(chip) EXCEPT !.fifo = fifo], raised),
               chip.mode \in {"rx", "rx_continuous"}
        PROVE  \/ Spoken("rx", "standby", {{"RX_DONE"}, {"RX_DONE", "CRC_ERROR"}, {"RX_TX_TIMEOUT"}})
               \/ Spoken("rx_continuous", "rx_continuous", {{"RX_DONE"}, {"RX_DONE", "CRC_ERROR"}})
    <2> DEFINE c == [AfterReception(chip) EXCEPT !.fifo = fifo]
    <2>1. /\ c \in Chips /\ c.irq = chip.irq /\ c.mask = chip.mask
          /\ c.mode = IF chip.mode = "rx" THEN "standby" ELSE chip.mode
      BY <1>3, <1>6 DEF Chips, ChipModes, AfterReception
    <2> HIDE DEF c
    <2>2. chip'.mode = c.mode /\ chip'.ended = chip.mode /\ chip'.irq = raised \intersect chip.mask
      BY <1>4, <1>6, <2>1 DEF c
    <2> QED BY <1>6, <2>1, <2>2 DEF Spoken
  <1>7. CASE FrameReceived
    <2>1. frames + 1 \in 0 .. MaxFrames
      BY <1>7, RadioDriverAssumption DEF FrameReceived, TypeInv, RadioDriverAssumption
    <2> QED BY <1>2, <1>6, <1>7, <2>1 DEF FrameReceived
  <1>8. CASE FrameDamaged
    <2>1. 0 \in 0 .. MaxFrames
      BY RadioDriverAssumption DEF RadioDriverAssumption
    <2> QED BY <1>2, <1>6, <1>8, <2>1 DEF FrameDamaged
  <1>9. CASE NothingReceived
    <2> DEFINE c == [chip EXCEPT !.mode = "standby"]
    <2>1. c \in Chips /\ c.irq = chip.irq /\ c.mask = chip.mask /\ c.mode = "standby"
      BY <1>3 DEF Chips, ChipModes
    <2>2. chip.mode = "rx" /\ Raise(c, {"RX_TX_TIMEOUT"})
      BY <1>9 DEF NothingReceived
    <2> HIDE DEF c
    <2>3. chip'.mode = "standby" /\ chip'.ended = "rx" /\ chip'.irq = {"RX_TX_TIMEOUT"} \intersect chip.mask
      BY <1>4, <2>1, <2>2
    <2>4. Spoken("rx", "standby", {{"RX_DONE"}, {"RX_DONE", "CRC_ERROR"}, {"RX_TX_TIMEOUT"}})
      BY <2>2, <2>3 DEF Spoken
    <2> QED BY <1>2, <2>4
  <1> QED BY <1>5, <1>7, <1>8, <1>9 DEF Chip

\* The chip ends what it does, or wakes up: what the call in progress relies on stays.
LEMMA StillSettled ==
    ASSUME Settled, Masked, SameConfiguration(chip, chip'), mode' = mode,
           call'.name = call.name, call'.starts = call.starts, call'.modem = call.modem,
           call'.todo = call.todo
    PROVE  Settled' /\ Masked'
  BY DEF Settled, Masked, SameConfiguration, AtRest, Calm

\* The chip keeps the invariant.
LEMMA ServiceInvChip ==
    ASSUME TypeInv, CallInv, FrameInv, ServiceInv, Prompt, Chip
    PROVE  ServiceInv'
  <1>1. SameConfiguration(chip, chip') /\ UNCHANGED <<mode, call, irq>>
    BY ChipKeeps
  <1>2. Settled' /\ Masked'
    BY <1>1, StillSettled DEF ServiceInv
  <1>3. irq.pc = "pend" /\ ~Unnoted
    BY ChipSpeaks DEF Scheduled
  <1>4. Pending' = chip'.irq
    BY <1>1, <1>3 DEF Pending
  <1>5. ASSUME chip.mode \in Underway
        PROVE  \/ mode = "TX" /\ chip.mode = "tx"
               \/ mode = "RX" /\ chip.mode # "tx"
               \/ mode = "SLEEP" /\ call.name = "sleep"
    BY <1>3, <1>5 DEF CallInv, Noted, Unnoted, Underway
  <1>6. call.name = "random" => chip'.irq = {}
    <2>1. call.name = "random" => chip.mask = {}
      BY DEF ServiceInv, Masked
    <2> QED BY <2>1, ChipSpeaks DEF Spoken
  <1>7. CASE call.name # "random" /\ Spoken("tx", "standby", {{"TX_DONE"}, {"RX_TX_TIMEOUT"}})
    <2>1. chip.mask = TxMask
      BY <1>7 DEF ServiceInv, Masked, Spoken
    <2>2. chip'.irq \in {{"TX_DONE"}, {"RX_TX_TIMEOUT"}}
      BY <1>7, <2>1 DEF Spoken, TxMask
    <2>3. mode = "TX" \/ (mode = "SLEEP" /\ call.name = "sleep")
      BY <1>5, <1>7 DEF Spoken, Underway
    <2>4. Over("tx", "TX", {{"TX_DONE"}, {"RX_TX_TIMEOUT"}})'
      BY <1>1, <1>4, <1>7, <2>2, <2>3 DEF Over, Spoken, Calm
    <2> QED BY <1>1, <1>2, <1>3, <1>7, <2>4 DEF ServiceInv, Unserved
  <1>8. CASE /\ call.name # "random"
             /\ Spoken("rx", "standby", {{"RX_DONE"}, {"RX_DONE", "CRC_ERROR"}, {"RX_TX_TIMEOUT"}})
    <2>1. chip.mask = RxMask
      BY <1>8 DEF ServiceInv, Masked, Spoken
    <2>2. chip'.irq \in {{"RX_DONE"}, {"RX_DONE", "CRC_ERROR"}, {"RX_TX_TIMEOUT"}}
      BY <1>8, <2>1 DEF Spoken, RxMask
    <2>3. mode = "RX" \/ (mode = "SLEEP" /\ call.name = "sleep")
      BY <1>5, <1>8 DEF Spoken, Underway
    <2>4. Over("rx", "RX", {{"RX_DONE"}, {"RX_DONE", "CRC_ERROR"}, {"RX_TX_TIMEOUT"}})'
      BY <1>1, <1>4, <1>8, <2>2, <2>3 DEF Over, Spoken, Calm
    <2> QED BY <1>1, <1>2, <1>3, <1>8, <2>4 DEF ServiceInv, Unserved
  <1>9. CASE /\ call.name # "random"
             /\ Spoken("rx_continuous", "rx_continuous", {{"RX_DONE"}, {"RX_DONE", "CRC_ERROR"}})
    <2>1. chip.mask = RxMask
      BY <1>9 DEF ServiceInv, Masked, Spoken
    <2>2. chip'.irq \in {{"RX_DONE"}, {"RX_DONE", "CRC_ERROR"}}
      BY <1>9, <2>1 DEF Spoken, RxMask
    <2>3. chip'.ended = "rx_continuous" /\ chip'.mode = "rx_continuous"
      BY <1>9 DEF Spoken
    <2> QED BY <1>1, <1>2, <1>3, <1>4, <1>9, <2>2, <2>3 DEF ServiceInv, Unserved
  <1>10. CASE call.name = "random"
    BY <1>1, <1>2, <1>3, <1>4, <1>6, <1>10 DEF ServiceInv, Unserved
  <1> QED BY <1>7, <1>8, <1>9, <1>10, ChipSpeaks


\* RadioTask reads and clears the interrupts, and deals with them then.
LEMMA RadioTaskServes ==
    ASSUME TypeInv, CallInv, FrameInv, ServiceInv, GetIrqStatus \/ ClearIrqStatus
    PROVE  /\ Pending # {} /\ Pending' = Pending
           /\ chip'.ended = chip.ended /\ (chip'.mode = chip.mode \/ (Calm(chip) /\ Calm(chip')))
           /\ call' = call /\ reports' = reports /\ mode' = mode
  <1>1. /\ chip \in Chips /\ call \in CallRecords
        /\ irq \in [pc : {"pend", "clear", "handle"}, status : SUBSET Irqs] /\ Served
    BY DEF TypeInv
  <1>2. /\ Awake(chip) \in Chips /\ Awake(chip).irq = chip.irq /\ Awake(chip).ended = chip.ended
        /\ Awake(chip).mode = chip.mode \/ (Calm(chip) /\ Calm(Awake(chip)))
    BY <1>1, AwakeTyped DEF Awake, Chips, Calm
  <1>3. CASE GetIrqStatus
    <2>1. irq.pc = "pend" /\ sema = 1 /\ chip.irq # {}
      BY <1>1, <1>3 DEF GetIrqStatus, Served
    <2>2. call.selected = FALSE /\ call.garbled = FALSE
      BY <1>1, <2>1 DEF CallInv, CallRecords
    <2>3. call' = call
      BY <1>1, <1>3, <2>2 DEF GetIrqStatus, CallRecords
    <2>4. chip' = Awake(chip) /\ irq' = [pc |-> "clear", status |-> chip.irq]
      BY <1>3, <2>2, ServeTyped DEF GetIrqStatus
    <2> QED BY <1>2, <1>3, <2>1, <2>3, <2>4 DEF GetIrqStatus, Pending
  <1>4. CASE ClearIrqStatus
    <2>1. irq.pc = "clear" /\ irq'.pc = "handle" /\ irq'.status = irq.status
      BY <1>1, <1>4 DEF ClearIrqStatus
    <2>2. chip' = [Awake(chip) EXCEPT !.irq = {}]
      BY <1>4, ServeTyped DEF ClearIrqStatus
    <2>3. chip'.ended = Awake(chip).ended /\ chip'.mode = Awake(chip).mode
      BY <1>2, <2>2 DEF Chips
    <2>4. Pending # {}
      BY <2>1 DEF ServiceInv, Unserved
    <2> QED BY <1>2, <1>4, <2>1, <2>3, <2>4 DEF ClearIrqStatus, Pending, Calm
  <1> QED BY <1>3, <1>4

\* RadioTask keeps the invariant.
LEMMA ServiceInvRadioTask ==
    ASSUME TypeInv, CallInv, FrameInv, ServiceInv, RadioTask
    PROVE  ServiceInv'
  <1>1. SameConfiguration(chip, chip') /\ mode' = mode
    BY RadioTaskKeeps
  <1>2. CASE GetIrqStatus \/ ClearIrqStatus
    <2>1. /\ Pending # {} /\ Pending' = Pending
          /\ chip'.ended = chip.ended /\ (chip'.mode = chip.mode \/ (Calm(chip) /\ Calm(chip')))
          /\ call' = call
      BY <1>2, RadioTaskServes
    <2>2. \A ended, noted, raised : Over(ended, noted, raised) => Over(ended, noted, raised)'
      BY <1>1, <2>1 DEF Over, Calm
    <2>3. chip.mode = "rx_continuous" => chip'.mode = "rx_continuous"
      BY <2>1 DEF Calm
    <2>4. Unserved'
      BY <2>1, <2>2, <2>3 DEF ServiceInv, Unserved
    <2> QED BY <1>1, <2>1, <2>4, StillSettled DEF ServiceInv
  <1>3. CASE HandleIrq
    <2>1. irq.pc = "handle" /\ irq'.pc = "pend" /\ chip' = chip /\ chip.irq = {} /\ call' = call
      BY <1>3 DEF HandleIrq, FrameInv
    <2>2. Unserved'
      BY <2>1 DEF Unserved, Pending
    <2> QED BY <1>1, <2>1, <2>2, StillSettled DEF ServiceInv
  <1> QED BY <1>2, <1>3 DEF RadioTask

-----------------------------------------------------------------------------
(* The calls of the MAC *)

\* A call of the layers above keeps the invariant.
LEMMA ServiceInvMac ==
    ASSUME \A window \in Windows : window.continuous => window.modem = "LORA",
           TypeInv, CallInv, FrameInv, ServiceInv, Mac
    PROVE  ServiceInv'
  <1>1. ASSUME NEW name, NEW starts, NEW modem, NEW steps, Call(name, starts, modem, steps)
        PROVE  /\ UNCHANGED <<chip, mode, irq>> /\ call.name = "none"
               /\ call'.name = name /\ call'.starts = starts /\ call'.modem = modem
               /\ call'.todo = steps
               /\ Unserved'
    <2>1. Scheduled /\ UNCHANGED <<chip, mode, irq>> /\ call.name = "none"
      BY <1>1 DEF Call
    <2>2. chip.irq = {} /\ irq.pc = "pend"
      BY <2>1, Quiet DEF Scheduled
    <2>3. Unserved'
      BY <2>1, <2>2 DEF Unserved, Pending
    <2> QED BY <1>1, <2>1, <2>3 DEF Call
  <1>2. call.name = "none" => /\ chip.mode = "tx" => chip.mask = TxMask
                              /\ chip.mode \in {"rx", "rx_continuous"} => chip.mask = RxMask
    BY DEF ServiceInv, Masked
  <1>3. ASSUME NEW modem \in TxModems, Transmit(modem) PROVE ServiceInv'
    <2>1. AtRest /\ Call("send", "tx", modem, set_channel \o set_config(mode, modem) \o send)
      BY <1>3 DEF Transmit
    <2> QED BY <1>1, <1>2, <2>1 DEF ServiceInv, Settled, Masked, AtRest
  <1>4. ASSUME NEW window \in Windows, Listen(window) PROVE ServiceInv'
    <2> DEFINE starts == IF window.continuous THEN "rx_continuous" ELSE "rx"
    <2>1. AtRest /\ Call("receive", starts, window.modem,
                         set_channel \o set_config(mode, window.modem) \o receive(window))
      BY <1>4 DEF Listen
    <2>2. starts = "rx_continuous" => window.modem = "LORA"
      OBVIOUS
    <2> HIDE DEF starts
    <2> QED BY <1>1, <1>2, <2>1, <2>2 DEF ServiceInv, Settled, Masked, AtRest
  <1>5. CASE PutToSleep
    <2>1. Call("sleep", "rest", call.modem, sleep)
      BY <1>5 DEF PutToSleep
    <2> QED BY <1>1, <1>2, <2>1 DEF ServiceInv, Settled, Masked
  <1>6. CASE PutToStandby
    <2>1. AtRest /\ Call("standby", "rest", call.modem, standby(mode, call.modem))
      BY <1>6 DEF PutToStandby
    <2> QED BY <1>1, <1>2, <2>1 DEF ServiceInv, Settled, Masked, AtRest
  <1>7. CASE Draw
    <2>1. mode = "SLEEP" /\ Call("random", "rest", "LORA", random("SLEEP"))
      BY <1>7 DEF Draw
    <2>2. call.name = "none"
      BY <2>1 DEF Call
    <2>3. chip.mask = {}
      BY <2>1, <2>2 DEF ServiceInv, Masked
    <2>4. /\ Free(random("SLEEP"), Doing({"DIOIRQ"}))
          /\ random("SLEEP")[Len(random("SLEEP"))].with = "STDBY_RC"
      BY <2>1, <2>2, IdleCalm, RandomCall DEF Calm
    <2> QED BY <1>1, <2>1, <2>3, <2>4 DEF ServiceInv, Settled, Masked
  <1> QED BY <1>3, <1>4, <1>5, <1>6, <1>7 DEF Mac

\* Every step keeps the invariant.
LEMMA ServiceInvNext ==
    ASSUME Prompt, \A window \in Windows : window.continuous => window.modem = "LORA"
    PROVE  TypeInv /\ CallInv /\ FrameInv /\ ServiceInv /\ [Next]_vars => ServiceInv'
  <1> SUFFICES ASSUME TypeInv, CallInv, FrameInv, ServiceInv, [Next]_vars PROVE ServiceInv'
    OBVIOUS
  <1>1. CASE Select
    <2>1. /\ SameConfiguration(chip, chip') /\ UNCHANGED <<chip, mode, irq>>
          /\ call'.name = call.name /\ call'.starts = call.starts /\ call'.modem = call.modem
          /\ call'.todo = call.todo
      BY <1>1 DEF Select, TypeInv, CallRecords, SameConfiguration
    <2>2. Pending' = Pending
      BY <2>1 DEF Pending
    <2>3. Unserved'
      BY <2>1, <2>2 DEF ServiceInv, Unserved, Over, Calm
    <2> QED BY <2>1, <2>3, StillSettled DEF ServiceInv
  <1>2. CASE UNCHANGED vars
    BY <1>2 DEF vars, ServiceInv, Settled, Masked, Unserved, Over, Calm, AtRest, Pending
  <1> QED
    BY <1>1, <1>2, ServiceInvStep, ServiceInvChip, ServiceInvRadioTask, ServiceInvMac
    DEF Next, LoRaTask


-----------------------------------------------------------------------------
(* Each step is one of the service's *)

Events == [i \in DOMAIN reports |-> reports[i].event]

Unseen == Mode' = Mode /\ call'.starts = call.starts /\ Events' = Events

\* What the layers above do not see is a stutter of the service.
LEMMA UnseenStep == Unseen => UNCHANGED Service!vars
  BY DEF Unseen, Events, Service!vars

\* A step that reports nothing is one of these.
LEMMA Actions ==
    /\ /\ call.starts = "nothing" /\ call'.starts \in {"tx", "rx", "rx_continuous", "rest"}
       /\ Mode' = Mode /\ Events' = Events
       => Service!Next
    /\ /\ Mode = "rest" /\ call.starts \in {"tx", "rx", "rx_continuous"} /\ Mode' = call.starts
       /\ call'.starts = call.starts /\ Events' = Events
       => Service!Next
    /\ /\ Mode # "rest" /\ call.starts # "nothing"
       /\ Mode = "rx_continuous" \/ call.starts # Mode
       /\ Mode' = "rest" /\ call'.starts \in {call.starts, "nothing"} /\ Events' = Events
       => Service!Next
    /\ /\ call.starts # "nothing" /\ call'.starts = "nothing" /\ Mode' = Mode /\ Events' = Events
       => Service!Next
    /\ /\ \E event \in Service!Events(Mode) : Events' = Append(Events, event)
       /\ Mode' = IF Mode = "rx_continuous" THEN Mode ELSE "rest"
       /\ call'.starts = call.starts
       => Service!Next
  BY DEF Events, Service!Next, Service!Call, Service!Start, Service!CallOff, Service!Return,
         Service!Report

\* A call begins.
LEMMA CallMaps ==
    ASSUME TypeInv, CallInv, FrameInv, NEW name \in {"send", "receive", "sleep", "standby", "random"},
           NEW starts \in {"tx", "rx", "rx_continuous", "rest"}, NEW modem, NEW steps,
           Call(name, starts, modem, steps), name = "random" => mode = "SLEEP"
    PROVE  Service!Next
  <1>1. /\ UNCHANGED <<chip, mode, irq, reports>> /\ call.name = "none"
        /\ call'.name = name /\ call'.starts = starts
    BY DEF Call
  <1>2. call.starts = "nothing"
    BY <1>1 DEF CallInv, Named
  <1>3. CASE name # "random"
    <2>1. Mode' = Mode
      BY <1>1, <1>3 DEF Mode
    <2> QED BY <1>1, <1>2, <2>1, Actions DEF Events
  <1>4. CASE name = "random"
    <2>1. Calm(chip) /\ Pending = {}
      BY <1>1, <1>4, IdleCalm, Quiet DEF Call
    <2>2. Mode = "rest" /\ Mode' = "rest"
      BY <1>1, <1>4, <2>1, ModeSeen DEF Mode
    <2> QED BY <1>1, <1>2, <2>2, Actions DEF Events
  <1> QED BY <1>3, <1>4

\* A call, and each of its steps, is an action of the service.
LEMMA MacMaps ==
    ASSUME TypeInv, CallInv, FrameInv, Mac
    PROVE  Service!Next
  <1>1. ASSUME NEW modem \in TxModems, Transmit(modem) PROVE Service!Next
    <2>1. Call("send", "tx", modem, set_channel \o set_config(mode, modem) \o send)
      BY <1>1 DEF Transmit
    <2> QED BY <2>1, CallMaps
  <1>2. ASSUME NEW window \in Windows, Listen(window) PROVE Service!Next
    <2> DEFINE starts == IF window.continuous THEN "rx_continuous" ELSE "rx"
    <2>1. Call("receive", starts, window.modem,
               set_channel \o set_config(mode, window.modem) \o receive(window))
      BY <1>2 DEF Listen
    <2> QED BY <2>1, CallMaps
  <1>3. CASE PutToSleep
    <2>1. Call("sleep", "rest", call.modem, sleep)
      BY <1>3 DEF PutToSleep
    <2> QED BY <2>1, CallMaps
  <1>4. CASE PutToStandby
    <2>1. Call("standby", "rest", call.modem, standby(mode, call.modem))
      BY <1>4 DEF PutToStandby
    <2> QED BY <2>1, CallMaps
  <1>5. CASE Draw
    <2>1. mode = "SLEEP" /\ Call("random", "rest", "LORA", random("SLEEP"))
      BY <1>5 DEF Draw
    <2> QED BY <2>1, CallMaps
  <1> QED BY <1>1, <1>2, <1>3, <1>4, <1>5 DEF Mac

\* A step of a call starts something, calls something off, or is not seen; the last
\* one returns.
LEMMA StepMaps ==
    ASSUME TypeInv, CallInv, FrameInv, ServiceInv, Note \/ Deselect, TypeInv'
    PROVE  Service!Next \/ UNCHANGED Service!vars
  <1>1. Scheduled /\ irq' = irq /\ reports' = reports
    BY TaskStep
  <1>2. Pending = {} /\ chip.irq = {} /\ irq.status = {}
    BY <1>1, Quiet
  <1>3. Events' = Events
    BY <1>1 DEF Events
  <1>4. /\ call.name = "random" => Mode = "rest"
        /\ call.name # "random" /\ chip.mode \in Underway => Mode = chip.mode
        /\ call.name # "random" /\ Calm(chip) => Mode = "rest"
        /\ chip.mode \in Underway \/ Calm(chip)
    BY <1>2, ModeSeen
  <1>5. ASSUME chip'.irq = {}
        PROVE  /\ call'.name = "random" => Mode' = "rest"
               /\ call'.name # "random" /\ chip'.mode \in Underway => Mode' = chip'.mode
               /\ call'.name # "random" /\ Calm(chip') => Mode' = "rest"
               /\ chip'.mode \in Underway \/ Calm(chip')
    <2>1. chip'.mode \in ChipModes
      BY DEF TypeInv, Chips
    <2>2. irq'.status = {}
      BY <1>1, <1>2
    <2> QED BY <1>5, <2>1, <2>2 DEF Mode, Calm, Underway, ChipModes
  <1>6. Unseen => UNCHANGED Service!vars
    BY UnseenStep
  <1>7. CASE call.name = "sleep"
    <2>1. call.starts = "rest"
      BY <1>7 DEF CallInv, Named
    <2>2. CASE chip' = chip /\ mode' = "SLEEP" /\ call'.name = "sleep" /\ call'.starts = call.starts
      <3>1. Mode' = Mode
        BY <1>2, <1>4, <1>5, <1>7, <2>2
      <3> QED BY <1>3, <1>6, <2>2, <3>1 DEF Unseen
    <2>3. CASE chip' = Cold("sleep") /\ mode' = "SLEEP" /\ call'.name = "none"
                  /\ call'.starts = "nothing"
      <3>1. Mode' = "rest"
        BY <1>5, <2>3 DEF Cold, Calm
      <3>2. Mode \in {"tx", "rx", "rx_continuous", "rest"}
        BY <1>4, <1>7 DEF Underway
      <3> QED BY <1>3, <2>1, <2>3, <3>1, <3>2, Actions
    <2> QED BY <1>7, <2>2, <2>3, SleepStep
  <1>8. CASE call.name # "sleep"
    <2> DEFINE h == Head(call.todo)
    <2>1. /\ h \in Steps /\ call.name # "none" /\ call.starts # "nothing"
          /\ chip'.irq = chip.irq
          /\ h \notin Starts => chip'.mode = chip.mode \/ Calm(chip')
          /\ h \in Calming => Calm(chip)
          /\ h.does = "operation_mode" => chip' = chip
          /\ h.does # "operation_mode" => call'.name # "none"
          /\ call'.name = "none" => h = call.todo[Len(call.todo)]
          /\ \/ call'.name = "none" /\ call'.starts = "nothing"
             \/ call'.name = call.name /\ call'.starts = call.starts
          /\ Len(call.todo) = 1 => call'.name = "none"
          /\ h \in Starts /\ call.name \in {"send", "receive", "standby"} =>
                call.name # "standby" /\ chip'.mode = Starting
      BY <1>8, OtherStep
    <2>2. /\ h.does = "operation_mode" /\ h.with = "STDBY_RC" => h \in Calming
          /\ h \in Starts => h.does # "operation_mode" /\ h \in Calming
      BY <2>1 DEF Calming, Starts, Doing, Noting, With
    <2>3. call.name \in {"send", "receive", "standby", "random"}
      BY <1>8, <2>1 DEF TypeInv, CallRecords
    <2> HIDE DEF h
    <2>4. CASE call.name = "random"
      <3>1. CASE call'.name = "random"
        <4>1. Mode' = Mode
          BY <1>2, <1>4, <1>5, <2>1, <2>4, <3>1
        <4> QED BY <1>3, <1>6, <2>1, <2>4, <3>1, <4>1 DEF Unseen
      <3>2. CASE call'.name # "random"
        <4>1. call'.name = "none" /\ call'.starts = "nothing"
          BY <2>1, <2>4, <3>2
        <4>2. h.does = "operation_mode" /\ h.with = "STDBY_RC"
          BY <2>1, <2>4, <4>1 DEF ServiceInv, Masked
        <4>3. Calm(chip')
          BY <2>1, <2>2, <4>2
        <4>4. Mode' = Mode
          BY <1>2, <1>4, <1>5, <2>1, <2>4, <3>2, <4>3
        <4> QED BY <1>3, <2>1, <4>1, <4>4, Actions
      <3> QED BY <3>1, <3>2
    <2>5. CASE call.name # "random" /\ h \in Starts
      <3>1. call.name \in {"send", "receive"} /\ call'.starts = call.starts /\ call'.name = call.name
        BY <2>1, <2>2, <2>3, <2>5
      <3>2. Starting = call.starts
        BY DEF Starting, ServiceInv, Settled
      <3>3. call.starts \in {"tx", "rx", "rx_continuous"}
        BY <3>1 DEF CallInv, Named
      <3>4. Mode = "rest"
        BY <1>4, <2>1, <2>2, <2>5
      <3>5. Mode' = call.starts
        BY <1>2, <1>5, <2>1, <2>3, <2>5, <3>1, <3>2, <3>3 DEF Underway
      <3> QED BY <1>3, <3>1, <3>3, <3>4, <3>5, Actions
    <2>6. CASE call.name # "random" /\ h \notin Starts /\ chip'.mode = chip.mode
      <3>1. Mode' = Mode
        BY <1>2, <1>4, <1>5, <2>1, <2>6 DEF Calm
      <3> QED BY <1>3, <1>6, <2>1, <3>1, Actions DEF Unseen
    <2>7. CASE call.name # "random" /\ h \notin Starts /\ chip'.mode # chip.mode /\ Calm(chip')
      <3>1. call'.name = call.name /\ call'.starts = call.starts /\ Len(call.todo) # 1
        BY <2>1, <2>7
      <3>2. AtRest
        BY <2>3, <2>7, <3>1 DEF ServiceInv, Settled
      <3>3. Mode \in {"rest", "rx_continuous"}
        BY <1>4, <2>7, <3>2 DEF AtRest, Calm
      <3>4. Mode' = "rest"
        BY <1>2, <1>5, <2>1, <2>7, <3>1
      <3> QED BY <1>3, <1>6, <2>1, <3>1, <3>3, <3>4, Actions DEF Unseen
    <2> QED BY <2>1, <2>4, <2>5, <2>6, <2>7
  <1> QED BY <1>7, <1>8


\* The end of what is under way is seen when RadioTask has dealt with it.
LEMMA ChipMaps ==
    ASSUME TypeInv, CallInv, FrameInv, ServiceInv, Prompt, Chip
    PROVE  UNCHANGED Service!vars
  <1>1. UNCHANGED <<mode, call, irq, reports>>
    BY ChipKeeps
  <1>2. Mode' = Mode
    <2>1. CASE call.name = "random"
      BY <1>1, <2>1 DEF Mode
    <2>2. CASE call.name # "random" /\ Spoken("tx", "standby", {{"TX_DONE"}, {"RX_TX_TIMEOUT"}})
      <3>1. chip.mode = "tx" /\ chip.mask = TxMask
        BY <2>2 DEF ServiceInv, Masked, Spoken
      <3>2. chip'.irq # {} /\ chip'.mode = "standby" /\ chip'.ended = "tx"
        BY <2>2, <3>1 DEF Spoken, TxMask
      <3> QED BY <1>1, <2>2, <3>1, <3>2 DEF Mode, Underway
    <2>3. CASE /\ call.name # "random"
               /\ Spoken("rx", "standby", {{"RX_DONE"}, {"RX_DONE", "CRC_ERROR"}, {"RX_TX_TIMEOUT"}})
      <3>1. chip.mode = "rx" /\ chip.mask = RxMask
        BY <2>3 DEF ServiceInv, Masked, Spoken
      <3>2. chip'.irq # {} /\ chip'.mode = "standby" /\ chip'.ended = "rx"
        BY <2>3, <3>1 DEF Spoken, RxMask
      <3> QED BY <1>1, <2>3, <3>1, <3>2 DEF Mode, Underway
    <2>4. CASE /\ call.name # "random"
               /\ Spoken("rx_continuous", "rx_continuous", {{"RX_DONE"}, {"RX_DONE", "CRC_ERROR"}})
      BY <1>1, <2>4 DEF Mode, Spoken, Underway
    <2> QED BY <2>1, <2>2, <2>3, <2>4, ChipSpeaks
  <1> QED BY <1>1, <1>2, UnseenStep DEF Unseen, Events

\* handle_dio1_irq() reports it, unless sleep() has called it off.
LEMMA HandleIrqMaps ==
    ASSUME TypeInv, CallInv, FrameInv, ServiceInv, HandleIrq
    PROVE  Service!Next
  <1>1. /\ irq.pc = "handle" /\ irq' = [pc |-> "pend", status |-> {}]
        /\ UNCHANGED <<chip, mode, call>> /\ chip.irq = {}
        /\ reports' = reports \o Callbacks(irq.status, chip.fifo)
    BY DEF HandleIrq, FrameInv
  <1>2. /\ Pending = irq.status /\ Pending # {} /\ call.name # "random"
    BY <1>1 DEF ServiceInv, Unserved, Pending
  <1>3. Mode' = IF chip.mode \in Underway THEN chip.mode ELSE "rest"
    BY <1>1, <1>2 DEF Mode
  <1>4. reports \in Seq(Reports) /\ chip.fifo \in 0 .. MaxFrames /\ 0 \in 0 .. MaxFrames
    BY RadioDriverAssumption DEF TypeInv, Chips, RadioDriverAssumption
  <1>5. ASSUME NEW event \in {"tx_done", "tx_timeout", "rx_done", "rx_error", "rx_timeout"},
               NEW frame \in 0 .. MaxFrames,
               Callbacks(irq.status, chip.fifo) = <<[event |-> event, frame |-> frame]>>
        PROVE  Events' = Append(Events, event)
    <2> DEFINE r == [event |-> event, frame |-> frame]
    <2>1. r \in Reports /\ r.event = event
      BY DEF Reports
    <2>2. reports' = reports \o <<r>>
      BY <1>1, <1>5
    <2> HIDE DEF r
    <2> QED BY <1>4, <2>1, <2>2, EventsAppend DEF Events
  <1>6. CASE Over("tx", "TX", {{"TX_DONE"}, {"RX_TX_TIMEOUT"}})
    <2>1. Mode = "tx" /\ Mode' = "rest"
      BY <1>2, <1>3, <1>6, ModeSeen DEF Over, Calm, Underway
    <2>2. CASE irq.status = {"TX_DONE"}
      <3>1. Events' = Append(Events, "tx_done")
        BY <1>4, <1>5, <2>2, OneCallback
      <3> QED BY <1>1, <2>1, <3>1, Actions DEF Service!Events
    <2>3. CASE irq.status = {"RX_TX_TIMEOUT"} /\ mode = "TX"
      <3>1. Events' = Append(Events, "tx_timeout")
        BY <1>4, <1>5, <2>3, OneCallback
      <3> QED BY <1>1, <2>1, <3>1, Actions DEF Service!Events
    <2>4. CASE irq.status = {"RX_TX_TIMEOUT"} /\ mode = "SLEEP" /\ call.name = "sleep"
      <3>1. reports' = reports
        <4>1. reports' = reports \o <<>>
          BY <1>1, <2>4, OneCallback
        <4> QED BY <1>4, <4>1, ConcatEmptySeq
      <3>2. call.starts = "rest"
        BY <2>4 DEF CallInv, Named
      <3> QED BY <1>1, <2>1, <3>1, <3>2, Actions DEF Events
    <2> QED BY <1>2, <1>6, <2>2, <2>3, <2>4 DEF Over
  <1>7. CASE Over("rx", "RX", {{"RX_DONE"}, {"RX_DONE", "CRC_ERROR"}, {"RX_TX_TIMEOUT"}})
    <2>1. Mode = "rx" /\ Mode' = "rest"
      BY <1>2, <1>3, <1>7, ModeSeen DEF Over, Calm, Underway
    <2>2. CASE irq.status = {"RX_DONE"}
      <3>1. Events' = Append(Events, "rx_done")
        BY <1>4, <1>5, <2>2, OneCallback
      <3> QED BY <1>1, <2>1, <3>1, Actions DEF Service!Events
    <2>3. CASE irq.status = {"RX_DONE", "CRC_ERROR"}
      <3>1. Events' = Append(Events, "rx_error")
        BY <1>4, <1>5, <2>3, OneCallback
      <3> QED BY <1>1, <2>1, <3>1, Actions DEF Service!Events
    <2>4. CASE irq.status = {"RX_TX_TIMEOUT"} /\ mode = "RX"
      <3>1. Events' = Append(Events, "rx_timeout")
        BY <1>4, <1>5, <2>4, OneCallback
      <3> QED BY <1>1, <2>1, <3>1, Actions DEF Service!Events
    <2>5. CASE irq.status = {"RX_TX_TIMEOUT"} /\ mode = "SLEEP" /\ call.name = "sleep"
      <3>1. reports' = reports
        <4>1. reports' = reports \o <<>>
          BY <1>1, <2>5, OneCallback
        <4> QED BY <1>4, <4>1, ConcatEmptySeq
      <3>2. call.starts = "rest"
        BY <2>5 DEF CallInv, Named
      <3> QED BY <1>1, <2>1, <3>1, <3>2, Actions DEF Events
    <2> QED BY <1>2, <1>7, <2>2, <2>3, <2>4, <2>5 DEF Over
  <1>8. CASE /\ chip.ended = "rx_continuous" /\ chip.mode = "rx_continuous"
             /\ Pending \in {{"RX_DONE"}, {"RX_DONE", "CRC_ERROR"}}
    <2>1. Mode = "rx_continuous" /\ Mode' = "rx_continuous"
      BY <1>2, <1>3, <1>8, ModeSeen DEF Underway
    <2>2. CASE irq.status = {"RX_DONE"}
      <3>1. Events' = Append(Events, "rx_done")
        BY <1>4, <1>5, <2>2, OneCallback
      <3> QED BY <1>1, <2>1, <3>1, Actions DEF Service!Events
    <2>3. CASE irq.status = {"RX_DONE", "CRC_ERROR"}
      <3>1. Events' = Append(Events, "rx_error")
        BY <1>4, <1>5, <2>3, OneCallback
      <3> QED BY <1>1, <2>1, <3>1, Actions DEF Service!Events
    <2> QED BY <1>2, <1>8, <2>2, <2>3
  <1> QED BY <1>2, <1>6, <1>7, <1>8 DEF ServiceInv, Unserved

\* A step of RadioTask reports an event of the service or is not seen.
LEMMA RadioTaskMaps ==
    ASSUME TypeInv, CallInv, FrameInv, ServiceInv, RadioTask
    PROVE  Service!Next \/ UNCHANGED Service!vars
  <1>1. CASE GetIrqStatus \/ ClearIrqStatus
    <2>1. /\ Pending # {} /\ Pending' = Pending
          /\ chip'.ended = chip.ended /\ (chip'.mode = chip.mode \/ (Calm(chip) /\ Calm(chip')))
          /\ call' = call /\ reports' = reports
      BY <1>1, RadioTaskServes
    <2>2. chip'.irq # {} \/ irq'.status # {}
      BY <2>1 DEF Pending
    <2>3. Mode' = Mode
      <3>1. chip.irq # {} \/ irq.status # {}
        BY <2>1 DEF Pending
      <3> QED BY <2>1, <2>2, <3>1 DEF Mode, Calm, Underway
    <2> QED BY <2>1, <2>3, UnseenStep DEF Unseen, Events
  <1>2. CASE HandleIrq
    BY <1>2, HandleIrqMaps
  <1> QED BY <1>1, <1>2 DEF RadioTask

\* When the chip leaves the driver time to note what it started and RadioTask time to
\* report, no interrupt comes in the middle of a command, and continuous receptions
\* are of LoRa, the driver and handle_dio1_irq() do what LoRaRadio.h promises and
\* LoRaDevice assumes: nothing is started over what is under way, what was started
\* ends by an event of its own or is called off, and no event comes from nothing.
THEOREM DriverImplementsService ==
    Prompt /\ ~Torn /\ (\A window \in Windows : window.continuous => window.modem = "LORA") /\ Spec
    => Service!Init /\ [][Service!Next]_(Service!vars)
  <1> SUFFICES ASSUME Prompt, ~Torn, \A window \in Windows : window.continuous => window.modem = "LORA"
               PROVE  Spec => Service!Init /\ [][Service!Next]_(Service!vars)
    OBVIOUS
  <1> DEFINE Inv == TypeInv /\ CallInv /\ FrameInv /\ ServiceInv
  <1>1. Init => Inv
    BY TypeInvInit, CallInvInit, FrameInvInit, ServiceInvInit
  <1>2. Inv /\ [Next]_vars => Inv'
    BY TypeInvNext, CallInvNext, FrameInvNext, ServiceInvNext
  <1>3. Init => Service!Init
    BY DEF Init, Service!Init, Mode, Cold, Underway
  <1>4. Inv /\ Inv' /\ [Next]_vars => [Service!Next]_(Service!vars)
    <2> SUFFICES ASSUME Inv, Inv', [Next]_vars PROVE Service!Next \/ UNCHANGED Service!vars
      OBVIOUS
    <2>1. CASE Select
      <3>1. Unseen
        BY <2>1 DEF Select, Unseen, Mode, Events, TypeInv, CallRecords
      <3> QED BY <3>1, UnseenStep
    <2>2. CASE UNCHANGED vars
      BY <2>2, UnseenStep DEF vars, Unseen, Mode, Events
    <2> QED
      BY <2>1, <2>2, MacMaps, StepMaps, ChipMaps, RadioTaskMaps DEF Next, LoRaTask
  <1> HIDE DEF Inv
  <1> QED BY <1>1, <1>2, <1>3, <1>4, PTL DEF Spec

=============================================================================
