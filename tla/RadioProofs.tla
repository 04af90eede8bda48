----------------------------- MODULE RadioProofs -----------------------------
(***************************************************************************)
(* Proofs about RadioDriver, for every value of the constants: the driver  *)
(* and its interrupt handler stay within their types, and frames are       *)
(* handed over intact.                                                     *)
(***************************************************************************)
EXTENDS RadioProperties, SequenceTheorems, TLAPS

-----------------------------------------------------------------------------
(* The steps of a call *)

DriverModes == {"SLEEP", "STDBY_RC", "TX", "RX"}
RxMask == {"RX_DONE", "RX_TX_TIMEOUT", "CRC_ERROR"}
TxMask == {"TX_DONE", "RX_TX_TIMEOUT"}
Masks == {{}, RxMask, TxMask}
Plain == Settings \union {"SELECT", "STANDBY", "SLEEP", "CALIBRATEIMAGE", "WRITE_BUFFER",
                          "TX", "READ_REGISTER"}

Commands(name, args) == {[does |-> name, with |-> arg] : arg \in args}
Steps ==
    Commands("operation_mode", DriverModes)
        \union Commands("PACKETTYPE", Modems)
        \union Commands("SYNCWORD", {Network})
        \union Commands("DIOIRQ", {RxMask, TxMask})
        \union Commands("RX", {"rx", "rx_continuous"})
        \union {[does |-> name, with |-> ""] : name \in Plain}

\* What a step may be.
LEMMA StepCases ==
    ASSUME NEW step \in Steps
    PROVE  /\ step.does = "operation_mode" => step.with \in DriverModes
           /\ step.does = "PACKETTYPE" => step.with \in Modems
           /\ step.does = "SYNCWORD" => step.with = Network
           /\ step.does = "DIOIRQ" => step.with \in {RxMask, TxMask}
           /\ step.does = "RX" => step.with \in {"rx", "rx_continuous"}
  <1>1. CASE step \in Commands("operation_mode", DriverModes)
    BY <1>1 DEF Commands
  <1>2. CASE step \in Commands("PACKETTYPE", Modems)
    BY <1>2 DEF Commands
  <1>3. CASE step \in Commands("SYNCWORD", {Network})
    BY <1>3 DEF Commands
  <1>4. CASE step \in Commands("DIOIRQ", {RxMask, TxMask})
    BY <1>4 DEF Commands
  <1>5. CASE step \in Commands("RX", {"rx", "rx_continuous"})
    BY <1>5 DEF Commands
  <1>6. CASE step \in {[does |-> name, with |-> ""] : name \in Plain}
    <2>1. PICK name \in Plain : step = [does |-> name, with |-> ""]
      BY <1>6
    <2>2. /\ "operation_mode" \notin Plain /\ "PACKETTYPE" \notin Plain
          /\ "SYNCWORD" \notin Plain /\ "DIOIRQ" \notin Plain /\ "RX" \notin Plain
      BY DEF Plain, Settings
    <2>3. step.does = name
      BY <2>1
    <2> QED BY <2>2, <2>3
  <1> QED BY <1>1, <1>2, <1>3, <1>4, <1>5, <1>6 DEF Steps

\* The commands of the calls consist of steps.
LEMMA CommandSteps ==
    /\ \A m \in DriverModes : Assign(m) \in Seq(Steps)
    /\ \A modem \in Modems : Command("PACKETTYPE", modem) \in Seq(Steps)
    /\ Command("SYNCWORD", Network) \in Seq(Steps)
    /\ Command("DIOIRQ", RxMask) \in Seq(Steps)
    /\ Command("DIOIRQ", TxMask) \in Seq(Steps)
    /\ \A kind \in {"rx", "rx_continuous"} : Command("RX", kind) \in Seq(Steps)
    /\ \A name \in Plain : Command(name, "") \in Seq(Steps)
  <1>1. /\ \A m \in DriverModes : [does |-> "operation_mode", with |-> m] \in Steps
        /\ \A modem \in Modems : [does |-> "PACKETTYPE", with |-> modem] \in Steps
        /\ [does |-> "SYNCWORD", with |-> Network] \in Steps
        /\ \A mask \in {RxMask, TxMask} : [does |-> "DIOIRQ", with |-> mask] \in Steps
        /\ \A kind \in {"rx", "rx_continuous"} : [does |-> "RX", with |-> kind] \in Steps
        /\ \A name \in Plain : [does |-> name, with |-> ""] \in Steps
    BY DEF Steps, Commands
  <1>2. ASSUME NEW step \in Steps PROVE <<step>> \in Seq(Steps)
    OBVIOUS
  <1> QED BY <1>1, <1>2 DEF Command, Assign

\* Every call of the driver is a sequence of such steps.
LEMMA CallSteps ==
    ASSUME NEW m \in DriverModes, NEW modem \in Modems
    PROVE  /\ standby(m, modem) \in Seq(Steps)
           /\ set_channel \o set_config(m, modem) \in Seq(Steps)
           /\ send \in Seq(Steps)
           /\ sleep \in Seq(Steps)
           /\ random(m) \in Seq(Steps)
           /\ \A window \in Windows : receive(window) \in Seq(Steps)
  <1>1. ASSUME NEW s \in Seq(Steps), NEW t \in Seq(Steps) PROVE s \o t \in Seq(Steps)
    OBVIOUS
  <1>2. <<>> \in Seq(Steps)
    OBVIOUS
  <1>3. /\ Assign("STDBY_RC") \in Seq(Steps) /\ Assign("SLEEP") \in Seq(Steps)
        /\ Assign("TX") \in Seq(Steps) /\ Assign("RX") \in Seq(Steps)
    BY CommandSteps DEF DriverModes
  <1>4. \A name \in Plain : Command(name, "") \in Seq(Steps)
    BY CommandSteps
  <1>5. /\ Command("REGULATORMODE", "") \in Seq(Steps)
        /\ Command("RFSWITCHMODE", "") \in Seq(Steps)
        /\ Command("RFFREQUENCY", "") \in Seq(Steps)
        /\ Command("FSK_SYNCWORD", "") \in Seq(Steps)
        /\ Command("MODULATIONPARAMS", "") \in Seq(Steps)
        /\ Command("PACKETPARAMS", "") \in Seq(Steps)
        /\ Command("SELECT", "") \in Seq(Steps)
        /\ Command("STANDBY", "") \in Seq(Steps)
        /\ Command("SLEEP", "") \in Seq(Steps)
        /\ Command("CALIBRATEIMAGE", "") \in Seq(Steps)
        /\ Command("WRITE_BUFFER", "") \in Seq(Steps)
        /\ Command("TX", "") \in Seq(Steps)
        /\ Command("READ_REGISTER", "") \in Seq(Steps)
    BY <1>4 DEF Plain, Settings
  <1>6. \A other \in Modems : standby(m, other) \in Seq(Steps)
    <2> TAKE other \in Modems
    <2>1. Command("PACKETTYPE", other) \in Seq(Steps) /\ set_public_network \in Seq(Steps)
      BY CommandSteps DEF set_public_network
    <2>2. (IF other = "LORA" THEN set_public_network ELSE <<>>) \in Seq(Steps)
      BY <1>2, <2>1
    <2>3. cold_start_wakeup(other) \in Seq(Steps)
      BY <1>1, <1>3, <1>5, <2>1, <2>2, Zenon DEF cold_start_wakeup
    <2>4. wakeup(other) \in Seq(Steps)
      BY <1>1, <1>5, <2>3, Zenon DEF wakeup
    <2>5. (IF m = "SLEEP" THEN wakeup(other) ELSE <<>>) \in Seq(Steps)
      BY <1>2, <2>4
    <2>6. (IF m = "SLEEP" THEN wakeup(other) ELSE <<>>) \o Command("STANDBY", "")
              \o Assign("STDBY_RC") \in Seq(Steps)
      BY <1>1, <1>3, <1>5, <2>5, Zenon
    <2> QED BY <1>2, <2>6 DEF standby
  <1>7. \A other \in Modems : set_modem(m, other) \in Seq(Steps)
    BY <1>1, <1>6, CommandSteps, Zenon DEF set_modem
  <1>8. set_config(m, modem) \in Seq(Steps)
    <2>1. (IF modem = "FSK" THEN Command("FSK_SYNCWORD", "") ELSE <<>>) \in Seq(Steps)
      BY <1>2, <1>5
    <2> QED BY <1>1, <1>7, <2>1, Zenon DEF set_config
  <1>9. set_channel \in Seq(Steps) /\ set_params \in Seq(Steps)
    BY <1>1, <1>5, Zenon DEF set_channel, set_params
  <1>10. send \in Seq(Steps)
    <2>1. Command("DIOIRQ", {"TX_DONE", "RX_TX_TIMEOUT"}) \in Seq(Steps)
      BY CommandSteps DEF TxMask
    <2> QED BY <1>1, <1>3, <1>5, <1>9, <2>1, Zenon DEF send
  <1>11. sleep \in Seq(Steps)
    BY <1>1, <1>3, <1>5, Zenon DEF sleep
  <1>12. random(m) \in Seq(Steps)
    <2>1. Command("RX", "rx_continuous") \in Seq(Steps) /\ set_modem(m, "LORA") \in Seq(Steps)
      BY <1>7, CommandSteps DEF Modems
    <2> QED BY <1>1, <1>3, <1>5, <2>1, Zenon DEF random
  <1>13. ASSUME NEW window \in Windows PROVE receive(window) \in Seq(Steps)
    <2>1. Command("DIOIRQ", {"RX_DONE", "RX_TX_TIMEOUT", "CRC_ERROR"}) \in Seq(Steps)
      BY CommandSteps DEF RxMask
    <2>2. Command("RX", rx_timeout(window)) \in Seq(Steps)
      BY CommandSteps DEF rx_timeout
    <2> QED BY <1>1, <1>3, <1>9, <2>1, <2>2, Zenon DEF receive
  <1> QED BY <1>1, <1>6, <1>8, <1>9, <1>10, <1>11, <1>12, <1>13

-----------------------------------------------------------------------------
(* The chip *)

Chips == [mode : ChipModes, type : Modems, syncword : {"public", "private"},
          settings : SUBSET Settings, mask : Masks, irq : SUBSET Irqs,
          fifo : 0 .. MaxFrames, ended : ChipModes]

\* The chip after power-on or a cold sleep, with no interrupt.
LEMMA ColdTyped == Cold("sleep") \in Chips /\ Cold("sleep").irq = {}
  <1>1. 0 \in 0 .. MaxFrames
    BY RadioDriverAssumption DEF RadioDriverAssumption
  <1>2. {} \in Masks
    BY DEF Masks
  <1> QED BY <1>1, <1>2 DEF Cold, Chips, ChipModes, Modems

\* The chip when it has been selected.
Awake(c) == IF c.mode = "sleep" THEN [c EXCEPT !.mode = "standby"] ELSE c

\* Waking the chip leaves its interrupts, buffer and mask as they are.
LEMMA AwakeTyped ==
    ASSUME NEW c \in Chips
    PROVE  /\ Awake(c) \in Chips
           /\ Awake(c).irq = c.irq /\ Awake(c).fifo = c.fifo /\ Awake(c).mask = c.mask
  BY DEF Awake, Chips, ChipModes

\* A command of a call leaves the interrupts as they are, but for a cold sleep.
LEMMA ExecuteTyped ==
    ASSUME NEW c \in Chips, NEW step \in Steps
    PROVE  Execute(c, step) \in Chips /\ Execute(c, step).irq \in {c.irq, {}}
  <1> DEFINE a == Awake(c)
             next == Execute(c, step)
             settled == [a EXCEPT !.mode = "standby"]
             typed == IF a.mode = "standby"
                      THEN [a EXCEPT !.type = step.with,
                                     !.settings = @ \ {"MODULATIONPARAMS", "PACKETPARAMS"}]
                      ELSE a
             synced == [a EXCEPT !.syncword = step.with]
             masked == [a EXCEPT !.mask = step.with]
             emptied == [a EXCEPT !.fifo = 0]
             sending == [a EXCEPT !.mode = "tx"]
             receiving == [a EXCEPT !.mode = step.with]
             set == [a EXCEPT !.settings = @ \union {step.does}]
  <1> SUFFICES next \in Chips /\ next.irq \in {c.irq, {}}
    OBVIOUS
  <1>1. a \in Chips /\ a.irq = c.irq
    BY AwakeTyped
  <1>2. next =
            CASE step.does = "SLEEP" -> Cold("sleep")
              [] step.does = "STANDBY" -> settled
              [] step.does = "PACKETTYPE" -> typed
              [] step.does = "SYNCWORD" -> synced
              [] step.does = "DIOIRQ" -> masked
              [] step.does = "WRITE_BUFFER" -> emptied
              [] step.does = "TX" -> sending
              [] step.does = "RX" -> receiving
              [] step.does \in Settings -> set
              [] OTHER -> a
    BY DEF Execute, Awake
  <1> HIDE DEF a, next, settled, typed, synced, masked, emptied, sending, receiving, set
  <1>3. CASE step.does = "SLEEP"
    BY <1>2, <1>3, ColdTyped DEF Settings
  <1>4. CASE step.does = "STANDBY"
    <2>1. next = settled
      BY <1>2, <1>4 DEF Settings
    <2> QED BY <1>1, <2>1 DEF Chips, ChipModes, settled
  <1>5. CASE step.does = "PACKETTYPE"
    <2>1. next = typed
      BY <1>2, <1>5 DEF Settings
    <2>2. step.with \in Modems
      BY <1>5, StepCases
    <2> QED BY <1>1, <2>1, <2>2 DEF Chips, typed
  <1>6. CASE step.does = "SYNCWORD"
    <2>1. next = synced
      BY <1>2, <1>6 DEF Settings
    <2>2. step.with \in {"public", "private"}
      BY <1>6, StepCases, RadioDriverAssumption DEF RadioDriverAssumption
    <2> QED BY <1>1, <2>1, <2>2 DEF Chips, synced
  <1>7. CASE step.does = "DIOIRQ"
    <2>1. next = masked
      BY <1>2, <1>7 DEF Settings
    <2>2. step.with \in Masks
      BY <1>7, StepCases DEF Masks
    <2> QED BY <1>1, <2>1, <2>2 DEF Chips, masked
  <1>8. CASE step.does = "WRITE_BUFFER"
    <2>1. next = emptied
      BY <1>2, <1>8 DEF Settings
    <2>2. 0 \in 0 .. MaxFrames
      BY RadioDriverAssumption DEF RadioDriverAssumption
    <2> QED BY <1>1, <2>1, <2>2 DEF Chips, emptied
  <1>9. CASE step.does = "TX"
    <2>1. next = sending
      BY <1>2, <1>9 DEF Settings
    <2> QED BY <1>1, <2>1 DEF Chips, ChipModes, sending
  <1>10. CASE step.does = "RX"
    <2>1. next = receiving
      BY <1>2, <1>10 DEF Settings
    <2>2. step.with \in ChipModes
      BY <1>10, StepCases DEF ChipModes
    <2> QED BY <1>1, <2>1, <2>2 DEF Chips, receiving
  <1>11. CASE step.does \in Settings
    <2>1. next = set
      BY <1>2, <1>11 DEF Settings
    <2> QED BY <1>1, <1>11, <2>1 DEF Chips, set
  <1>12. CASE step.does \notin Settings \union {"SLEEP", "STANDBY", "PACKETTYPE", "SYNCWORD",
                                     "DIOIRQ", "WRITE_BUFFER", "TX", "RX"}
    <2>1. next = a
      BY <1>2, <1>12 DEF Settings
    <2> QED BY <1>1, <2>1
  <1> QED BY <1>3, <1>4, <1>5, <1>6, <1>7, <1>8, <1>9, <1>10, <1>11, <1>12

\* The commands of RadioTask only select the chip.
LEMMA ServeTyped ==
    ASSUME NEW c, NEW name \in {"GET_IRQSTATUS", "CLR_IRQSTATUS"}
    PROVE  Execute(c, [does |-> name]) = Awake(c)
  BY DEF Execute, Awake, Settings

-----------------------------------------------------------------------------
(* Types *)

CallRecords ==
    [name : {"none", "send", "receive", "sleep", "standby", "random"},
     starts : Underway \union {"rest", "nothing"},
     modem : Modems, todo : Seq(Steps), selected : BOOLEAN, garbled : BOOLEAN]

Reports ==
    [event : {"tx_done", "tx_timeout", "rx_done", "rx_error", "rx_timeout"},
     frame : 0 .. MaxFrames]

\* The semaphore is posted once for the interrupts that are up, and RadioTask serves
\* none that are not.
Served ==
    /\ sema \in {0, 1}
    /\ irq.pc \in {"pend", "handle"} => (sema = 1 <=> chip.irq # {})
    /\ irq.pc = "clear" => sema = 0 /\ chip.irq # {}
    /\ irq.pc = "pend" => irq.status = {}

TypeInv ==
    /\ chip \in Chips
    /\ mode \in DriverModes
    /\ call \in CallRecords
    /\ call.selected => call.todo # <<>>
    /\ irq \in [pc : {"pend", "clear", "handle"}, status : SUBSET Irqs]
    /\ reports \in Seq(Reports)
    /\ frames \in 0 .. MaxFrames
    /\ Served

\* The invariant holds at the start.
LEMMA TypeInvInit == Init => TypeInv
  <1> SUFFICES ASSUME Init PROVE TypeInv
    OBVIOUS
  <1>1. 0 \in 0 .. MaxFrames
    BY RadioDriverAssumption DEF RadioDriverAssumption
  <1>2. call \in CallRecords
    BY DEF Init, CallRecords, Modems
  <1> QED
    BY <1>1, <1>2, ColdTyped DEF Init, TypeInv, DriverModes, Served

\* An interrupt is raised.
LEMMA RaiseTyped ==
    ASSUME TypeInv, NEW c \in Chips, c.irq = chip.irq, NEW raised \in SUBSET Irqs,
           Raise(c, raised), irq' = irq
    PROVE  chip' \in Chips /\ Served'
  <1>1. chip.mode \in ChipModes
    BY DEF TypeInv, Chips
  <1>2. chip' \in Chips /\ chip'.irq = c.irq \union (raised \intersect c.mask)
    BY <1>1 DEF Raise, Chips
  <1>3. sema' = IF chip.irq = {} /\ raised \intersect c.mask # {} THEN sema + 1 ELSE sema
    BY DEF Raise
  <1> QED BY <1>2, <1>3 DEF TypeInv, Served

\* A call begins, or takes a step.
LEMMA CallTyped ==
    ASSUME TypeInv,
           NEW name \in {"send", "receive", "sleep", "standby", "random"},
           NEW starts \in Underway \union {"rest"}, NEW modem \in Modems,
           NEW steps \in Seq(Steps), Call(name, starts, modem, steps)
    PROVE  TypeInv'
  <1>1. call' \in CallRecords /\ call'.selected = FALSE
    BY DEF Call, CallRecords
  <1> QED BY <1>1 DEF TypeInv, Call, Served

\* A call that goes on is a call, and its next step a step.
LEMMA RestTyped ==
    ASSUME TypeInv, call.todo # <<>>
    PROVE  Rest \in CallRecords /\ Rest.selected = FALSE /\ Next_step \in Steps
  <1>1. call.todo \in Seq(Steps)
    BY DEF TypeInv, CallRecords
  <1>2. Tail(call.todo) \in Seq(Steps) /\ <<>> \in Seq(Steps) /\ Head(call.todo) \in Steps
    BY <1>1
  <1> QED BY <1>2 DEF TypeInv, CallRecords, Rest, Next_step

\* RadioTask reports only what the layers above know.
LEMMA CallbacksTyped ==
    ASSUME NEW status, NEW fifo \in 0 .. MaxFrames
    PROVE  Callbacks(status, fifo) \in Seq(Reports)
  <1>1. 0 \in 0 .. MaxFrames
    BY RadioDriverAssumption DEF RadioDriverAssumption
  <1>2. ASSUME NEW s \in Seq(Reports), NEW t \in Seq(Reports) PROVE s \o t \in Seq(Reports)
    OBVIOUS
  <1>3. /\ \A event \in {"tx_done", "tx_timeout", "rx_error", "rx_timeout"} :
              <<[event |-> event, frame |-> 0]>> \in Seq(Reports)
        /\ <<[event |-> "rx_done", frame |-> fifo]>> \in Seq(Reports)
        /\ <<>> \in Seq(Reports)
    BY <1>1 DEF Reports
  <1>4. (IF "TX_DONE" \in status THEN <<[event |-> "tx_done", frame |-> 0]>> ELSE <<>>)
            \in Seq(Reports)
    BY <1>3
  <1>5. (IF "RX_DONE" \in status
         THEN IF "CRC_ERROR" \in status THEN <<[event |-> "rx_error", frame |-> 0]>>
              ELSE <<[event |-> "rx_done", frame |-> fifo]>>
         ELSE <<>>) \in Seq(Reports)
    BY <1>3
  <1>6. (IF "RX_TX_TIMEOUT" \in status
         THEN CASE mode = "TX" -> <<[event |-> "tx_timeout", frame |-> 0]>>
                [] mode = "RX" -> <<[event |-> "rx_timeout", frame |-> 0]>>
                [] OTHER -> <<>>
         ELSE <<>>) \in Seq(Reports)
    BY <1>3
  <1> QED BY <1>2, <1>4, <1>5, <1>6, Zenon DEF Callbacks

\* Every call, step of the chip and step of RadioTask keeps the types.
LEMMA TypeInvNext == TypeInv /\ [Next]_vars => TypeInv'
  <1> SUFFICES ASSUME TypeInv, [Next]_vars PROVE TypeInv'
    OBVIOUS
  <1> USE DEF TypeInv
  <1>1. AfterReception(chip) \in Chips /\ AfterReception(chip).irq = chip.irq
    BY DEF AfterReception, Chips, ChipModes
  <1>2. MaxFrames \in Nat
    BY RadioDriverAssumption DEF RadioDriverAssumption
  <1>3. CASE TransmissionEnds
    <2> DEFINE c == [chip EXCEPT !.mode = "standby"]
    <2>1. PICK raised \in {"TX_DONE", "RX_TX_TIMEOUT"} : Raise(c, {raised})
      BY <1>3 DEF TransmissionEnds
    <2>2. c \in Chips /\ c.irq = chip.irq /\ {raised} \in SUBSET Irqs
      BY DEF Chips, ChipModes, Irqs
    <2>3. irq' = irq
      BY <1>3 DEF TransmissionEnds
    <2>4. chip' \in Chips /\ Served'
      BY <2>1, <2>2, <2>3, RaiseTyped
    <2> QED BY <1>3, <2>4 DEF TransmissionEnds
  <1>4. CASE FrameReceived
    <2> DEFINE c == [AfterReception(chip) EXCEPT !.fifo = frames + 1]
    <2>1. c \in Chips /\ c.irq = chip.irq /\ {"RX_DONE"} \in SUBSET Irqs
      BY <1>1, <1>2, <1>4 DEF Chips, Irqs, FrameReceived
    <2>2. Raise(c, {"RX_DONE"}) /\ irq' = irq
      BY <1>4 DEF FrameReceived
    <2>3. chip' \in Chips /\ Served'
      BY <2>1, <2>2, RaiseTyped
    <2>4. frames' \in 0 .. MaxFrames
      BY <1>2, <1>4 DEF FrameReceived
    <2> QED BY <1>4, <2>3, <2>4 DEF FrameReceived
  <1>5. CASE FrameDamaged
    <2> DEFINE c == [AfterReception(chip) EXCEPT !.fifo = 0]
    <2>1. c \in Chips /\ c.irq = chip.irq /\ {"RX_DONE", "CRC_ERROR"} \in SUBSET Irqs
      BY <1>1, <1>2 DEF Chips, Irqs
    <2>2. Raise(c, {"RX_DONE", "CRC_ERROR"}) /\ irq' = irq
      BY <1>5 DEF FrameDamaged
    <2>3. chip' \in Chips /\ Served'
      BY <2>1, <2>2, RaiseTyped
    <2>4. frames' \in 0 .. MaxFrames
      BY <1>2, <1>5 DEF FrameDamaged
    <2> QED BY <1>5, <2>3, <2>4 DEF FrameDamaged
  <1>6. CASE NothingReceived
    <2> DEFINE c == [chip EXCEPT !.mode = "standby"]
    <2>1. c \in Chips /\ c.irq = chip.irq /\ {"RX_TX_TIMEOUT"} \in SUBSET Irqs
      BY DEF Chips, ChipModes, Irqs
    <2>2. Raise(c, {"RX_TX_TIMEOUT"}) /\ irq' = irq
      BY <1>6 DEF NothingReceived
    <2>3. chip' \in Chips /\ Served'
      BY <2>1, <2>2, RaiseTyped
    <2> QED BY <1>6, <2>3 DEF NothingReceived
  <1>7. CASE Note
    <2>1. Rest \in CallRecords /\ Rest.selected = FALSE /\ Next_step \in Steps
      BY <1>7, RestTyped DEF Note
    <2>2. mode' \in DriverModes
      BY <1>7, <2>1, StepCases DEF Note
    <2> QED BY <1>7, <2>1, <2>2 DEF Note, Served
  <1>8. CASE Select
    <2>1. call' \in CallRecords /\ call'.todo = call.todo
      BY <1>8 DEF Select, CallRecords
    <2> QED BY <1>8, <2>1 DEF Select, Served
  <1>9. CASE Deselect
    <2>1. Rest \in CallRecords /\ Rest.selected = FALSE /\ Next_step \in Steps
      BY <1>9, RestTyped DEF Deselect
    <2>2. chip' = chip \/ chip' = Execute(chip, Next_step)
      BY <1>9 DEF Deselect
    <2>3. chip' \in Chips /\ chip'.irq \in {chip.irq, {}}
      BY <2>1, <2>2, ExecuteTyped
    <2>4. chip.irq = {} /\ irq.pc = "pend" /\ sema = 0
      BY <1>9 DEF Deselect, Scheduled, Served
    <2> QED BY <1>9, <2>1, <2>3, <2>4 DEF Deselect, Served
  <1>10. CASE GetIrqStatus
    <2>1. chip' = Awake(chip)
      BY <1>10, ServeTyped DEF GetIrqStatus
    <2>2. chip' \in Chips /\ chip'.irq = chip.irq
      BY <2>1, AwakeTyped
    <2>3. PICK status \in IF call.selected THEN SUBSET Irqs ELSE {chip.irq} :
             irq' = [pc |-> "clear", status |-> status]
      BY <1>10 DEF GetIrqStatus
    <2>4. status \in SUBSET Irqs
      BY <2>3 DEF Chips
    <2>5. call' \in CallRecords /\ call'.todo = call.todo /\ call'.selected = call.selected
      BY <1>10 DEF GetIrqStatus, CallRecords
    <2>6. sema = 1 /\ sema' = 0 /\ chip.irq # {}
      BY <1>10 DEF GetIrqStatus, Served
    <2> QED BY <1>10, <2>2, <2>3, <2>4, <2>5, <2>6 DEF GetIrqStatus, Served
  <1>11. CASE ClearIrqStatus
    <2>1. chip' = [Awake(chip) EXCEPT !.irq = {}]
      BY <1>11, ServeTyped DEF ClearIrqStatus
    <2>2. chip' \in Chips /\ chip'.irq = {}
      BY <2>1, AwakeTyped DEF Chips
    <2> QED BY <1>11, <2>2 DEF ClearIrqStatus, Served
  <1>12. CASE HandleIrq
    <2>1. Callbacks(irq.status, chip.fifo) \in Seq(Reports)
      BY CallbacksTyped DEF Chips
    <2>2. reports' \in Seq(Reports)
      BY <1>12, <2>1 DEF HandleIrq
    <2> QED BY <1>12, <2>2 DEF HandleIrq, Served
  <1>13. call.modem \in Modems
    BY DEF CallRecords
  <1>14. ASSUME NEW modem \in TxModems, Transmit(modem)
         PROVE  TypeInv'
    <2>1. modem \in Modems
      BY RadioDriverAssumption DEF RadioDriverAssumption
    <2>2. set_channel \o set_config(mode, modem) \o send \in Seq(Steps)
      BY <2>1, CallSteps
    <2> QED BY <1>14, <2>1, <2>2, CallTyped DEF Transmit, Underway
  <1>15. ASSUME NEW window \in Windows, Listen(window)
         PROVE  TypeInv'
    <2>1. window.modem \in Modems
      BY RadioDriverAssumption DEF RadioDriverAssumption
    <2>2. set_channel \o set_config(mode, window.modem) \o receive(window) \in Seq(Steps)
      BY <2>1, CallSteps
    <2>3. (IF window.continuous THEN "rx_continuous" ELSE "rx") \in Underway
      BY DEF Underway
    <2> QED BY <1>15, <2>1, <2>2, <2>3, CallTyped DEF Listen
  <1>16. CASE PutToSleep
    BY <1>13, <1>16, CallSteps, CallTyped DEF PutToSleep
  <1>17. CASE PutToStandby
    BY <1>13, <1>17, CallSteps, CallTyped DEF PutToStandby
  <1>18. CASE Draw
    BY <1>18, CallSteps, CallTyped DEF Draw, Modems
  <1>19. CASE UNCHANGED vars
    BY <1>19 DEF vars, Served
  <1> QED
    BY <1>3, <1>4, <1>5, <1>6, <1>7, <1>8, <1>9, <1>10, <1>11, <1>12, <1>14, <1>15, <1>16,
       <1>17, <1>18, <1>19
    DEF Next, Chip, LoRaTask, RadioTask, Mac

\* The driver of SX126X_LoRaRadio.cpp, its interrupt handler and the semaphore of
\* RadioTask stay within their types: one post is outstanding at most, and the mode is
\* one the interrupt handler and standby() know.
THEOREM RadioTypeCorrect == Spec => []TypeOK
  <1>1. TypeInv => TypeOK
    BY DEF TypeInv, TypeOK, Chips, CallRecords, Reports, DriverModes, Served, Masks, RxMask,
           TxMask, Irqs
  <1> QED BY <1>1, TypeInvInit, TypeInvNext, PTL DEF Spec

-----------------------------------------------------------------------------
(* Frames *)

\* Every frame of a list of reports is among the first n, n being 0 for none.
Below(list, n) == \A i \in DOMAIN list : list[i].frame <= n

\* FramesIntact, of any list of reports.
Intact(list) ==
    \A i \in DOMAIN list : list[i].event = "rx_done" =>
        /\ list[i].frame > 0
        /\ \A j \in 1 .. i - 1 : list[j].frame < list[i].frame

\* What RadioTask is going to report.
Pending == IF irq.pc = "pend" THEN chip.irq ELSE irq.status

\* While RadioTask has work, LoRaTask is not in the middle of a command; what RadioTask
\* has read is what the chip said; and when it is about to report a frame, that frame
\* is still in the memory of the chip, and newer than those reported.
FrameInv ==
    /\ irq.pc # "pend" \/ sema = 1 => ~call.selected
    /\ irq.pc = "clear" => irq.status = chip.irq
    /\ irq.pc = "handle" => chip.irq = {}
    /\ Below(reports, frames)
    /\ Intact(reports)
    /\ "RX_DONE" \in Pending /\ "CRC_ERROR" \notin Pending =>
          frames > 0 /\ chip.fifo = frames /\ Below(reports, frames - 1)

\* The invariant holds at the start.
LEMMA FrameInvInit == Init => FrameInv
  BY DEF Init, FrameInv, Below, Intact, Pending, Cold

\* A report of no frame or of one among the first n.
LEMMA ReportBelow ==
    ASSUME NEW list \in Seq(Reports), NEW n \in Int, Below(list, n),
           NEW r \in Reports, r.frame <= n
    PROVE  list \o <<r>> \in Seq(Reports) /\ Below(list \o <<r>>, n)
  BY DEF Below

\* A report without a frame, or of a frame newer than those before, keeps a list intact.
LEMMA ReportIntact ==
    ASSUME NEW list \in Seq(Reports), Intact(list), NEW n \in Int,
           NEW r \in Reports,
           r.event = "rx_done" => r.frame = n /\ n > 0 /\ Below(list, n - 1)
    PROVE  Intact(list \o <<r>>)
  <1> DEFINE longer == list \o <<r>>
  <1>1. /\ DOMAIN longer = 1 .. Len(list) + 1
        /\ \A i \in 1 .. Len(list) : longer[i] = list[i]
        /\ longer[Len(list) + 1] = r
        /\ DOMAIN list = 1 .. Len(list) /\ Len(list) \in Nat
    OBVIOUS
  <1>2. \A i \in 1 .. Len(list) : list[i].frame \in Nat
    <2>1. \A i \in 1 .. Len(list) : list[i] \in Reports
      BY <1>1
    <2> QED BY <2>1, RadioDriverAssumption DEF Reports, RadioDriverAssumption
  <1> HIDE DEF longer
  <1> SUFFICES ASSUME NEW i \in 1 .. Len(list) + 1, longer[i].event = "rx_done"
               PROVE  /\ longer[i].frame > 0
                      /\ \A j \in 1 .. i - 1 : longer[j].frame < longer[i].frame
    BY <1>1 DEF Intact, longer
  <1>3. CASE i \in 1 .. Len(list)
    <2>1. longer[i] = list[i] /\ \A j \in 1 .. i - 1 : longer[j] = list[j]
      BY <1>1, <1>3
    <2> QED BY <1>1, <1>3, <2>1 DEF Intact
  <1>4. CASE i = Len(list) + 1
    <2>1. longer[i] = r /\ r.frame = n /\ n > 0 /\ Below(list, n - 1)
      BY <1>1, <1>4
    <2>2. \A j \in 1 .. i - 1 : longer[j] = list[j] /\ list[j].frame <= n - 1
      BY <1>1, <1>4, <2>1 DEF Below
    <2> QED BY <1>1, <1>2, <1>4, <2>1, <2>2
  <1> QED BY <1>1, <1>3, <1>4

\* What one interrupt reports extends the reports by intact frames, in order.
LEMMA CallbacksIntact ==
    ASSUME TypeInv, Below(reports, frames), Intact(reports),
           "RX_DONE" \in irq.status /\ "CRC_ERROR" \notin irq.status =>
               frames > 0 /\ chip.fifo = frames /\ Below(reports, frames - 1)
    PROVE  LET longer == reports \o Callbacks(irq.status, chip.fifo) IN
           Below(longer, frames) /\ Intact(longer)
  <1> DEFINE Tx == IF "TX_DONE" \in irq.status THEN <<[event |-> "tx_done", frame |-> 0]>>
                   ELSE <<>>
             Rx == IF "RX_DONE" \in irq.status
                   THEN IF "CRC_ERROR" \in irq.status THEN <<[event |-> "rx_error", frame |-> 0]>>
                        ELSE <<[event |-> "rx_done", frame |-> chip.fifo]>>
                   ELSE <<>>
             Timeout == IF "RX_TX_TIMEOUT" \in irq.status
                        THEN CASE mode = "TX" -> <<[event |-> "tx_timeout", frame |-> 0]>>
                               [] mode = "RX" -> <<[event |-> "rx_timeout", frame |-> 0]>>
                               [] OTHER -> <<>>
                        ELSE <<>>
             first == reports \o Tx
             second == first \o Rx
  <1>1. /\ reports \in Seq(Reports) /\ frames \in Nat /\ chip.fifo \in 0 .. MaxFrames
        /\ MaxFrames \in Nat
    BY RadioDriverAssumption DEF TypeInv, Chips, RadioDriverAssumption
  <1>2. /\ \A event \in {"tx_done", "tx_timeout", "rx_error", "rx_timeout"} :
              [event |-> event, frame |-> 0] \in Reports
        /\ [event |-> "rx_done", frame |-> chip.fifo] \in Reports
    BY <1>1 DEF Reports
  <1>3. ASSUME NEW list \in Seq(Reports), Below(list, frames), Intact(list),
               NEW event \in {"tx_done", "tx_timeout", "rx_error", "rx_timeout"}
        PROVE  LET longer == list \o <<[event |-> event, frame |-> 0]>> IN
               /\ longer \in Seq(Reports) /\ Below(longer, frames) /\ Intact(longer)
               /\ frames > 0 /\ Below(list, frames - 1) => Below(longer, frames - 1)
    <2> DEFINE r == [event |-> event, frame |-> 0]
               longer == list \o <<r>>
    <2>1. r \in Reports /\ r.frame = 0 /\ r.event # "rx_done"
      BY <1>2
    <2> HIDE DEF r
    <2>2. longer \in Seq(Reports) /\ Below(longer, frames)
      BY <1>1, <1>3, <2>1, ReportBelow
    <2>3. Intact(longer)
      BY <1>1, <1>3, <2>1, ReportIntact
    <2>4. ASSUME frames > 0, Below(list, frames - 1) PROVE Below(longer, frames - 1)
      BY <1>1, <2>1, <2>4, ReportBelow
    <2> QED BY <2>2, <2>3, <2>4 DEF r
  <1>4. \A list \in Seq(Reports) : list \o <<>> = list
    OBVIOUS
  <1>5. /\ first \in Seq(Reports) /\ Below(first, frames) /\ Intact(first)
        /\ frames > 0 /\ Below(reports, frames - 1) => Below(first, frames - 1)
    <2>1. CASE "TX_DONE" \in irq.status
      BY <1>1, <1>3, <2>1
    <2>2. CASE "TX_DONE" \notin irq.status
      BY <1>1, <1>4, <2>2
    <2> QED BY <2>1, <2>2
  <1> HIDE DEF first
  <1>6. second \in Seq(Reports) /\ Below(second, frames) /\ Intact(second)
    <2>1. CASE "RX_DONE" \notin irq.status
      BY <1>4, <1>5, <2>1
    <2>2. CASE "RX_DONE" \in irq.status /\ "CRC_ERROR" \in irq.status
      BY <1>3, <1>5, <2>2
    <2>3. CASE "RX_DONE" \in irq.status /\ "CRC_ERROR" \notin irq.status
      <3> DEFINE r == [event |-> "rx_done", frame |-> chip.fifo]
      <3>1. r \in Reports /\ r.frame = frames /\ frames > 0 /\ Below(first, frames - 1)
        BY <1>2, <1>5, <2>3
      <3>2. second = first \o <<r>>
        BY <2>3
      <3> HIDE DEF r, second
      <3> QED BY <1>1, <1>5, <3>1, <3>2, ReportBelow, ReportIntact
    <2> QED BY <2>1, <2>2, <2>3
  <1> HIDE DEF second
  <1>7. Below(second \o Timeout, frames) /\ Intact(second \o Timeout)
    <2>1. \/ Timeout = <<>>
          \/ Timeout = <<[event |-> "tx_timeout", frame |-> 0]>>
          \/ Timeout = <<[event |-> "rx_timeout", frame |-> 0]>>
      OBVIOUS
    <2> HIDE DEF Timeout
    <2> QED BY <1>3, <1>4, <1>6, <2>1
  <1>8. reports \o Callbacks(irq.status, chip.fifo) = second \o Timeout
    <2>1. Callbacks(irq.status, chip.fifo) = (Tx \o Rx) \o Timeout
      BY DEF Callbacks
    <2>2. Tx \in Seq(Reports) /\ Rx \in Seq(Reports) /\ Timeout \in Seq(Reports)
      BY <1>2
    <2>3. second = (reports \o Tx) \o Rx
      BY DEF first, second
    <2> HIDE DEF Tx, Rx, Timeout
    <2>4. Tx \o Rx \in Seq(Reports)
      BY <2>2
    <2>5. \A s, t, u \in Seq(Reports) : (s \o t) \o u = s \o (t \o u)
      BY ConcatAssociative
    <2>6. second = reports \o (Tx \o Rx)
      BY <1>1, <2>2, <2>3, <2>5, Zenon
    <2>7. second \o Timeout = reports \o ((Tx \o Rx) \o Timeout)
      BY <1>1, <2>2, <2>4, <2>5, <2>6, Zenon
    <2> QED BY <2>1, <2>7
  <1> QED BY <1>7, <1>8

\* No step damages, loses or repeats a frame when the chip is prompt and no command is torn.
LEMMA FrameInvNext ==
    ASSUME Prompt, ~Torn
    PROVE  TypeInv /\ FrameInv /\ [Next]_vars => FrameInv'
  <1> SUFFICES ASSUME TypeInv, FrameInv, [Next]_vars PROVE FrameInv'
    OBVIOUS
  <1>1. /\ sema \in {0, 1} /\ frames \in Nat /\ MaxFrames \in Nat
        /\ irq.pc = "pend" /\ sema = 0 => chip.irq = {}
        /\ chip \in Chips /\ AfterReception(chip) \in Chips
    BY RadioDriverAssumption
    DEF TypeInv, Served, RadioDriverAssumption, AfterReception, Chips, ChipModes
  <1>2. MaySpeak => irq.pc = "pend" /\ sema = 0 /\ ~call.selected /\ chip.irq = {}
    BY <1>1 DEF MaySpeak
  <1>3. \A n \in Nat : Below(reports, n) => Below(reports, n + 1)
    <2>1. \A i \in DOMAIN reports : reports[i].frame \in Nat
      <3>1. \A i \in DOMAIN reports : reports[i] \in Reports
        BY DEF TypeInv
      <3> QED BY <1>1, <3>1 DEF Reports
    <2> QED BY <2>1 DEF Below
  <1>4. ASSUME NEW c \in Chips, NEW raised, Raise(c, raised), c.irq = chip.irq, MaySpeak,
               irq' = irq, call' = call, reports' = reports, frames' \in {frames, frames + 1},
               /\ "RX_DONE" \in raised /\ "CRC_ERROR" \notin raised
               => frames' = frames + 1 /\ c.fifo = frames',
               "CRC_ERROR" \in raised => "RX_DONE" \in raised
        PROVE  FrameInv'
    <2>1. /\ chip'.irq = raised \intersect c.mask /\ chip'.fifo = c.fifo
          /\ irq.pc = "pend" /\ ~call.selected
      BY <1>2, <1>4 DEF Raise, Chips
    <2>2. Pending' = raised \intersect c.mask
      BY <1>4, <2>1 DEF Pending
    <2>3. c.mask \in Masks
      BY DEF Chips
    <2>4. "RX_DONE" \in c.mask => "CRC_ERROR" \in c.mask
      BY <2>3 DEF Masks, RxMask, TxMask
    <2>5. "RX_DONE" \in Pending' /\ "CRC_ERROR" \notin Pending' =>
              frames' = frames + 1 /\ chip'.fifo = frames'
      BY <1>4, <2>1, <2>2, <2>4
    <2>6. Below(reports, frames')
      BY <1>1, <1>3, <1>4 DEF FrameInv
    <2>7. frames + 1 - 1 = frames
      BY <1>1
    <2> QED BY <1>1, <1>4, <2>1, <2>5, <2>6, <2>7 DEF FrameInv
  <1>5. CASE TransmissionEnds
    <2> DEFINE c == [chip EXCEPT !.mode = "standby"]
    <2>1. PICK raised \in {"TX_DONE", "RX_TX_TIMEOUT"} : Raise(c, {raised})
      BY <1>5 DEF TransmissionEnds
    <2>2. c \in Chips /\ c.irq = chip.irq
      BY <1>1 DEF Chips, ChipModes
    <2> HIDE DEF c
    <2> QED BY <1>4, <1>5, <2>1, <2>2 DEF TransmissionEnds
  <1>6. CASE FrameReceived
    <2> DEFINE c == [AfterReception(chip) EXCEPT !.fifo = frames + 1]
    <2>1. c \in Chips /\ c.irq = chip.irq /\ c.fifo = frames + 1
      BY <1>1, <1>6 DEF FrameReceived, AfterReception, Chips
    <2>2. Raise(c, {"RX_DONE"})
      BY <1>6 DEF FrameReceived
    <2> HIDE DEF c
    <2> QED BY <1>4, <1>6, <2>1, <2>2 DEF FrameReceived
  <1>7. CASE FrameDamaged
    <2> DEFINE c == [AfterReception(chip) EXCEPT !.fifo = 0]
    <2>1. c \in Chips /\ c.irq = chip.irq
      BY <1>1, <1>7 DEF FrameDamaged, AfterReception, Chips
    <2>2. Raise(c, {"RX_DONE", "CRC_ERROR"})
      BY <1>7 DEF FrameDamaged
    <2> HIDE DEF c
    <2> QED BY <1>4, <1>7, <2>1, <2>2 DEF FrameDamaged
  <1>8. CASE NothingReceived
    <2> DEFINE c == [chip EXCEPT !.mode = "standby"]
    <2>1. c \in Chips /\ c.irq = chip.irq
      BY <1>1 DEF Chips, ChipModes
    <2>2. Raise(c, {"RX_TX_TIMEOUT"})
      BY <1>8 DEF NothingReceived
    <2> HIDE DEF c
    <2> QED BY <1>4, <1>8, <2>1, <2>2 DEF NothingReceived
  <1>9. ASSUME Scheduled, irq' = irq, sema' = sema, reports' = reports, frames' = frames,
               chip'.irq \in {chip.irq, {}}
        PROVE  FrameInv'
    <2>1. irq.pc = "pend" /\ sema = 0 /\ chip'.irq = {}
      BY <1>1, <1>9 DEF Scheduled
    <2>2. Pending' = {}
      BY <1>9, <2>1 DEF Pending
    <2> QED BY <1>9, <2>1, <2>2 DEF FrameInv
  <1>10. CASE Note \/ Select
    BY <1>9, <1>10 DEF Note, Select
  <1>11. CASE Deselect
    <2>1. call.todo # <<>>
      BY <1>11 DEF TypeInv, Deselect
    <2>2. chip'.irq \in {chip.irq, {}}
      BY <1>1, <1>11, <2>1, RestTyped, ExecuteTyped DEF Deselect
    <2> QED BY <1>9, <1>11, <2>2 DEF Deselect
  <1>12. CASE GetIrqStatus
    <2>1. irq.pc = "pend" /\ sema = 1 /\ ~call.selected
      BY <1>1, <1>12 DEF GetIrqStatus, FrameInv
    <2>2. irq' = [pc |-> "clear", status |-> chip.irq]
      BY <1>12, <2>1 DEF GetIrqStatus
    <2>3. chip'.irq = chip.irq /\ chip'.fifo = chip.fifo
      BY <1>1, <1>12, ServeTyped, AwakeTyped DEF GetIrqStatus
    <2>4. Pending' = Pending
      BY <2>1, <2>2 DEF Pending
    <2>5. ~call'.selected
      BY <1>12, <2>1 DEF GetIrqStatus, TypeInv, CallRecords
    <2> QED BY <1>12, <2>2, <2>3, <2>4, <2>5 DEF GetIrqStatus, FrameInv
  <1>13. CASE ClearIrqStatus
    <2>1. chip' = [Awake(chip) EXCEPT !.irq = {}]
      BY <1>13, ServeTyped DEF ClearIrqStatus
    <2>2. chip'.irq = {} /\ chip'.fifo = chip.fifo
      BY <1>1, <2>1, AwakeTyped DEF Chips
    <2>3. irq.pc = "clear" /\ irq'.pc = "handle" /\ irq'.status = irq.status
      BY <1>13 DEF ClearIrqStatus, TypeInv
    <2>4. Pending' = Pending
      BY <2>3 DEF Pending
    <2> QED BY <1>13, <2>2, <2>3, <2>4 DEF ClearIrqStatus, FrameInv
  <1>14. CASE HandleIrq
    <2>1. irq.pc = "handle" /\ irq'.pc = "pend" /\ chip' = chip /\ chip.irq = {}
      BY <1>14 DEF HandleIrq, FrameInv
    <2>2. Pending = irq.status /\ Pending' = {}
      BY <2>1 DEF Pending
    <2>3. Below(reports', frames) /\ Intact(reports')
      BY <1>14, <2>2, CallbacksIntact DEF HandleIrq, FrameInv
    <2> QED BY <1>14, <2>1, <2>2, <2>3 DEF HandleIrq, FrameInv
  <1>15. CASE Mac
    <2>1. \/ \E modem \in TxModems : Transmit(modem)
          \/ \E window \in Windows : Listen(window)
          \/ PutToSleep \/ PutToStandby \/ Draw
      BY <1>15 DEF Mac
    <2>2. Scheduled /\ UNCHANGED <<chip, irq, sema, reports, frames>>
      BY <2>1 DEF Transmit, Listen, PutToSleep, PutToStandby, Draw, Call
    <2> QED BY <1>9, <2>2
  <1>16. CASE UNCHANGED vars
    BY <1>16 DEF vars, FrameInv, Pending
  <1> QED
    BY <1>5, <1>6, <1>7, <1>8, <1>10, <1>11, <1>12, <1>13, <1>14, <1>15, <1>16
    DEF Next, Chip, LoRaTask, RadioTask

\* When the chip leaves the driver time to note what it started, and no interrupt comes
\* in the middle of a command, handle_dio1_irq() hands over each frame once, in order,
\* and never the bytes of an uplink, whatever the calls and the modems are.
THEOREM FramesStayIntact == Prompt /\ ~Torn /\ Spec => []FramesIntact
  <1> SUFFICES ASSUME Prompt, ~Torn PROVE Spec => []FramesIntact
    OBVIOUS
  <1>1. Init => TypeInv /\ FrameInv
    BY TypeInvInit, FrameInvInit
  <1>2. TypeInv /\ FrameInv /\ [Next]_vars => (TypeInv /\ FrameInv)'
    BY TypeInvNext, FrameInvNext
  <1>3. FrameInv => FramesIntact
    BY DEF FrameInv, Intact, FramesIntact
  <1> QED BY <1>1, <1>2, <1>3, PTL DEF Spec

=============================================================================
