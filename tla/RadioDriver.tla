----------------------------- MODULE RadioDriver -----------------------------
(***************************************************************************)
(* The driver of the SX126x radio, SX126X_LoRaRadio.cpp, between the two   *)
(* tasks of main.cpp that use it and the chip behind the SPI bus.  LoRaTask *)
(* calls the driver, under its lock, to transmit, to receive and to sleep; *)
(* RadioTask, which is more urgent and does not take the lock, serves the  *)
(* interrupts of the chip.                                                 *)
(*                                                                         *)
(* A call of the driver is the sequence of its steps: the commands it puts *)
(* on the bus, each of which takes chip select low and high again, and the *)
(* assignments of _operation_mode, which RadioTask reads.  The chip is     *)
(* external: what its commands do is what the driver relies on.  The driver *)
(* is built with a cold sleep, in which the chip forgets its configuration. *)
(***************************************************************************)
EXTENDS Integers, Sequences, FiniteSets

CONSTANTS
    Network,       \* MBED_CONF_LORA_PUBLIC_NETWORK: "public" or "private"
    TxModems,      \* the modems transmissions use
    Windows,       \* the receptions: a modem, and whether it is continuous
    Prompt,        \* whether a call that starts the chip returns, and a report is
                   \* made, before the chip has more to say
    Torn,          \* whether an interrupt may come in the middle of a command
    MaxCalls,      \* bound on the calls of the driver
    MaxFrames      \* bound on the frames in the air

Modems == {"LORA", "FSK"}

ASSUME RadioDriverAssumption ==
    /\ Network \in {"public", "private"}
    /\ TxModems \subseteq Modems
    /\ Windows \subseteq [modem : Modems, continuous : BOOLEAN]
    /\ Prompt \in BOOLEAN /\ Torn \in BOOLEAN
    /\ MaxCalls \in Nat /\ MaxFrames \in Nat

VARIABLES
    chip,     \* the radio chip
    mode,     \* _operation_mode
    call,     \* the call of LoRaTask: its name, what it starts, the steps it has left,
              \* and whether chip select is low for the first of these
    irq,      \* RadioTask: where it is in handle_dio1_irq(), and irq_status
    sema,     \* App_SemRadio
    reports,  \* history: the callbacks RadioTask made, with the frame of rx_done
    frames,   \* history: how many frames the chip has received
    calls     \* how often the driver was called

vars == <<chip, mode, call, irq, sema, reports, frames, calls>>

Irqs == {"TX_DONE", "RX_DONE", "CRC_ERROR", "RX_TX_TIMEOUT"}

\* What the chip forgets in a cold sleep, with what it is reset to: the packet
\* type, the sync word of LoRa, and the settings that it keeps until then.
Settings == {"REGULATORMODE", "RFSWITCHMODE", "RFFREQUENCY", "FSK_SYNCWORD",
             "MODULATIONPARAMS", "PACKETPARAMS"}
Cold(m) == [mode |-> m, type |-> "FSK", syncword |-> "private", settings |-> {},
            mask |-> {}, irq |-> {}, fifo |-> 0, ended |-> "standby"]

\* After init_radio() and the sleep() that ends the initialization of the MAC.
Init ==
    /\ chip = Cold("sleep")
    /\ mode = "SLEEP"
    /\ call = [name |-> "none", starts |-> "nothing", modem |-> "LORA", todo |-> <<>>,
               selected |-> FALSE, garbled |-> FALSE]
    /\ irq = [pc |-> "pend", status |-> {}]
    /\ sema = 0
    /\ reports = <<>>
    /\ frames = 0
    /\ calls = 0

-----------------------------------------------------------------------------
(* The functions of the driver, as the steps they take with _operation_mode m *)

Command(name, arg) == <<[does |-> name, with |-> arg]>>
Assign(m) == <<[does |-> "operation_mode", with |-> m]>>

set_public_network == Command("SYNCWORD", Network)

\* Mutant: the antenna switch is left to its reset value.
cold_start_wakeup_unswitched(modem) ==
    Command("REGULATORMODE", "")
        \o Assign("STDBY_RC")
        \o Command("PACKETTYPE", modem)
        \o (IF modem = "LORA" THEN set_public_network ELSE <<>>)

cold_start_wakeup(modem) ==
    Command("REGULATORMODE", "")
        \o Command("RFSWITCHMODE", "")
        \o Assign("STDBY_RC")
        \o Command("PACKETTYPE", modem)
        \o (IF modem = "LORA" THEN set_public_network ELSE <<>>)

\* Chip select alone wakes the chip up.
wakeup(modem) == Command("SELECT", "") \o cold_start_wakeup(modem)

\* Mutant: the mode of the other setting of MBED_CONF_SX126X_LORA_DRIVER_STANDBY_MODE.
standby_xosc(m, modem) ==
    IF m = "STDBY_RC" THEN <<>>
    ELSE (IF m = "SLEEP" THEN wakeup(modem) ELSE <<>>)
             \o Command("STANDBY", "") \o Assign("STDBY_XOSC")

standby(m, modem) ==
    IF m = "STDBY_RC" THEN <<>>
    ELSE (IF m = "SLEEP" THEN wakeup(modem) ELSE <<>>)
             \o Command("STANDBY", "") \o Assign("STDBY_RC")

set_modem(m, modem) == standby(m, modem) \o Command("PACKETTYPE", modem)

set_channel == Command("CALIBRATEIMAGE", "") \o Command("RFFREQUENCY", "")

\* set_tx_config() and set_rx_config()
set_config(m, modem) ==
    set_modem(m, modem) \o (IF modem = "FSK" THEN Command("FSK_SYNCWORD", "") ELSE <<>>)

\* set_modulation_params() and set_packet_params()
set_params == Command("MODULATIONPARAMS", "") \o Command("PACKETPARAMS", "")

send ==
    Command("DIOIRQ", {"TX_DONE", "RX_TX_TIMEOUT"})
        \o set_params
        \o Command("WRITE_BUFFER", "")
        \o Command("TX", "")
        \o Assign("TX")

\* The timeout of a continuous reception is infinite, for the modem of LoRa.
rx_timeout(window) ==
    IF window.modem = "LORA" /\ window.continuous THEN "rx_continuous" ELSE "rx"

receive(window) ==
    Command("DIOIRQ", {"RX_DONE", "RX_TX_TIMEOUT", "CRC_ERROR"})
        \o set_params
        \o Command("RX", rx_timeout(window))
        \o Assign("RX")

sleep == Assign("SLEEP") \o Command("SLEEP", "")

\* The reception of random() leaves the interrupts as they are.
random(m) ==
    set_modem(m, "LORA") \o Command("RX", "rx_continuous") \o Assign("RX")
        \o Command("READ_REGISTER", "") \o Command("STANDBY", "") \o Assign("STDBY_RC")

-----------------------------------------------------------------------------
(* The chip *)

\* What a command makes of the chip, which wakes up when it is selected.  The packet
\* type is set in standby only, and the parameters have to follow it.
Execute(c, step) ==
    LET awake == IF c.mode = "sleep" THEN [c EXCEPT !.mode = "standby"] ELSE c IN
    CASE step.does = "SLEEP" -> Cold("sleep")
      [] step.does = "STANDBY" -> [awake EXCEPT !.mode = "standby"]
      [] step.does = "PACKETTYPE" ->
            IF awake.mode = "standby"
            THEN [awake EXCEPT !.type = step.with,
                               !.settings = @ \ {"MODULATIONPARAMS", "PACKETPARAMS"}]
            ELSE awake
      [] step.does = "SYNCWORD" -> [awake EXCEPT !.syncword = step.with]
      [] step.does = "DIOIRQ" -> [awake EXCEPT !.mask = step.with]
      [] step.does = "WRITE_BUFFER" -> [awake EXCEPT !.fifo = 0]
      [] step.does = "TX" -> [awake EXCEPT !.mode = "tx"]
      [] step.does = "RX" -> [awake EXCEPT !.mode = step.with]
      [] step.does \in Settings -> [awake EXCEPT !.settings = @ \union {step.does}]
      [] OTHER -> awake

\* The chip raises those of the interrupts that are not masked out; DIO1 rises with
\* the first one, and gpioCallback() posts the semaphore.
Raise(c, raised) ==
    /\ chip' = [c EXCEPT !.irq = @ \union (raised \intersect c.mask), !.ended = chip.mode]
    /\ sema' = IF chip.irq = {} /\ raised \intersect c.mask # {} THEN sema + 1 ELSE sema

\* The chip was started, and the call that did it has not noted so yet.
Unnoted == mode = "STDBY_RC" /\ chip.mode # "standby"

MaySpeak ==
    /\ Prompt => irq.pc = "pend" /\ sema = 0 /\ ~Unnoted
    /\ call.selected => Torn

TransmissionEnds ==
    /\ MaySpeak
    /\ chip.mode = "tx"
    /\ \E raised \in {"TX_DONE", "RX_TX_TIMEOUT"} : Raise([chip EXCEPT !.mode = "standby"], {raised})
    /\ UNCHANGED <<mode, call, irq, reports, frames, calls>>

AfterReception(c) == IF c.mode = "rx" THEN [c EXCEPT !.mode = "standby"] ELSE c

FrameReceived ==
    /\ MaySpeak
    /\ chip.mode \in {"rx", "rx_continuous"}
    /\ frames < MaxFrames
    /\ frames' = frames + 1
    /\ Raise([AfterReception(chip) EXCEPT !.fifo = frames + 1], {"RX_DONE"})
    /\ UNCHANGED <<mode, call, irq, reports, calls>>

FrameDamaged ==
    /\ MaySpeak
    /\ chip.mode \in {"rx", "rx_continuous"}
    /\ frames < MaxFrames
    /\ frames' = frames + 1
    /\ Raise([AfterReception(chip) EXCEPT !.fifo = 0], {"RX_DONE", "CRC_ERROR"})
    /\ UNCHANGED <<mode, call, irq, reports, calls>>

NothingReceived ==
    /\ MaySpeak
    /\ chip.mode = "rx"
    /\ Raise([chip EXCEPT !.mode = "standby"], {"RX_TX_TIMEOUT"})
    /\ UNCHANGED <<mode, call, irq, reports, frames, calls>>

-----------------------------------------------------------------------------
(* LoRaTask *)

\* LORA_TASK_PRIO is below RADIO_TASK_PRIO: the task runs when RadioTask waits.
Scheduled == irq.pc = "pend" /\ sema = 0

\* Nothing is under way: the MAC waits for the end of a transmission and of a single
\* reception, unless it puts the radio to sleep.
AtRest == chip.mode \in {"sleep", "standby", "rx_continuous"}

Call(name, starts, modem, steps) ==
    /\ Scheduled
    /\ call.name = "none"
    /\ calls < MaxCalls
    /\ calls' = calls + 1
    /\ call' = [name |-> name, starts |-> starts, modem |-> modem, todo |-> steps,
                selected |-> FALSE, garbled |-> FALSE]
    /\ UNCHANGED <<chip, mode, irq, sema, reports, frames>>

\* tx_config() and handle_send() of LoRaPHY.
Transmit(modem) ==
    AtRest /\ Call("send", "tx", modem, set_channel \o set_config(mode, modem) \o send)

\* rx_config() and handle_receive().
Listen(window) ==
    AtRest /\ Call("receive", IF window.continuous THEN "rx_continuous" ELSE "rx", window.modem,
                   set_channel \o set_config(mode, window.modem) \o receive(window))

PutToSleep == Call("sleep", "rest", call.modem, sleep)

\* put_radio_to_standby(), before RX1 of a class C device.
PutToStandby ==
    AtRest /\ mode # "STDBY_RC" /\ Call("standby", "rest", call.modem, standby(mode, call.modem))

\* get_radio_rng(), for the nonce of a Join Request: the radio is asleep then.
Draw == mode = "SLEEP" /\ Call("random", "rest", "LORA", random(mode))

\* The step of the call that is next.
Next_step == Head(call.todo)
Rest == IF Len(call.todo) = 1
        THEN [call EXCEPT !.name = "none", !.starts = "nothing", !.todo = <<>>,
                          !.selected = FALSE, !.garbled = FALSE]
        ELSE [call EXCEPT !.todo = Tail(@), !.selected = FALSE, !.garbled = FALSE]

Note ==
    /\ Scheduled
    /\ call.todo # <<>> /\ Next_step.does = "operation_mode"
    /\ mode' = Next_step.with
    /\ call' = Rest
    /\ UNCHANGED <<chip, irq, sema, reports, frames, calls>>

\* Chip select goes low for a command ...
Select ==
    /\ Scheduled
    /\ call.todo # <<>> /\ Next_step.does # "operation_mode" /\ ~call.selected
    /\ call' = [call EXCEPT !.selected = TRUE]
    /\ UNCHANGED <<chip, mode, irq, sema, reports, frames, calls>>

\* ... and high again.  A command that RadioTask has come into the middle of may be
\* lost.
Deselect ==
    /\ Scheduled
    /\ call.selected
    /\ \E heeded \in IF call.garbled THEN BOOLEAN ELSE {TRUE} :
          chip' = IF heeded THEN Execute(chip, Next_step) ELSE chip
    /\ call' = Rest
    /\ UNCHANGED <<mode, irq, sema, reports, frames, calls>>

-----------------------------------------------------------------------------
(* RadioTask *)

\* OSSemPend(), then get_irq_status().  When it has interrupted a command, chip select
\* is low already, and what comes back is anything.
GetIrqStatus ==
    /\ irq.pc = "pend" /\ sema > 0
    /\ sema' = sema - 1
    /\ \E status \in IF call.selected THEN SUBSET Irqs ELSE {chip.irq} :
          irq' = [pc |-> "clear", status |-> status]
    /\ chip' = Execute(chip, [does |-> "GET_IRQSTATUS"])
    /\ call' = [call EXCEPT !.garbled = call.selected]
    /\ UNCHANGED <<mode, reports, frames, calls>>

ClearIrqStatus ==
    /\ irq.pc = "clear"
    /\ chip' = [Execute(chip, [does |-> "CLR_IRQSTATUS"]) EXCEPT !.irq = {}]
    /\ irq' = [irq EXCEPT !.pc = "handle"]
    /\ UNCHANGED <<mode, call, sema, reports, frames, calls>>

\* Mutant: the end of a reception is not told from that of a transmission.
Callbacks_unchecked(status, fifo) ==
    (IF "TX_DONE" \in status THEN <<[event |-> "tx_done", frame |-> 0]>> ELSE <<>>)
    \o (IF "RX_DONE" \in status
        THEN IF "CRC_ERROR" \in status THEN <<[event |-> "rx_error", frame |-> 0]>>
             ELSE <<[event |-> "rx_done", frame |-> fifo]>>
        ELSE <<>>)
    \o (IF "RX_TX_TIMEOUT" \in status THEN <<[event |-> "rx_timeout", frame |-> 0]>> ELSE <<>>)

\* Mutant: a damaged frame is handed over.
Callbacks_damaged(status, fifo) ==
    (IF "TX_DONE" \in status THEN <<[event |-> "tx_done", frame |-> 0]>> ELSE <<>>)
    \o (IF "RX_DONE" \in status THEN <<[event |-> "rx_done", frame |-> fifo]>> ELSE <<>>)
    \o (IF "RX_TX_TIMEOUT" \in status
        THEN CASE mode = "TX" -> <<[event |-> "tx_timeout", frame |-> 0]>>
               [] mode = "RX" -> <<[event |-> "rx_timeout", frame |-> 0]>>
               [] OTHER -> <<>>
        ELSE <<>>)

\* The callbacks for an interrupt status, rx_done with the bytes read from the chip.
Callbacks(status, fifo) ==
    (IF "TX_DONE" \in status THEN <<[event |-> "tx_done", frame |-> 0]>> ELSE <<>>)
    \o (IF "RX_DONE" \in status
        THEN IF "CRC_ERROR" \in status THEN <<[event |-> "rx_error", frame |-> 0]>>
             ELSE <<[event |-> "rx_done", frame |-> fifo]>>
        ELSE <<>>)
    \o (IF "RX_TX_TIMEOUT" \in status
        THEN CASE mode = "TX" -> <<[event |-> "tx_timeout", frame |-> 0]>>
               [] mode = "RX" -> <<[event |-> "rx_timeout", frame |-> 0]>>
               [] OTHER -> <<>>
        ELSE <<>>)

HandleIrq ==
    /\ irq.pc = "handle"
    /\ reports' = reports \o Callbacks(irq.status, chip.fifo)
    /\ irq' = [pc |-> "pend", status |-> {}]
    /\ UNCHANGED <<chip, mode, call, sema, frames, calls>>

-----------------------------------------------------------------------------

Chip == TransmissionEnds \/ FrameReceived \/ FrameDamaged \/ NothingReceived
LoRaTask == Note \/ Select \/ Deselect
RadioTask == GetIrqStatus \/ ClearIrqStatus \/ HandleIrq
Mac ==
    \/ \E modem \in TxModems : Transmit(modem)
    \/ \E window \in Windows : Listen(window)
    \/ PutToSleep \/ PutToStandby \/ Draw

Next == Chip \/ LoRaTask \/ RadioTask \/ Mac

Spec == Init /\ [][Next]_vars

\* The tasks run; transmissions end, and so do receptions that are not continuous.
FairSpec ==
    /\ Spec
    /\ WF_vars(LoRaTask)
    /\ WF_vars(RadioTask)
    /\ WF_vars(TransmissionEnds)
    /\ WF_vars(NothingReceived)
=============================================================================
