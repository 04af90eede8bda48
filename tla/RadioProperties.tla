--------------------------- MODULE RadioProperties ---------------------------
(***************************************************************************)
(* What the driver of the radio has to guarantee.                          *)
(***************************************************************************)
EXTENDS RadioDriver

ChipModes == {"sleep", "standby", "tx", "rx", "rx_continuous"}
Underway == {"tx", "rx", "rx_continuous"}

\* Type invariant of the chip, the tasks and the driver.
TypeOK ==
    /\ chip \in [mode : ChipModes, type : Modems, syncword : {"public", "private"},
                 settings : SUBSET Settings, mask : SUBSET Irqs, irq : SUBSET Irqs,
                 fifo : 0 .. MaxFrames, ended : ChipModes]
    /\ mode \in {"SLEEP", "STDBY_RC", "TX", "RX"}
    /\ call.name \in {"none", "send", "receive", "sleep", "standby", "random"}
    /\ call.starts \in Underway \union {"rest", "nothing"}
    /\ call.modem \in Modems
    /\ irq \in [pc : {"pend", "clear", "handle"}, status : SUBSET Irqs]
    /\ sema \in 0 .. 1
    /\ reports \in Seq([event : {"tx_done", "tx_timeout", "rx_done", "rx_error", "rx_timeout"},
                        frame : 0 .. MaxFrames])

\* rx_done hands over the bytes of a frame the chip has received, each frame once and
\* in their order: neither the bytes of an uplink, which share the memory of the chip,
\* nor those of another frame.
FramesIntact ==
    \A i \in DOMAIN reports : reports[i].event = "rx_done" =>
        /\ reports[i].frame > 0
        /\ \A j \in 1 .. i - 1 : reports[j].frame < reports[i].frame

\* Whatever the radio did before, and whatever it forgot when it slept, it is started
\* with the configuration of the call that starts it: the modem, the frequency, the
\* parameters of that modem, the sync word of the network, the antenna switch, and
\* the interrupts that will report the end.
Configured ==
    [][chip'.mode \in Underway /\ chip'.mode # chip.mode /\ call.name # "random" =>
          /\ chip.type = call.modem
          /\ Settings \ {"FSK_SYNCWORD"} \subseteq chip.settings
          /\ call.modem = "FSK" => "FSK_SYNCWORD" \in chip.settings
          /\ call.modem = "LORA" => chip.syncword = Network
          /\ (IF chip'.mode = "tx" THEN "TX_DONE" ELSE "RX_DONE") \in chip.mask]_vars

\* lock() "acquires exclusive access to this radio": nobody else uses the bus in the
\* middle of a command of the task that holds the lock.
ExclusiveAccess == ~(call.selected /\ irq.pc # "pend")

\* The mode the layers above see: what has ended is under way until RadioTask has dealt
\* with it.  The reception of random() is not theirs.
Mode ==
    IF call.name = "random" THEN "rest"
    ELSE IF chip.mode \in Underway THEN chip.mode
    ELSE IF chip.irq # {} \/ irq.status # {} THEN chip.ended
    ELSE "rest"

Service == INSTANCE RadioService WITH
    mode <- Mode,
    asked <- call.starts,
    reports <- [i \in DOMAIN reports |-> reports[i].event]

\* The driver and the interrupt handler keep what LoRaRadio.h promises and the model
\* of the stack relies on: every transmission and every single reception ends with
\* one event of its own, unless it was called off; no event comes from nothing.
ImplementsRadioService == Service!Spec
=============================================================================
