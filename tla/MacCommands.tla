----------------------------- MODULE MacCommands -----------------------------
(***************************************************************************)
(* The two buffers of LoRaMacCommand.cpp: mac_cmd_buffer collects what the *)
(* next frame says to the network, mac_cmd_buffer_to_repeat keeps the      *)
(* answers that every frame repeats until the network is heard again, the  *)
(* sticky ones.  A buffer is the number of answers of each kind it holds;  *)
(* their order and the status bits in them are left out, their lengths are *)
(* not.                                                                    *)
(***************************************************************************)
EXTENDS Integers

CONSTANT
    BufferSize   \* sizeof mac_cmd_buffer: 128

ASSUME MacCommandsAssumption == BufferSize \in Nat

Sticky == {"DL_CHANNEL_ANS", "RX_PARAM_SETUP_ANS", "RX_TIMING_SETUP_ANS"}
Kinds == Sticky \union {"LINK_ADR_ANS", "NEW_CHANNEL_ANS", "DEV_STATUS_ANS",
                        "DUTY_CYCLE_ANS", "TX_PARAM_SETUP_ANS", "LINK_CHECK_REQ"}

Length(kind) ==
    CASE kind = "DEV_STATUS_ANS" -> 3
      [] kind \in {"DL_CHANNEL_ANS", "RX_PARAM_SETUP_ANS", "LINK_ADR_ANS",
                   "NEW_CHANNEL_ANS"} -> 2
      [] kind \in {"RX_TIMING_SETUP_ANS", "DUTY_CYCLE_ANS", "TX_PARAM_SETUP_ANS",
                   "LINK_CHECK_REQ"} -> 1

Nothing == [kind \in Kinds |-> 0]

\* mac_cmd_buf_idx and mac_cmd_buf_idx_to_repeat of a buffer.
Bytes(buffer) ==
    3 * buffer["DEV_STATUS_ANS"]
    + 2 * (buffer["DL_CHANNEL_ANS"] + buffer["RX_PARAM_SETUP_ANS"]
           + buffer["LINK_ADR_ANS"] + buffer["NEW_CHANNEL_ANS"])
    + buffer["RX_TIMING_SETUP_ANS"] + buffer["DUTY_CYCLE_ANS"]
    + buffer["TX_PARAM_SETUP_ANS"] + buffer["LINK_CHECK_REQ"]

cmd_buffer_remaining(cmd) == BufferSize - Bytes(cmd.repeat) - Bytes(cmd.buffer)

\* Mutant: no room is less than none.
Room_overrun(cmd, kind, n) ==
    LET fit == cmd_buffer_remaining(cmd) \div Length(kind)
    IN  IF fit < n THEN fit ELSE n

\* The add_... functions: how many of n equal answers there is room for.
Room(cmd, kind, n) ==
    LET fit == cmd_buffer_remaining(cmd) \div Length(kind)
    IN  IF fit <= 0 THEN 0 ELSE IF fit < n THEN fit ELSE n

add(cmd, kind, n) == [cmd EXCEPT !.buffer[kind] = @ + Room(cmd, kind, n)]

clear_command_buffer(cmd) == [cmd EXCEPT !.buffer = Nothing]
clear_repeat_buffer(cmd) == [cmd EXCEPT !.repeat = Nothing]

Sum(one, other) == [kind \in Kinds |-> one[kind] + other[kind]]

copy_repeat_commands_to_buffer(cmd) == [cmd EXCEPT !.buffer = Sum(@, cmd.repeat)]

OnlySticky(buffer) == [kind \in Kinds |-> IF kind \in Sticky THEN buffer[kind] ELSE 0]

\* Mutant: the answer to RXTimingSetupReq is not repeated.
parse_mac_commands_to_repeat_timing_lost(cmd) ==
    [cmd EXCEPT !.repeat = [OnlySticky(cmd.buffer) EXCEPT !["RX_TIMING_SETUP_ANS"] = 0]]

parse_mac_commands_to_repeat(cmd) == [cmd EXCEPT !.repeat = OnlySticky(cmd.buffer)]

\* What prepare_frame() does with the buffers.  More than 15 bytes of answers take
\* the place of the message in the frame; less go beside it.
Prepared(cmd) == parse_mac_commands_to_repeat(copy_repeat_commands_to_buffer(cmd))
=============================================================================
