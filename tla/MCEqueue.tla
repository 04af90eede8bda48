------------------------------ MODULE MCEqueue ------------------------------
(***************************************************************************)
(* Values for the constants of the event queue.                            *)
(***************************************************************************)
EXTENDS EqueueProperties, TLC

CONSTANTS lora, radio

\* RadioTask posts what the interrupt handlers of the stack post, with
\* equeue_call(); its events are the larger ones.  LoRaTask uses equeue_call_in()
\* for timers and equeue_call_every() for the messages of the application.
Now == [size |-> 1, delay |-> 0, period |-> -1]
Frame == [size |-> 2, delay |-> 0, period |-> -1]
Soon == [size |-> 1, delay |-> 1, period |-> -1]
Every == [size |-> 1, delay |-> 1, period |-> 1]
Posts == (lora :> {Every}) @@ (radio :> {Frame})
Timers == (lora :> {Soon}) @@ (radio :> {})
Deferred == (lora :> {Now}) @@ (radio :> {})

\* LORA_TASK_PRIO and RADIO_TASK_PRIO.
Urgency == (lora :> 12) @@ (radio :> 11)

Forever == -1
=============================================================================
