------------------------------- MODULE MCRadio -------------------------------
(***************************************************************************)
(* Values for the constants of the radio driver: the windows of class A,   *)
(* and the continuous one of class C.                                      *)
(***************************************************************************)
EXTENDS RadioProperties

Window(modem, continuous) == [modem |-> modem, continuous |-> continuous]
AllWindows == {Window("LORA", FALSE), Window("FSK", FALSE), Window("LORA", TRUE)}
=============================================================================
