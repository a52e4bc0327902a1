---------------------------- MODULE Peripherals ----------------------------
(***************************************************************************)
(* The devices whose interrupts come between the steps of the code that    *)
(* reads them: the keyboards (Input) and the clock (Clock).  They share no *)
(* state, so a behaviour follows one of them and the other stays as boot   *)
(* leaves it.                                                              *)
(***************************************************************************)
EXTENDS Input, Clock

VARIABLE device

Some(S) == CHOOSE x \in S : TRUE

Init ==
  /\ device \in {"keyboard", "clock"}
  /\ input_Init
  /\ IF device = "clock" THEN clock_Init ELSE clock_Boot(Some(Turns).before, Some(Formats))

Next ==
  \/ device = "keyboard" /\ input_Next /\ UNCHANGED <<device, clockVars>>
  \/ device = "clock" /\ clock_Next /\ UNCHANGED <<device, inputVars>>

Spec == Init /\ [][Next]_<<device, inputVars, clockVars>>
=============================================================================
