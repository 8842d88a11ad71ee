---------------------------- MODULE MCDeviceLoop ----------------------------
(***************************************************************************)
(* Between two signals the guest executes Gap instructions, enough for the *)
(* handlers of the three lines, as the ten milliseconds of the host timer  *)
(* are; a signal may still come at any step of the emulator.               *)
(***************************************************************************)
EXTENDS DeviceLoop
=============================================================================
