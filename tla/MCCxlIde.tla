------------------------------ MODULE MCCxlIde ------------------------------
(***************************************************************************)
(* CxlIde for TLC: a device with two ports, so that the port under test is *)
(* the first, the second or not reported; two cases, in one group or two,  *)
(* so that one runs on what the other, its failure or a hang left behind;  *)
(* one refresh each, after keys the device took or refused.                *)
(***************************************************************************)
EXTENDS CxlIde
=============================================================================
