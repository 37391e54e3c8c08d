---------------------------- MODULE MCDoeMailbox ----------------------------
(***************************************************************************)
(* DoeMailbox for TLC.  Three exchanges: one that goes wrong, one that may *)
(* recover or meet the residue, and one after that.  Objects of 2, 3 and 4 *)
(* dwords against buffers that hold no header, some objects or all of them.*)
(***************************************************************************)
EXTENDS DoeMailbox

MCBufSizes == {1, 3, 4}
MCAmpleBufSizes == {4}
=============================================================================
