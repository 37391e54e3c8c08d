--------------------------- MODULE MCRegisterWalk ---------------------------
(***************************************************************************)
(* Instance of RegisterWalk for TLC: every port with up to two blocks of   *)
(* either kind, and every register locator of up to four entries.          *)
(***************************************************************************)
EXTENDS RegisterWalk

MCAddrBlocks == {0, 1, 2}
MCStreamIds == {0, 1}
=============================================================================
