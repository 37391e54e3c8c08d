---------------------------- MODULE MCPcieGroup -----------------------------
(***************************************************************************)
(* Instance of PcieGroup for TLC: a group on one endpoint, one on another, *)
(* and one on the first again.                                             *)
(***************************************************************************)
EXTENDS PcieGroup

MCPlan == <<"e1", "e2", "e1">>
=============================================================================
