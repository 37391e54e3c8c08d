------------------------------ MODULE MCTdisp -------------------------------
(***************************************************************************)
(* Tdisp for TLC with all classes: three cases in at most two groups, so   *)
(* that a case meets what two others left behind, in the same session or   *)
(* in a later one, and a case can run again with its setup_success set.    *)
(***************************************************************************)
EXTENDS Tdisp

MCClasses == DOMAIN m_tdisp_test_case_funcs
=============================================================================
