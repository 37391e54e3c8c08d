---------------------------- MODULE MCTestRunner ----------------------------
(***************************************************************************)
(* TestRunner for TLC: a group of two cases, so that a case runs after the *)
(* leftovers of another, and a group of one; the first case and the last   *)
(* one are followed by the configuration check.                            *)
(***************************************************************************)
EXTENDS TestRunner

MCCaseCount == <<2, 1>>
MCChecked == {<<1, 1>>, <<2, 1>>}
=============================================================================
