---------------------------- MODULE MCIdeStream -----------------------------
(***************************************************************************)
(* IdeStream for TLC.  MCIdeStream.cfg: one case, two slot triples, of     *)
(* which a refresh needs the other one, so that it finds it free, freed by *)
(* another stream, exhausted, or taken by a stream that opens at any step; *)
(* three refreshes, so that both key sets are used again.                  *)
(* MCIdeCases.cfg: two cases, so that one runs on the leftovers of another *)
(* in whatever state its failure left the device; three triples, so that a *)
(* search for slots has an occupied triple to skip.                        *)
(***************************************************************************)
EXTENDS IdeStream
=============================================================================
