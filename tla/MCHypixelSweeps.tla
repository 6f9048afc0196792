--------------------------- MODULE MCHypixelSweeps ---------------------------
(***************************************************************************)
(* Instance for TLC: two players, one of whom always fails while the other *)
(* comes and goes, and two boundaries whose windows may overlap.  A batch  *)
(* of one lets the failing player fill the stale sweep's whole batch.      *)
(***************************************************************************)
EXTENDS HypixelSweeps
CONSTANTS u1, u2, b1, b2
=============================================================================
