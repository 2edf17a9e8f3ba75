---------------------------- MODULE MCGrokHarness ----------------------------
(* Instances of GrokHarness for TLC.                                       *)
EXTENDS GrokHarness, TLC

Symmetry == Permutations(Run)
=============================================================================
