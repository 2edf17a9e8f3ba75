--------------------------- MODULE MCWorkAdmission ---------------------------
(***************************************************************************)
(* Instances of WorkAdmission for TLC.  Chains are interchangeable, as are *)
(* leases of one kind.                                                     *)
(***************************************************************************)
EXTENDS WorkAdmission, TLC

Symmetry == Permutations(Chain) \cup Permutations(Suspension)
              \cup Permutations(Signal)
=============================================================================
