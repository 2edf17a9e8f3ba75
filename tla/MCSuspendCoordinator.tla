------------------------ MODULE MCSuspendCoordinator ------------------------
(***************************************************************************)
(* Instances of SuspendCoordinator for TLC.  Chains, leases and hosts are  *)
(* interchangeable.                                                        *)
(***************************************************************************)
EXTENDS SuspendCoordinator, TLC

Symmetry == Permutations(Chain) \cup Permutations(Suspension)
              \cup Permutations(Request)
=============================================================================
