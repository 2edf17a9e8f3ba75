--------------------------- MODULE MCCommandQueue ---------------------------
(***************************************************************************)
(* An instance of CommandQueue for TLC: a normal and a foreground call in  *)
(* lane "main", and one in lane "probe", which keeps at least one slot.    *)
(***************************************************************************)
EXTENDS CommandQueue, TLC

CONSTANTS e1, e2, e3

MCLane == {"main", "probe"}
MCProbe == {"probe"}
MCLaneOf == (e1 :> "main") @@ (e2 :> "main") @@ (e3 :> "probe")
MCPriority == (e1 :> 0) @@ (e2 :> 1) @@ (e3 :> 0)
MCTimed == [e \in {e1, e2, e3} |-> TRUE]
MCPause == {-1, 1}
=============================================================================
