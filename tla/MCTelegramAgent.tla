--------------------------- MODULE MCTelegramAgent ---------------------------
(***************************************************************************)
(* Instances of TelegramAgent for TLC: two messages of one chat, one of    *)
(* another, and a run of another front end.                                *)
(***************************************************************************)
EXTENDS TelegramAgent, TLC

CONSTANTS m1, m2, m3, c1, c2

MCChatOf == (m1 :> c1) @@ (m2 :> c1) @@ (m3 :> c2)
(* The two messages of one chat are interchangeable.                       *)
Symmetry == Permutations({m1, m2})

MCOneChat == [m \in {m1, m2} |-> c1]
=============================================================================
