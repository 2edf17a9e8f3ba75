--------------------------- MODULE MCSessionDelivery ---------------------------
(***************************************************************************)
(* An instance of SessionDelivery for TLC: one row, of either kind; what   *)
(* competes for it are its workers.                                        *)
(***************************************************************************)
EXTENDS SessionDelivery

CONSTANT e1
=============================================================================
