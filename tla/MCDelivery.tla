----------------------------- MODULE MCDelivery -----------------------------
(***************************************************************************)
(* Small instances of Delivery for TLC.                                    *)
(***************************************************************************)
EXTENDS DeliveryInv, TLC

CONSTANTS m0, m1, m2

ZeroTwo == (m0 :> 0) @@ (m2 :> 2)
OneTwo == (m1 :> 1) @@ (m2 :> 2)
=============================================================================
