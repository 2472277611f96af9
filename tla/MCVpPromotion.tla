---------------------------- MODULE MCVpPromotion ----------------------------
(* Small instances of VpPromotion. *)
EXTENDS VpPromotionProps
==============================================================================
