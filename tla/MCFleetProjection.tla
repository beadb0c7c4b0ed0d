------------------------- MODULE MCFleetProjection -------------------------
(***************************************************************************)
(* FleetProjection for TLC: two syncers, one or two admin requests at a    *)
(* time.                                                                   *)
(***************************************************************************)
EXTENDS FleetProjection
=============================================================================
