---------------------------- MODULE MCSessionGroups ----------------------------
(* Two applications and the fallback scanner alone: Redis does not notify. *)
EXTENDS SessionGroups
=============================================================================
