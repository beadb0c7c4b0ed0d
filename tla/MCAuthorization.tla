-------------------------- MODULE MCAuthorization --------------------------
(* An instance of Authorization for TLC: an admin and a viewer that Seed    *)
(* creates, the viewer with a grant of the fleet.                           *)
EXTENDS Authorization

CONSTANTS ua, uv, f, v, c1, p1, p2

Demo ==
  << [type |-> "user", user |-> ua, role |-> "admin"],
     [type |-> "user", user |-> uv, role |-> "viewer"],
     [type |-> "grant", user |-> uv, tag |-> f] >>
=============================================================================
