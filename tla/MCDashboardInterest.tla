------------------------ MODULE MCDashboardInterest ------------------------
(* Small pods for TLC: two browsers, f1 and f2 fleets. *)
EXTENDS DashboardInterest, TLC

CONSTANTS k1, k2, u1, u2, f1, f2, r1

TwoUsers == [k \in Clients |-> IF k = k2 THEN u2 ELSE u1]
OneUser == [k \in Clients |-> u1]
NoneOrAdmin == {{}, {f1, All}}
AdminOrOne == {{f1}, {f2, All}}
=============================================================================
