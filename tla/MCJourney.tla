----------------------------- MODULE MCJourney -----------------------------
(* Journey for TLC: two vehicles, a snapshot of one row, and a user who may  *)
(* see fleet a or nothing.                                                   *)
EXTENDS Journey

CONSTANTS v1, v2, fa, fb

FleetOrNothing == {{fa}, {}}

Active(v) == taken[v] > 0 \/ v \in online

\* Where the bounded behaviours start: v2 in the granted fleet, v1 in it or not.
Start == (moves = 0 => fleet[v2] = fa) /\ (grants = 0 => granted = {fa})

\* Bounds on combinations: two reports, and two failures or changes; if both vehicles
\* are active, one failure or change.  The vehicles are alike: v1 is active first.
FewAtATime ==
  /\ Start
  /\ taken[v1] + taken[v2] <= 2
  /\ Active(v2) => Active(v1)
  /\ (IF Active(v2) THEN 1 ELSE 0) + trouble + breaks + moves + grants + horizon <= 2
=============================================================================
