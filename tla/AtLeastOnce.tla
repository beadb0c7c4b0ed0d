---------------------------- MODULE AtLeastOnce ----------------------------
(***************************************************************************)
(* What "at least once, never lost" (README.md, Delivery guarantees) asks  *)
(* of a consumer of a partitioned topic: an offset is committed only when  *)
(* every record up to it is settled, that is, handled for good.  How often *)
(* a record is handled, in which order, by whom and through which failures *)
(* is left open.  The telemetry-processor implements this specification.   *)
(***************************************************************************)
EXTENDS Naturals

CONSTANT Partitions

VARIABLES
  arrived,   \* arrived[p]: number of records in partition p
  settled,   \* <<partition, offset>> of the records handled for good
  committed  \* committed[p]: the group's offset, what a restart resumes from

vars == <<arrived, settled, committed>>

Init ==
  /\ arrived = [p \in Partitions |-> 0]
  /\ settled = {}
  /\ committed = [p \in Partitions |-> 0]

\* The next record of p; the copy of a record handled earlier is settled at once.
Arrive(p) ==
  /\ arrived' = [arrived EXCEPT ![p] = @ + 1]
  /\ settled' \in {settled, settled \cup {<<p, arrived[p] + 1>>}}
  /\ UNCHANGED committed

\* Handling one record may settle others, its copies.
Settle ==
  /\ settled \subseteq settled'
  /\ \A s \in settled' \ settled : s[1] \in Partitions /\ s[2] \in 1 .. arrived[s[1]]
  /\ UNCHANGED <<arrived, committed>>

Commit ==
  /\ committed' \in [Partitions -> Nat]
  /\ \A p \in Partitions :
        /\ committed[p] <= committed'[p]
        /\ \A o \in 1 .. committed'[p] : <<p, o>> \in settled
  /\ UNCHANGED <<arrived, settled>>

Next == (\E p \in Partitions : Arrive(p)) \/ Settle \/ Commit

Spec == Init /\ [][Next]_vars
=============================================================================
