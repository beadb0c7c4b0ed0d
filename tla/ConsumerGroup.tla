--------------------------- MODULE ConsumerGroup ---------------------------
(***************************************************************************)
(* A Kafka consumer group as this repository uses it through franz-go:     *)
(* DisableAutoCommit, BlockRebalanceOnPoll, AtStart, and the loop          *)
(*     PollRecords; handle the batch; CommitRecords; AllowRebalance        *)
(* of internal/processor/processor.go and internal/router/persist.go.      *)
(* The broker and the client library are external code: what is written    *)
(* here is what those two loops rely on.  The module has no specification  *)
(* of its own; a consumer's module extends it and adds its handler.        *)
(*                                                                         *)
(* Coordinator's state: members, owner, committed.  A consumer's own       *)
(* belief: held, done, polled, and whether it is busy, that is, between    *)
(* PollRecords and AllowRebalance.  The batch a busy consumer holds of     *)
(* partition p is the offsets done[c][p]+1 .. polled[c][p].                *)
(***************************************************************************)
EXTENDS Naturals, Sequences, FiniteSets

CONSTANTS
  Consumers,    \* processes of the group (pods)
  Partitions,   \* partitions of the consumed topic
  NoOwner       \* marks a partition that no member owns

VARIABLES
  log,        \* log[p]: the consumed topic, an append-only sequence
  members,    \* consumers the coordinator takes for live
  owner,      \* owner[p]: the member p is assigned to, or NoOwner
  committed,  \* committed[p]: every offset up to it is committed
  held,       \* held[c]: the partitions c believes it owns
  done,       \* done[c][p]: last offset of c's finished batches
  polled,     \* polled[c][p]: last offset returned by c's PollRecords
  busy        \* consumers between PollRecords and AllowRebalance

coordinatorVars == <<members, owner, committed>>
clientVars == <<held, done, polled, busy>>

NoOffsets == [p \in Partitions |-> 0]

GroupInit ==
  /\ log = [p \in Partitions |-> << >>]
  /\ members = {}
  /\ owner = [p \in Partitions |-> NoOwner]
  /\ committed = NoOffsets
  /\ held = [c \in Consumers |-> {}]
  /\ done = [c \in Consumers |-> NoOffsets]
  /\ polled = [c \in Consumers |-> NoOffsets]
  /\ busy = {}

Owned(c) == {p \in Partitions : owner[p] = c}

\* The records of partition p in the batch that consumer c is handling.
BatchOffsets(c, p) ==
  IF p \in held[c] THEN (done[c][p] + 1) .. polled[c][p] ELSE {}

Disown(c) == [p \in Partitions |-> IF owner[p] = c THEN NoOwner ELSE owner[p]]

-----------------------------------------------------------------------------
(* The coordinator *)

\* c (re)joins.  A consumer that lost its membership drops what it held; that
\* is a rebalance callback, which BlockRebalanceOnPoll delays while c is busy.
Join(c) ==
  /\ c \notin members
  /\ c \notin busy
  /\ members' = members \cup {c}
  /\ held' = [held EXCEPT ![c] = {}]
  /\ UNCHANGED <<log, owner, committed, done, polled, busy>>

\* A free partition goes to a least loaded member, which resumes from the
\* committed offset (AtStart when there is none).
Assign(p, c) ==
  /\ owner[p] = NoOwner
  /\ c \in members \ busy
  /\ \A d \in members : Cardinality(Owned(c)) <= Cardinality(Owned(d))
  /\ owner' = [owner EXCEPT ![p] = c]
  /\ held' = [held EXCEPT ![c] = @ \cup {p}]
  /\ done' = [done EXCEPT ![c][p] = committed[p]]
  /\ polled' = [polled EXCEPT ![c][p] = committed[p]]
  /\ UNCHANGED <<log, members, committed, busy>>

\* Mutant: without BlockRebalanceOnPoll a member loses p while it handles records of p.
RevokeUnblocked(p) ==
  /\ owner[p] \in members
  /\ \E d \in members : Cardinality(Owned(d)) + 2 <= Cardinality(Owned(owner[p]))
  /\ owner' = [owner EXCEPT ![p] = NoOwner]
  /\ UNCHANGED <<log, members, committed, held, done, polled, busy>>

\* Cooperative rebalancing takes p from a member that owns at least two
\* partitions more than another one, never while that member is busy.
Revoke(p) ==
  /\ owner[p] \in members \ busy
  /\ \E d \in members : Cardinality(Owned(d)) + 2 <= Cardinality(Owned(owner[p]))
  /\ owner' = [owner EXCEPT ![p] = NoOwner]
  /\ held' = [held EXCEPT ![owner[p]] = @ \ {p}]
  /\ UNCHANGED <<log, members, committed, done, polled, busy>>

\* Heartbeats stop arriving, or a busy member holds up a rebalance longer than
\* the rebalance timeout: the coordinator drops c, which does not know yet.
Expel(c) ==
  /\ c \in members
  /\ members' = members \ {c}
  /\ owner' = Disown(c)
  /\ UNCHANGED <<log, committed, held, done, polled, busy>>

\* The process of c ends (crash, SIGTERM) and is started again by Kubernetes.
Stop(c) ==
  /\ members' = members \ {c}
  /\ owner' = Disown(c)
  /\ held' = [held EXCEPT ![c] = {}]
  /\ done' = [done EXCEPT ![c] = NoOffsets]
  /\ polled' = [polled EXCEPT ![c] = NoOffsets]
  /\ busy' = busy \ {c}
  /\ UNCHANGED <<log, committed>>

-----------------------------------------------------------------------------
(* The calls of the client *)

\* PollRecords returns, for the held partitions, records fetched so far.
PollRecords(c) ==
  /\ c \notin busy
  /\ \E upTo \in [held[c] -> UNION {0 .. Len(log[p]) : p \in held[c]}] :
        /\ \A p \in held[c] : polled[c][p] <= upTo[p] /\ upTo[p] <= Len(log[p])
        /\ \E p \in held[c] : polled[c][p] < upTo[p]
        /\ polled' = [polled EXCEPT ![c] =
                        [p \in Partitions |-> IF p \in held[c] THEN upTo[p] ELSE @[p]]]
  /\ busy' = busy \cup {c}
  /\ UNCHANGED <<log, members, owner, committed, held, done>>

\* The effect of CommitRecords on the coordinator: accepted from members only.
OffsetsCommittedBy(c) ==
  [p \in Partitions |-> IF BatchOffsets(c, p) # {} THEN polled[c][p] ELSE committed[p]]

\* AllowRebalance: the batch is over and the next poll starts behind it.
AllowRebalance(c) ==
  /\ done' = [done EXCEPT ![c] = polled[c]]
  /\ busy' = busy \ {c}
  /\ UNCHANGED <<log, members, owner, held, polled>>
=============================================================================
