------------------------------ MODULE LiveFeed ------------------------------
(***************************************************************************)
(* What the live view promises: the feed of a connected browser is a       *)
(* selection of the published events, each one allowed by the scope that   *)
(* the browser's connection has when the event is picked for it.  As long  *)
(* as nothing disturbs the consumers, no event is picked twice and the     *)
(* events of a partition keep their order.                                 *)
(***************************************************************************)
EXTENDS Naturals, Sequences

CONSTANTS Partitions, Clients, Events, Tags, TagsOf

VARIABLES
  topic,    \* topic[p]: the events published to p
  scope,    \* scope[k]: the tags that k may see; {} also without a connection
  feed,     \* feed[k]: the <<partition, offset>> picked for k's connection
  disturbed \* a consumer has stopped or given up a partition

vars == <<topic, scope, feed, disturbed>>

Init ==
  /\ topic = [p \in Partitions |-> << >>]
  /\ scope = [k \in Clients |-> {}]
  /\ feed = [k \in Clients |-> << >>]
  /\ disturbed = FALSE

Publish(p, e) ==
  /\ topic' = [topic EXCEPT ![p] = Append(@, e)]
  /\ UNCHANGED <<scope, feed, disturbed>>

\* A change of k's scope during the connection, or the end of one or start of another.
Rescope(k, s) == scope' = [scope EXCEPT ![k] = s] /\ UNCHANGED <<topic, feed, disturbed>>

Reset(k, s) ==
  /\ scope' = [scope EXCEPT ![k] = s]
  /\ feed' = [feed EXCEPT ![k] = << >>]
  /\ UNCHANGED <<topic, disturbed>>

Allowed(k, x) == scope[k] \cap TagsOf[topic[x[1]][x[2]]] # {}

InOrder(k, x) ==
  disturbed \/ \A i \in DOMAIN feed[k] : feed[k][i][1] = x[1] => feed[k][i][2] < x[2]

\* One published event is picked for some of the browsers that may see it.
Pick(x, chosen) ==
  /\ \A k \in chosen : Allowed(k, x) /\ InOrder(k, x)
  /\ feed' = [k \in Clients |-> IF k \in chosen THEN Append(feed[k], x) ELSE feed[k]]
  /\ UNCHANGED <<topic, scope, disturbed>>

Disturb == disturbed' = TRUE /\ UNCHANGED <<topic, scope, feed>>

Next ==
  \/ \E p \in Partitions : \E e \in Events : Publish(p, e)
  \/ \E k \in Clients : \E s \in SUBSET Tags : Rescope(k, s) \/ Reset(k, s)
  \/ \E p \in Partitions : \E o \in DOMAIN topic[p] :
       \E chosen \in SUBSET Clients : Pick(<<p, o>>, chosen)
  \/ Disturb

Spec == Init /\ [][Next]_vars
=============================================================================
