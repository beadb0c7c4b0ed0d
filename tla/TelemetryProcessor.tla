------------------------- MODULE TelemetryProcessor -------------------------
(***************************************************************************)
(* The telemetry-processor (internal/processor/processor.go): a group of   *)
(* consumers that turns the raw topic into canonical events, at least once.*)
(*                                                                         *)
(* Run polls a batch and retries processBatch on it until one attempt      *)
(* succeeds.  An attempt walks through five phases:                        *)
(*   "validate"  decode and validate each record, drop in-batch duplicates *)
(*   "lookup"    one Redis pipeline: EXISTS dedup key, GET vehicle's fleet *)
(*   "produce"   ProduceSync of canonical events and dead letters          *)
(*   "mark"      one Redis pipeline: SET dedup keys, failure only logged   *)
(*   "commit"    CommitRecords, then AllowRebalance                        *)
(* and a failure in lookup, produce or commit starts the next attempt.     *)
(*                                                                         *)
(* An event stands for the telemetry with one (VIN, deviceTimestamp), that *)
(* is, with one eventId and one dedup key.  A raw record is an event or    *)
(* Invalid, a payload that fails to decode or to validate at any time.     *)
(***************************************************************************)
EXTENDS ConsumerGroup

CONSTANTS
  Events,       \* valid telemetry, one per (VIN, deviceTimestamp)
  EarlyEvents,  \* events that may arrive over 5 minutes before their timestamp
  Vins,         \* vehicles
  VinOf,        \* VinOf[e]: the vehicle that sent e
  PartitionOf,  \* PartitionOf[v]: hash of the record key, the VIN
  Invalid,      \* a raw record that is never valid
  Fleets,       \* values of a vehicle's key in Redis
  NoFleet,      \* UnassignedFleet, the value of a key that does not exist
  MaxRecords,   \* bound: raw records per partition
  MaxFaults,    \* bound: failed calls, crashes, expired dedup keys
  MaxExpulsions, \* bound: expulsions from the group
  MaxReassigns  \* bound: changes of a vehicle's key in Redis

ASSUME ConstantsAssumption ==
  /\ EarlyEvents \subseteq Events
  /\ VinOf \in [Events -> Vins]
  /\ PartitionOf \in [Vins -> Partitions]
  /\ Invalid \notin Events
  /\ NoOwner \notin Consumers
  /\ MaxRecords \in Nat /\ MaxReassigns \in Nat
  /\ MaxFaults \in Nat /\ MaxExpulsions \in Nat

VARIABLES
  canonical,   \* canonical[p]: the canonical topic, <<[event, fleet, write], ...>>
  deadLetters, \* the DLQ topic, a set of <<source partition, source offset>>
  dedup,       \* Redis: events whose dedup key is set
  fleet,       \* Redis: the values that v's key has held, the present one last
  early,       \* events whose timestamp is still over 5 minutes ahead
  phase,       \* phase[c]: what a busy c does next
  items,       \* items[c]: the events of the attempt (items in processBatch)
  stamp,       \* stamp[c][v]: what the attempt read for v, see Present
  unsent,      \* unsent[c]: the events ProduceSync has yet to append
  rejects,     \* rejects[c]: the dead letters ProduceSync has yet to append
  faults,      \* faults so far, at most MaxFaults
  expulsions   \* expulsions so far, at most MaxExpulsions

attemptVars == <<phase, items, stamp, unsent, rejects>>
redisVars == <<dedup, fleet>>
topicVars == <<canonical, deadLetters>>
budgetVars == <<faults, expulsions>>
groupVars == <<log, coordinatorVars, clientVars>>
vars == <<groupVars, attemptVars, redisVars, topicVars, early, budgetVars>>

Phases == {"validate", "lookup", "produce", "mark", "commit"}

Home(e) == PartitionOf[VinOf[e]]

\* What GET answers for v: the value, with the index of the write that left it.
Present(v) == [fleet |-> fleet[v][Len(fleet[v])], write |-> Len(fleet[v])]

\* No vehicle has a key at first, which is what index 1 stands for.
Unassigned == [v \in Vins |-> [fleet |-> NoFleet, write |-> 1]]

Init ==
  /\ GroupInit
  /\ canonical = [p \in Partitions |-> << >>]
  /\ deadLetters = {}
  /\ dedup = {}
  /\ fleet = [v \in Vins |-> <<NoFleet>>]
  /\ early = EarlyEvents
  /\ phase = [c \in Consumers |-> "validate"]
  /\ items = [c \in Consumers |-> {}]
  /\ stamp = [c \in Consumers |-> Unassigned]
  /\ unsent = [c \in Consumers |-> {}]
  /\ rejects = [c \in Consumers |-> {}]
  /\ faults = 0
  /\ expulsions = 0

Published(e) == \E i \in DOMAIN canonical[Home(e)] : canonical[Home(e)][i].event = e

Copies(e) == Cardinality({i \in DOMAIN canonical[Home(e)] : canonical[Home(e)][i].event = e})

\* A raw record is accounted for once it is published or dead-lettered.
Accounted(p, o) ==
  \/ <<p, o>> \in deadLetters
  \/ log[p][o] \in Events /\ Published(log[p][o])

\* The batch of c as a set of <<partition, offset>>, and the record at b.
Batch(c) == UNION {{p} \X BatchOffsets(c, p) : p \in Partitions}

Record(b) == log[b[1]][b[2]]

\* e comes before f in the batch: `out` keeps the order of first occurrences.
Precedes(e, f, c) ==
  /\ Home(e) = Home(f)
  /\ \E o \in BatchOffsets(c, Home(e)) :
        /\ log[Home(e)][o] = e
        /\ \A i \in BatchOffsets(c, Home(e)) : i <= o => log[Home(e)][i] # f

\* processBatch returns, with or without an error: its local variables are gone.
AttemptReturns(c) ==
  /\ phase' = [phase EXCEPT ![c] = "validate"]
  /\ items' = [items EXCEPT ![c] = {}]
  /\ stamp' = [stamp EXCEPT ![c] = Unassigned]
  /\ unsent' = [unsent EXCEPT ![c] = {}]
  /\ rejects' = [rejects EXCEPT ![c] = {}]

Fault ==
  /\ faults < MaxFaults
  /\ faults' = faults + 1
  /\ UNCHANGED expulsions

-----------------------------------------------------------------------------
(* Environment *)

\* The bridge appends a telemetry message to the raw topic; keyed by VIN, and
\* possibly not for the first time (QoS 1, Lambda retries).
Arrive(p, r) ==
  /\ Len(log[p]) < MaxRecords
  /\ r \in Events => Home(r) = p
  /\ log' = [log EXCEPT ![p] = Append(@, r)]
  /\ UNCHANGED <<coordinatorVars, clientVars, attemptVars, redisVars, topicVars, early, budgetVars>>

\* The wall clock comes within 5 minutes of the timestamp of e.
ClockReaches(e) ==
  /\ e \in early
  /\ early' = early \ {e}
  /\ UNCHANGED <<groupVars, attemptVars, redisVars, topicVars, budgetVars>>

\* rbac-authz writes or deletes v's key.  Not only SetOne does: SyncOnce may bring
\* an older mapping back, so any value may follow any other.
Reassign(v, f) ==
  /\ Len(fleet[v]) <= MaxReassigns
  /\ f # Present(v).fleet
  /\ fleet' = [fleet EXCEPT ![v] = Append(@, f)]
  /\ UNCHANGED <<groupVars, attemptVars, dedup, topicVars, early, budgetVars>>

\* DEDUP_TTL runs out.
Expire(e) ==
  /\ e \in dedup
  /\ Fault
  /\ dedup' = dedup \ {e}
  /\ UNCHANGED <<groupVars, attemptVars, fleet, topicVars, early>>

GroupStep ==
  /\ \/ \E c \in Consumers : Join(c)
     \/ \E p \in Partitions, c \in Consumers : Assign(p, c)
     \/ \E p \in Partitions : Revoke(p)
  /\ UNCHANGED <<attemptVars, redisVars, topicVars, early, budgetVars>>

Expelled(c) ==
  /\ expulsions < MaxExpulsions
  /\ expulsions' = expulsions + 1
  /\ Expel(c)
  /\ UNCHANGED <<attemptVars, redisVars, topicVars, early, faults>>

\* The process dies or its context is cancelled: Run returns, the offsets of
\* the batch are not committed, nothing in memory survives.
Crash(c) ==
  /\ Fault
  /\ Stop(c)
  /\ AttemptReturns(c)
  /\ UNCHANGED <<redisVars, topicVars, early>>

-----------------------------------------------------------------------------
(* Run and processBatch *)

Poll(c) ==
  /\ PollRecords(c)
  /\ UNCHANGED <<attemptVars, redisVars, topicVars, early, budgetVars>>

\* Mutant: records are not validated.
EveryRecord(c) == Batch(c)

\* The records that decode and pass model.Validate at the time of the attempt.
Valid(c) == {b \in Batch(c) : Record(b) \in Events \ early}

\* Mutant: the other records are skipped.
NoRecord(c) == {}

\* The others go to the DLQ.
Rejected(c) == Batch(c) \ Valid(c)

\* The items are a set: the map `seen` keeps one record per dedup key.
Validate(c) ==
  /\ c \in busy /\ phase[c] = "validate"
  /\ items' = [items EXCEPT ![c] = {Record(b) : b \in Valid(c)}]
  /\ rejects' = [rejects EXCEPT ![c] = Rejected(c)]
  /\ phase' = [phase EXCEPT ![c] = IF Valid(c) = {} THEN "produce" ELSE "lookup"]
  /\ UNCHANGED <<groupVars, stamp, unsent, redisVars, topicVars, early, budgetVars>>

\* Mutant: the answers of EXISTS are ignored.
NoDuplicate(c) == {}

\* The events whose dedup key exists.
Duplicates(c) == items[c] \cap dedup

\* EXISTS and GET in one pipeline: events with a dedup key are dropped, the
\* others are stamped with the fleet of their vehicle.  If nothing is left to
\* produce, ProduceSync is not called.
Lookup(c) ==
  /\ c \in busy /\ phase[c] = "lookup"
  /\ items' = [items EXCEPT ![c] = @ \ Duplicates(c)]
  /\ unsent' = [unsent EXCEPT ![c] = items[c] \ Duplicates(c)]
  /\ stamp' = [stamp EXCEPT ![c] = [v \in Vins |-> Present(v)]]
  /\ phase' = [phase EXCEPT ![c] =
                 IF items[c] \subseteq Duplicates(c) /\ rejects[c] = {} THEN "commit" ELSE "produce"]
  /\ UNCHANGED <<groupVars, rejects, redisVars, topicVars, early, budgetVars>>

\* Mutant: an error of GET is taken for a missing key, the vehicle for unassigned.
LookupFailsOpen(c) ==
  /\ c \in busy /\ phase[c] = "lookup"
  /\ Fault
  /\ unsent' = [unsent EXCEPT ![c] = items[c]]
  /\ phase' = [phase EXCEPT ![c] = "produce"]
  /\ UNCHANGED <<groupVars, items, stamp, rejects, redisVars, topicVars, early>>

\* Redis does not answer.
LookupFails(c) ==
  /\ c \in busy /\ phase[c] = "lookup"
  /\ Fault
  /\ AttemptReturns(c)
  /\ UNCHANGED <<groupVars, redisVars, topicVars, early>>

\* Mutant: the events of a vehicle are spread over partitions.
AnyOrder(c, e) == TRUE

\* The records of one partition are appended in the order of ProduceSync's arguments.
InOrder(c, e) == \A f \in unsent[c] : ~Precedes(f, e, c)

CanonicalEvent(c, e) ==
  [event |-> e, fleet |-> stamp[c][VinOf[e]].fleet, write |-> stamp[c][VinOf[e]].write]

\* The broker appends one canonical event.
AppendEvent(c, e) ==
  /\ c \in busy /\ phase[c] = "produce"
  /\ e \in unsent[c]
  /\ InOrder(c, e)
  /\ canonical' = [canonical EXCEPT ![Home(e)] =
                     Append(@, CanonicalEvent(c, e))]
  /\ unsent' = [unsent EXCEPT ![c] = @ \ {e}]
  /\ UNCHANGED <<groupVars, phase, items, stamp, rejects, redisVars, deadLetters, early, budgetVars>>

AppendDeadLetter(c, b) ==
  /\ c \in busy /\ phase[c] = "produce"
  /\ b \in rejects[c]
  /\ deadLetters' = deadLetters \cup {b}
  /\ rejects' = [rejects EXCEPT ![c] = @ \ {b}]
  /\ UNCHANGED <<groupVars, phase, items, stamp, unsent, redisVars, canonical, early, budgetVars>>

\* Mutant: Produce instead of ProduceSync, nothing waits for the acknowledgements.
Sent(c) == TRUE

Acknowledged(c) == unsent[c] = {} /\ rejects[c] = {}

\* ProduceSync returns without error: every record is acknowledged.
Produced(c) ==
  /\ c \in busy /\ phase[c] = "produce"
  /\ Acknowledged(c)
  /\ phase' = [phase EXCEPT ![c] = IF items[c] = {} THEN "commit" ELSE "mark"]
  /\ UNCHANGED <<groupVars, items, stamp, unsent, rejects, redisVars, topicVars, early, budgetVars>>

\* Mutant: the error is logged and Run goes on to the next poll.
ProduceFailsForGood(c) ==
  /\ c \in busy /\ phase[c] = "produce"
  /\ Fault
  /\ AllowRebalance(c)
  /\ AttemptReturns(c)
  /\ UNCHANGED <<committed, redisVars, topicVars, early>>

\* Some record is not acknowledged, appended or not: the batch starts over.
ProduceFails(c) ==
  /\ c \in busy /\ phase[c] = "produce"
  /\ Fault
  /\ AttemptReturns(c)
  /\ UNCHANGED <<groupVars, redisVars, topicVars, early>>

Mark(c) ==
  /\ c \in busy /\ phase[c] = "mark"
  /\ dedup' = dedup \cup items[c]
  /\ phase' = [phase EXCEPT ![c] = "commit"]
  /\ UNCHANGED <<groupVars, items, stamp, unsent, rejects, fleet, topicVars, early, budgetVars>>

\* The pipeline of SETs fails, after having set some of the keys: a warning.
MarkFails(c) ==
  /\ c \in busy /\ phase[c] = "mark"
  /\ Fault
  /\ \E set \in SUBSET items[c] : dedup' = dedup \cup set
  /\ phase' = [phase EXCEPT ![c] = "commit"]
  /\ UNCHANGED <<groupVars, items, stamp, unsent, rejects, fleet, topicVars, early>>

\* CommitRecords succeeds and Run goes on to AllowRebalance and the next poll.
Commit(c) ==
  /\ c \in busy /\ phase[c] = "commit"
  /\ c \in members
  /\ committed' = OffsetsCommittedBy(c)
  /\ AllowRebalance(c)
  /\ AttemptReturns(c)
  /\ UNCHANGED <<redisVars, topicVars, early, budgetVars>>

\* CommitRecords returns an error: c is no member any more, or the request or
\* its answer is lost.  The error is retried like any other.
CommitFails(c) ==
  /\ c \in busy /\ phase[c] = "commit"
  /\ \/ c \notin members /\ UNCHANGED <<committed, budgetVars>>
     \/ c \in members /\ Fault /\ committed' \in {committed, OffsetsCommittedBy(c)}
  /\ AttemptReturns(c)
  /\ UNCHANGED <<log, members, owner, clientVars, redisVars, topicVars, early>>

-----------------------------------------------------------------------------
Handle(c) ==
  \/ Poll(c)
  \/ Validate(c)
  \/ Lookup(c)
  \/ \E e \in Events : AppendEvent(c, e)
  \/ \E b \in Batch(c) : AppendDeadLetter(c, b)
  \/ Produced(c)
  \/ Mark(c)
  \/ Commit(c)

Fail(c) ==
  \/ LookupFails(c)
  \/ ProduceFails(c)
  \/ MarkFails(c)
  \/ CommitFails(c)
  \/ Expelled(c)
  \/ Crash(c)

Environment ==
  \/ \E p \in Partitions, r \in Events \cup {Invalid} : Arrive(p, r)
  \/ \E e \in Events : ClockReaches(e) \/ Expire(e)
  \/ \E v \in Vins, f \in Fleets \cup {NoFleet} : Reassign(v, f)

Next ==
  \/ Environment
  \/ GroupStep
  \/ \E c \in Consumers : Handle(c) \/ Fail(c)

Spec == Init /\ [][Next]_vars

\* The loops of the processor and of the group run; nothing is assumed of the
\* environment.  Failures are finitely many, by MaxFaults and
\* MaxExpulsions.
Fairness ==
  /\ WF_vars(GroupStep)
  /\ \A c \in Consumers : WF_vars(Handle(c))

FairSpec == Spec /\ Fairness

-----------------------------------------------------------------------------
(* Properties *)

Stamps == [fleet : Fleets \cup {NoFleet}, write : Nat]

CanonicalEvents == [event : Events, fleet : Fleets \cup {NoFleet}, write : Nat]

\* Type invariant of the processor's state and of its consumer group.
TypeOK ==
  /\ log \in [Partitions -> Seq(Events \cup {Invalid})]
  /\ members \subseteq Consumers
  /\ owner \in [Partitions -> Consumers \cup {NoOwner}]
  /\ committed \in [Partitions -> Nat]
  /\ held \in [Consumers -> SUBSET Partitions]
  /\ done \in [Consumers -> [Partitions -> Nat]]
  /\ polled \in [Consumers -> [Partitions -> Nat]]
  /\ busy \subseteq Consumers
  /\ canonical \in [Partitions -> Seq(CanonicalEvents)]
  /\ deadLetters \subseteq Partitions \X Nat
  /\ dedup \subseteq Events
  /\ fleet \in [Vins -> Seq(Fleets \cup {NoFleet}) \ {<< >>}]
  /\ early \subseteq EarlyEvents
  /\ phase \in [Consumers -> Phases]
  /\ items \in [Consumers -> SUBSET Events]
  /\ stamp \in [Consumers -> [Vins -> Stamps]]
  /\ unsent \in [Consumers -> SUBSET Events]
  /\ rejects \in [Consumers -> SUBSET (Partitions \X Nat)]
  /\ faults \in 0 .. MaxFaults
  /\ expulsions \in 0 .. MaxExpulsions

\* Offsets are committed last in processBatch, so a crash or an expulsion at any
\* step can never drop a record: what is committed is published or dead-lettered.
NeverLost ==
  \A p \in Partitions : \A o \in 1 .. committed[p] : Accounted(p, o)

\* The processor implements at-least-once consumption.  Beyond NeverLost this says
\* that a commit never rewinds the group's offsets: no rebalance takes effect
\* between PollRecords and AllowRebalance, and an expelled consumer is fenced.
Arrived == [p \in Partitions |-> Len(log[p])]

Settled == UNION {{p} \X {o \in 1 .. Len(log[p]) : Accounted(p, o)} : p \in Partitions}

Promise == INSTANCE AtLeastOnce WITH arrived <- Arrived, settled <- Settled

ImplementsAtLeastOnce == Promise!Spec

\* A dedup key makes every later copy of its event a duplicate; it may only be set
\* once the event is in the canonical topic, whoever set it and however it failed.
DedupAfterPublish == \A e \in dedup : Published(e)

\* The coordinator and its members agree on who owns what, and a member's
\* committed offset lies between its finished batches and its current one.
OwnershipOK ==
  /\ \A p \in Partitions : owner[p] # NoOwner => owner[p] \in members
  /\ \A c \in members, p \in Partitions : p \in held[c] <=> owner[p] = c
  /\ \A c \in members : \A p \in held[c] :
       done[c][p] <= committed[p] /\ committed[p] <= polled[c][p]

OffsetsOK ==
  /\ \A p \in Partitions : committed[p] <= Len(log[p])
  /\ \A c \in Consumers : \A p \in held[c] :
       /\ done[c][p] <= polled[c][p]
       /\ polled[c][p] <= Len(log[p])
       /\ c \notin busy => done[c][p] = polled[c][p]

\* What c has finished is accounted for, member or not.
FinishedOK ==
  \A c \in Consumers : \A p \in held[c] : \A o \in 1 .. done[c][p] : Accounted(p, o)

\* What is left to do for the record at offset o of p, in the batch c is handling.
InHand(c, p, o) ==
  \/ Accounted(p, o)
  \/ phase[c] = "validate"
  \/ phase[c] = "lookup" /\ (<<p, o>> \in rejects[c] \/ log[p][o] \in items[c])
  \/ phase[c] = "produce" /\ (<<p, o>> \in rejects[c] \/ log[p][o] \in unsent[c])

BatchOK ==
  /\ \A c \in busy : \A p \in Partitions : \A o \in BatchOffsets(c, p) : InHand(c, p, o)
  /\ \A c \in Consumers \ busy : phase[c] = "validate"

\* An event whose key is about to be set is published or about to be.
ItemsOK ==
  \A c \in busy : \A e \in items[c] :
    \/ phase[c] \in {"validate", "lookup"}
    \/ phase[c] = "produce" /\ e \in unsent[c]
    \/ Published(e)

\* The inductive invariant behind NeverLost: at every step of every attempt each
\* record of the batch is accounted for or still in hand, so that all of them are
\* accounted for when processBatch reaches CommitRecords.
IInv ==
  /\ OwnershipOK
  /\ OffsetsOK
  /\ NeverLost
  /\ DedupAfterPublish
  /\ FinishedOK
  /\ BatchOK
  /\ ItemsOK

\* Without a failure an event is published once, whatever duplicates the raw topic
\* holds.  A failed attempt costs at most one more copy, and an expelled consumer
\* that goes on with its batch doubles that at most.
DuplicatesNeedFaults == \A e \in Events : Copies(e) <= (1 + faults) * (1 + expulsions)

\* The first raw record, and the first canonical copy, of e comes before that of f.
FirstIn(s, e, f) ==
  \E i \in DOMAIN s : s[i] = e /\ \A j \in 1 .. i : s[j] # f

\* The events of the canonical copies in p, in their order.
Column(p) == [i \in DOMAIN canonical[p] |-> canonical[p][i].event]

\* The first copies of a vehicle's events appear in the canonical topic in the
\* order in which the vehicle's messages reached the raw topic, across retries,
\* rebalances and consumers that do not know they were expelled.  An event that
\* was rejected as early and sent again is exempt.
FirstCopiesInOrder ==
  \A e, f \in Events \ EarlyEvents :
    (VinOf[e] = VinOf[f] /\ Published(f) /\ FirstIn(log[Home(e)], e, f))
      => FirstIn(Column(Home(e)), e, f)

\* A stamp is what Redis answered: v's key did hold its value.
WasHeld(v, st) == st.write \in DOMAIN fleet[v] /\ fleet[v][st.write] = st.fleet

\* Every canonical event carries a value that its vehicle's key in Redis has held,
\* and the stamps of a vehicle follow the order in which its key was written: a
\* retry, or the next owner of the partition, reads Redis again and never publishes
\* the value of an earlier write.  Only an expelled consumer can.  This is the order
\* of the writes, not of the assignments in PostgreSQL: where SyncOnce brings an
\* older mapping back, the stamps go back with Redis.
StampsInOrder ==
  /\ \A p \in Partitions : \A i \in DOMAIN canonical[p] :
       WasHeld(VinOf[canonical[p][i].event], canonical[p][i])
  /\ expulsions = 0 =>
       \A p \in Partitions : \A i, j \in DOMAIN canonical[p] :
         (i < j /\ VinOf[canonical[p][i].event] = VinOf[canonical[p][j].event])
           => canonical[p][i].write <= canonical[p][j].write

-----------------------------------------------------------------------------
(* The inductive invariant behind the three properties above *)

\* What c handles is in its batch, and only ProduceSync has records to send.
Sourced(c) ==
  /\ \A e \in items[c] : \E o \in BatchOffsets(c, Home(e)) : log[Home(e)][o] = e
  /\ unsent[c] \subseteq items[c]
  /\ phase[c] = "validate" => items[c] = {}
  /\ unsent[c] # {} => phase[c] = "produce"

\* Where events come from: a vehicle's records are in one partition, what an attempt
\* handles is in its batch, and what is published was in the raw topic.
SourcesOK ==
  /\ \A p \in Partitions : \A o \in DOMAIN log[p] : log[p][o] \in Events => Home(log[p][o]) = p
  /\ \A c \in Consumers : Sourced(c)
  /\ \A p \in Partitions : \A i \in DOMAIN canonical[p] :
       \E o \in DOMAIN log[p] : log[p][o] = canonical[p][i].event

\* Only records that may be invalid or early go, or are about to go, to the DLQ.
RejectsOK ==
  \A b \in deadLetters \cup UNION {rejects[c] : c \in Consumers} :
    b[2] \in DOMAIN log[b[1]] /\ Record(b) \notin Events \ EarlyEvents

\* Stamps were held; and while the group expels nobody, nobody but the owner of a
\* partition has anything to publish there, and what it is about to publish of a
\* vehicle was read no earlier than what is published of it.
StampsOK ==
  /\ \A v \in Vins : Head(fleet[v]) = NoFleet
  /\ \A c \in Consumers, v \in Vins : WasHeld(v, stamp[c][v])
  /\ expulsions = 0 =>
       /\ \A c \in Consumers : held[c] # {} => c \in members
       /\ \A c \in Consumers : \A e \in unsent[c] :
            \A i \in DOMAIN canonical[Home(e)] :
              VinOf[canonical[Home(e)][i].event] = VinOf[e]
                => canonical[Home(e)][i].write <= stamp[c][VinOf[e]].write

\* Expelled consumers that have not noticed and go on with their batch.
Zombies == {c \in Consumers \ members : held[c] # {}}

ZombiesOK == IsFiniteSet(Zombies) /\ Cardinality(Zombies) <= expulsions

\* c appends e once more if nothing fails: it is about to, or will find no dedup key.
\* NoOwner is the consumer that the partition goes to next.
MayPublish(c, e) ==
  IF c = NoOwner
  THEN e \notin dedup
  ELSE \/ e \in unsent[c]
       \/ e \notin dedup /\ ~(phase[c] \in {"produce", "mark"} /\ e \in items[c])

Publishers(e) == {c \in Zombies \cup {owner[Home(e)]} : MayPublish(c, e)}

\* Each copy that was or will be appended is the first one or paid for by a failure.
CopiesOK ==
  \A e \in Events : Copies(e) + Cardinality(Publishers(e)) <= (1 + faults) * (1 + expulsions)

\* What the raw topic, the attempts and the canonical topic have to do with each
\* other at every step of every attempt, for DuplicatesNeedFaults,
\* FirstCopiesInOrder and StampsInOrder to hold.
HistoryInv ==
  /\ SourcesOK
  /\ RejectsOK
  /\ FirstCopiesInOrder
  /\ StampsOK
  /\ StampsInOrder
  /\ ZombiesOK
  /\ CopiesOK

-----------------------------------------------------------------------------
(* Liveness *)

\* Every raw record is eventually handled and its offset committed, however the
\* failures fall; with NeverLost, it is then published or dead-lettered.
EveryRecordCommitted ==
  \A p \in Partitions, o \in 1 .. MaxRecords : (Len(log[p]) >= o) ~> (committed[p] >= o)

\* "At least once, never lost" (README.md, Delivery guarantees): a message that
\* reached the raw topic is eventually published or dead-lettered.
EveryRecordHandled ==
  \A p \in Partitions, o \in 1 .. MaxRecords :
    (Len(log[p]) >= o) ~> (Len(log[p]) >= o /\ Accounted(p, o))
=============================================================================
