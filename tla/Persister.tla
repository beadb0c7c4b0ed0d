----------------------------- MODULE Persister -----------------------------
(***************************************************************************)
(* The persister of realtime-router (internal/router/persist.go): a group  *)
(* of consumers that indexes canonical events in OpenSearch.               *)
(*                                                                         *)
(* Run polls a batch, builds one bulk request of it and retries that until *)
(* bulk returns without error; then it commits, and a commit that fails is *)
(* only logged: unlike the processor, the persister always goes on to      *)
(* AllowRebalance.  OpenSearch is external code.  It executes a bulk       *)
(* request item by item, the items of one document in their order, and it  *)
(* goes on doing so when the client has stopped waiting.                   *)
(*                                                                         *)
(* An event stands for its eventId, which is the document's _id; the topic *)
(* may hold several copies of it, and a document remembers which one it is.*)
(***************************************************************************)
EXTENDS ConsumerGroup

CONSTANTS
  Events,        \* canonical events
  Unindexable,   \* events that the index's strict mapping rejects
  PartitionOf,   \* PartitionOf[e]: hash of the record key, the VIN
  Unparseable,   \* a record without a JSON event in it
  MaxRecords,    \* bound: records per partition
  MaxFaults,     \* bound: failed calls, crashes
  MaxLate,       \* bound: bulk requests that outlive their client
  MaxExpulsions  \* bound: expulsions from the group

ASSUME PersisterAssumption ==
  /\ Unindexable \subseteq Events
  /\ PartitionOf \in [Events -> Partitions]
  /\ Unparseable \notin Events
  /\ NoOwner \notin Consumers
  /\ MaxRecords \in Nat /\ MaxFaults \in Nat
  /\ MaxLate \in Nat /\ MaxExpulsions \in Nat

VARIABLES
  document,   \* document[e]: offset of the copy that is stored as e, or 0
  refused,    \* events that OpenSearch has refused to index
  dropped,    \* <<partition, offset>> of batches given up after HTTP 4xx
  phase,      \* phase[c]: "send", "wait" or "commit"
  pending,    \* pending[c]: items of c's request that are not executed yet
  orphans,    \* the requests nobody waits for, each the items left to execute
  faults,     \* faults so far, at most MaxFaults
  expulsions  \* expulsions so far, at most MaxExpulsions

storeVars == <<document, refused>>
requestVars == <<phase, pending, orphans>>
budgetVars == <<faults, expulsions>>
groupVars == <<log, coordinatorVars, clientVars>>
vars == <<groupVars, storeVars, dropped, requestVars, budgetVars>>

Init ==
  /\ GroupInit
  /\ document = [e \in Events |-> 0]
  /\ refused = {}
  /\ dropped = {}
  /\ phase = [c \in Consumers |-> "send"]
  /\ pending = [c \in Consumers |-> {}]
  /\ orphans = << >>
  /\ faults = 0
  /\ expulsions = 0

Record(b) == log[b[1]][b[2]]

\* The items of the bulk body: the records of the batch that buildBulk can parse.
Body(c) ==
  {b \in UNION {{p} \X BatchOffsets(c, p) : p \in Partitions} : Record(b) \in Events}

Fault ==
  /\ faults < MaxFaults
  /\ faults' = faults + 1
  /\ UNCHANGED expulsions

-----------------------------------------------------------------------------
(* Environment *)

\* telemetry-processor publishes an event, perhaps not for the first time.
Arrive(p, r) ==
  /\ Len(log[p]) < MaxRecords
  /\ r \in Events => PartitionOf[r] = p
  /\ log' = [log EXCEPT ![p] = Append(@, r)]
  /\ UNCHANGED <<coordinatorVars, clientVars, storeVars, dropped, requestVars, budgetVars>>

GroupStep ==
  /\ \/ \E c \in Consumers : Join(c)
     \/ \E p \in Partitions, c \in Consumers : Assign(p, c)
     \/ \E p \in Partitions : Revoke(p)
  /\ UNCHANGED <<storeVars, dropped, requestVars, budgetVars>>

Expelled(c) ==
  /\ expulsions < MaxExpulsions
  /\ expulsions' = expulsions + 1
  /\ Expel(c)
  /\ UNCHANGED <<storeVars, dropped, requestVars, faults>>

-----------------------------------------------------------------------------
(* OpenSearch *)

\* The items that may be executed next: items of one document keep their order.
NextItems(items) ==
  {b \in items : \A a \in items : Record(a) = Record(b) => b[2] <= a[2]}

\* Mutants of Execute: an item that is throttled is counted as rejected for good;
Throttled(b) == refused' = refused \cup {Record(b)} /\ UNCHANGED document

\* the operation is create, which leaves an existing document alone.
CreateOnly(b) ==
  IF Record(b) \in Unindexable
  THEN refused' = refused \cup {Record(b)} /\ UNCHANGED document
  ELSE /\ document' = [document EXCEPT ![Record(b)] = IF @ = 0 THEN b[2] ELSE @]
       /\ UNCHANGED refused

\* Executing an item overwrites the document, unless the mapping refuses it.
Execute(b) ==
  IF Record(b) \in Unindexable
  THEN refused' = refused \cup {Record(b)} /\ UNCHANGED document
  ELSE document' = [document EXCEPT ![Record(b)] = b[2]] /\ UNCHANGED refused

Index(c, b) ==
  /\ phase[c] = "wait"
  /\ b \in NextItems(pending[c])
  /\ Execute(b)
  /\ pending' = [pending EXCEPT ![c] = @ \ {b}]
  /\ UNCHANGED <<groupVars, dropped, phase, orphans, budgetVars>>

IndexLate(i, b) ==
  /\ b \in NextItems(orphans[i])
  /\ Execute(b)
  /\ orphans' = [orphans EXCEPT ![i] = @ \ {b}]
  /\ UNCHANGED <<groupVars, dropped, phase, pending, budgetVars>>

-----------------------------------------------------------------------------
(* Run and bulk *)

Poll(c) ==
  /\ PollRecords(c)
  /\ UNCHANGED <<storeVars, dropped, requestVars, budgetVars>>

\* bulk sends the request; an empty body is not sent.
Send(c) ==
  /\ c \in busy /\ phase[c] = "send"
  /\ pending' = [pending EXCEPT ![c] = Body(c)]
  /\ phase' = [phase EXCEPT ![c] = IF Body(c) = {} THEN "commit" ELSE "wait"]
  /\ UNCHANGED <<groupVars, storeVars, dropped, orphans, budgetVars>>

\* Mutant: an answer of 200 is taken for success whatever its items say.
AnyAnswer(c) == TRUE

\* Every item of the answer is either indexed or rejected for good.
NoRetryableItem(c) == pending[c] = {}

Answered(c) ==
  /\ c \in busy /\ phase[c] = "wait"
  /\ NoRetryableItem(c)
  /\ phase' = [phase EXCEPT ![c] = "commit"]
  /\ pending' = [pending EXCEPT ![c] = {}]
  /\ UNCHANGED <<groupVars, storeVars, dropped, orphans, budgetVars>>

\* 429 or 5xx, of the request or of some item: the same body is sent again.
BulkFails(c) ==
  /\ c \in busy /\ phase[c] = "wait"
  /\ Fault
  /\ phase' = [phase EXCEPT ![c] = "send"]
  /\ pending' = [pending EXCEPT ![c] = {}]
  /\ UNCHANGED <<groupVars, storeVars, dropped, orphans>>

\* The client's timeout: the same body is sent again, and the first request lives on.
BulkTimesOut(c) ==
  /\ c \in busy /\ phase[c] = "wait"
  /\ Len(orphans) < MaxLate
  /\ orphans' = Append(orphans, pending[c])
  /\ phase' = [phase EXCEPT ![c] = "send"]
  /\ pending' = [pending EXCEPT ![c] = {}]
  /\ UNCHANGED <<groupVars, storeVars, dropped, budgetVars>>

\* Any other status from 300 to 499 of the whole request: "dropping batch".
BulkRejected(c) ==
  /\ c \in busy /\ phase[c] = "wait" /\ pending[c] = Body(c)
  /\ Fault
  /\ dropped' = dropped \cup Body(c)
  /\ phase' = [phase EXCEPT ![c] = "commit"]
  /\ pending' = [pending EXCEPT ![c] = {}]
  /\ UNCHANGED <<groupVars, storeVars, orphans>>

Commit(c) ==
  /\ c \in busy /\ phase[c] = "commit"
  /\ c \in members
  /\ committed' = OffsetsCommittedBy(c)
  /\ AllowRebalance(c)
  /\ phase' = [phase EXCEPT ![c] = "send"]
  /\ UNCHANGED <<storeVars, dropped, pending, orphans, budgetVars>>

\* Mutant: the commit is retried with the batch, as telemetry-processor does it.
CommitRetried(c) ==
  /\ c \in busy /\ phase[c] = "commit"
  /\ \/ c \notin members /\ UNCHANGED <<committed, budgetVars>>
     \/ c \in members /\ Fault /\ committed' \in {committed, OffsetsCommittedBy(c)}
  /\ phase' = [phase EXCEPT ![c] = "send"]
  /\ UNCHANGED <<log, members, owner, clientVars, storeVars, dropped, pending, orphans>>

\* A failed commit is a warning: c is no member any more, or the request or its
\* answer is lost.  The next batch's commit covers this one.
CommitFails(c) ==
  /\ c \in busy /\ phase[c] = "commit"
  /\ \/ c \notin members /\ UNCHANGED <<committed, budgetVars>>
     \/ c \in members /\ Fault /\ committed' \in {committed, OffsetsCommittedBy(c)}
  /\ AllowRebalance(c)
  /\ phase' = [phase EXCEPT ![c] = "send"]
  /\ UNCHANGED <<storeVars, dropped, pending, orphans>>

\* The process ends; a request that OpenSearch has received may live on.
Crash(c) ==
  /\ Fault
  /\ Stop(c)
  /\ \/ UNCHANGED orphans
     \/ /\ pending[c] # {} /\ Len(orphans) < MaxLate
        /\ orphans' = Append(orphans, pending[c])
  /\ phase' = [phase EXCEPT ![c] = "send"]
  /\ pending' = [pending EXCEPT ![c] = {}]
  /\ UNCHANGED <<storeVars, dropped>>

-----------------------------------------------------------------------------
Handle(c) ==
  \/ Poll(c)
  \/ Send(c)
  \/ \E b \in pending[c] : Index(c, b)
  \/ Answered(c)
  \/ Commit(c)
  \/ c \notin members /\ CommitFails(c)

Fail(c) ==
  \/ BulkFails(c)
  \/ BulkTimesOut(c)
  \/ BulkRejected(c)
  \/ CommitFails(c)
  \/ Expelled(c)
  \/ Crash(c)

Environment ==
  \/ \E p \in Partitions, r \in Events \cup {Unparseable} : Arrive(p, r)
  \/ \E i \in DOMAIN orphans : \E b \in orphans[i] : IndexLate(i, b)

Next ==
  \/ Environment
  \/ GroupStep
  \/ \E c \in Consumers : Handle(c) \/ Fail(c)

Spec == Init /\ [][Next]_vars

\* The loop of the persister and the group run, and OpenSearch executes the
\* requests it has accepted; failures are finitely many, by the bounds.
Fairness ==
  /\ WF_vars(GroupStep)
  /\ \A c \in Consumers : WF_vars(Handle(c))

FairSpec == Spec /\ Fairness

-----------------------------------------------------------------------------
(* Properties *)

\* Type invariant of the persister's state and of its consumer group.
TypeOK ==
  /\ log \in [Partitions -> Seq(Events \cup {Unparseable})]
  /\ members \subseteq Consumers
  /\ owner \in [Partitions -> Consumers \cup {NoOwner}]
  /\ committed \in [Partitions -> Nat]
  /\ held \in [Consumers -> SUBSET Partitions]
  /\ done \in [Consumers -> [Partitions -> Nat]]
  /\ polled \in [Consumers -> [Partitions -> Nat]]
  /\ busy \subseteq Consumers
  /\ document \in [Events -> Nat]
  /\ refused \subseteq Unindexable
  /\ dropped \subseteq Partitions \X Nat
  /\ phase \in [Consumers -> {"send", "wait", "commit"}]
  /\ pending \in [Consumers -> SUBSET (Partitions \X (Nat \ {0}))]
  /\ orphans \in Seq(SUBSET (Partitions \X (Nat \ {0})))
  /\ faults \in 0 .. MaxFaults
  /\ expulsions \in 0 .. MaxExpulsions

\* OpenSearch has answered for the record at offset o of p, for one copy of its event.
Answer(p, o) ==
  \/ log[p][o] = Unparseable
  \/ log[p][o] \in refused
  \/ log[p][o] \in Events /\ document[log[p][o]] # 0

\* ... or the log names it as part of a dropped batch.
Accounted(p, o) == Answer(p, o) \/ <<p, o>> \in dropped

(***************************************************************************)
(* Commits cover only records that are indexed, refused one by one, or     *)
(* lost in a batch that the log names as dropped - whichever item of which *)
(* attempt failed, and although commits may fail and requests live on      *)
(* (persist.go:91-103).  The comment at persist.go:24-25 promises more,     *)
(* offsets "only after a successful bulk request": a batch that is refused *)
(* as a whole with 3xx or 4xx is committed all the same (146-150).         *)
(***************************************************************************)
NeverLost == \A p \in Partitions : \A o \in 1 .. committed[p] : Accounted(p, o)

\* The persister implements at-least-once consumption, with a dropped batch taken
\* for settled: a commit never rewinds the group, whatever rebalance or failed
\* commit came before it (persist.go:72-77, 99-103).
Arrived == [p \in Partitions |-> Len(log[p])]

Settled == UNION {{p} \X {o \in 1 .. Len(log[p]) : Accounted(p, o)} : p \in Partitions}

Promise == INSTANCE AtLeastOnce WITH arrived <- Arrived, settled <- Settled

ImplementsAtLeastOnce == Promise!Spec

\* Coordinator and members agree on who owns what; a failed commit leaves the
\* committed offset behind a member's finished batches, never ahead of its poll.
OwnershipOK ==
  /\ \A p \in Partitions : owner[p] # NoOwner => owner[p] \in members
  /\ \A c \in members, p \in Partitions : p \in held[c] <=> owner[p] = c
  /\ \A c \in members : \A p \in held[c] : committed[p] <= polled[c][p]

OffsetsOK ==
  /\ \A p \in Partitions : committed[p] <= Len(log[p])
  /\ \A c \in Consumers : \A p \in held[c] :
       /\ done[c][p] <= polled[c][p]
       /\ polled[c][p] <= Len(log[p])
       /\ c \notin busy => done[c][p] = polled[c][p]

\* What c has finished is accounted for, committed or not.
FinishedOK ==
  \A c \in Consumers : \A p \in held[c] : \A o \in 1 .. done[c][p] : Accounted(p, o)

\* The items of a request are events of the topic.
ItemsOK ==
  \A c \in Consumers : \A b \in pending[c] : b[2] \in 1 .. Len(log[b[1]]) /\ Record(b) \in Events

\* What is left to do for the record at offset o of p, in the batch c is handling.
InHand(c, p, o) ==
  \/ Accounted(p, o)
  \/ phase[c] = "send"
  \/ phase[c] = "wait" /\ <<p, o>> \in pending[c]

BatchOK ==
  /\ \A c \in busy : \A p \in Partitions : \A o \in BatchOffsets(c, p) : InHand(c, p, o)
  /\ \A c \in Consumers \ busy : phase[c] = "send"

(***************************************************************************)
(* The inductive invariant behind NeverLost: whatever item of whatever     *)
(* attempt fails, each record of a batch is accounted for or still in the  *)
(* request, so that all are when Run commits; and what a failed commit     *)
(* leaves behind is accounted for as well (persist.go:72-103).             *)
(***************************************************************************)
IInv ==
  /\ OwnershipOK
  /\ OffsetsOK
  /\ NeverLost
  /\ FinishedOK
  /\ ItemsOK
  /\ BatchOK

\* What is stored for the record at offset o of p is that record, or a later one.
Current(p, o) ==
  \/ log[p][o] \notin Events \ Unindexable
  \/ <<p, o>> \in dropped
  \/ document[log[p][o]] >= o

\* Nobody works behind the group's back: no request outlives its client, and no
\* consumer has been expelled.
Quiet == orphans = << >> /\ expulsions = 0

(***************************************************************************)
(* "documents use eventId as _id, which makes redelivery idempotent"       *)
(* (persist.go:25-26): once a copy is committed, its document is that copy *)
(* or a later one.  Copies differ in the fleet they are stamped with, so a *)
(* document that went back would show the event in its former fleet.  Only *)
(* a request that outlives its client, or an expelled consumer, can do so. *)
(***************************************************************************)
DocumentsAreCurrent ==
  Quiet => \A p \in Partitions : \A o \in 1 .. committed[p] : Current(p, o)

\* The records of an event are in one partition.
PlacesOK ==
  \A p \in Partitions : \A o \in DOMAIN log[p] : log[p][o] \in Events => PartitionOf[log[p][o]] = p

\* A request holds records of its consumer's batch, and of one document it executes
\* the later ones last.
RequestOK(c) ==
  /\ pending[c] \subseteq Body(c)
  /\ pending[c] # {} => phase[c] = "wait"
  /\ \A b \in pending[c] : \A o \in BatchOffsets(c, b[1]) :
       (b[2] <= o /\ Record(<<b[1], o>>) = Record(b)) => <<b[1], o>> \in pending[c]

RequestsOK == \A c \in Consumers : RequestOK(c)

\* A member writes only what lies behind the group's committed offset.
CommitsBehind == \A c \in members : \A p \in held[c] : committed[p] <= done[c][p]

\* Documents are no older than what a partition's owner has finished and what it has
\* executed of its batch, and who holds a partition owns it.
OwnerIsCurrent(c, p) ==
  /\ c \in members
  /\ \A o \in 1 .. done[c][p] : Current(p, o)
  /\ \A o \in BatchOffsets(c, p) : phase[c] = "send" \/ <<p, o>> \in pending[c] \/ Current(p, o)

OwnersAreCurrent == Quiet => \A c \in Consumers : \A p \in held[c] : OwnerIsCurrent(c, p)

\* The inductive invariant behind DocumentsAreCurrent (persist.go:59-103, 112-137): a
\* batch that starts over writes its documents again, but never one of a record
\* before the committed offset.
CurrentInv ==
  /\ PlacesOK
  /\ RequestsOK
  /\ CommitsBehind
  /\ OwnersAreCurrent
  /\ DocumentsAreCurrent

\* Every canonical event is eventually indexed, refused or dropped, even by a single
\* pod that the group expels in the middle of a batch: a failed commit does not hold
\* up the loop (persist.go:99-103).  Its offset may stay uncommitted until the next
\* batch.
EveryRecordAnswered ==
  \A p \in Partitions, o \in 1 .. MaxRecords :
    (Len(log[p]) >= o) ~> (Len(log[p]) >= o /\ Accounted(p, o))
=============================================================================
