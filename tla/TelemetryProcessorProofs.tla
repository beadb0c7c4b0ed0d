---------------------- MODULE TelemetryProcessorProofs ----------------------
(***************************************************************************)
(* Proofs about the telemetry-processor for any consumers, partitions,     *)
(* events and any number of failures: type correctness, NeverLost by an    *)
(* inductive invariant, and that it implements AtLeastOnce.                *)
(***************************************************************************)
EXTENDS TelemetryProcessor, TLAPS

-----------------------------------------------------------------------------
(* Type correctness *)

\* The variables and the record types, for steps about any of them.
LEMMA BatchType ==
  ASSUME TypeOK, NEW c \in Consumers
  PROVE  Batch(c) \subseteq Partitions \X Nat
  BY DEF TypeOK, Batch, BatchOffsets

LEMMA UnassignedType == Unassigned \in [Vins -> Stamps]
  BY DEF Unassigned, Stamps

LEMMA PresentType ==
  ASSUME TypeOK, NEW v \in Vins
  PROVE  Present(v) \in Stamps
<1>1. fleet[v] \in Seq(Fleets \cup {NoFleet}) /\ fleet[v] # << >>
  BY DEF TypeOK
<1>2. Len(fleet[v]) \in Nat /\ fleet[v][Len(fleet[v])] \in Fleets \cup {NoFleet}
  BY <1>1
<1> QED
  BY <1>2 DEF Present, Stamps

LEMMA CanonicalEventType ==
  ASSUME TypeOK, NEW c \in Consumers, NEW e \in Events
  PROVE  CanonicalEvent(c, e) \in CanonicalEvents
<1>1. VinOf[e] \in Vins
  BY ConstantsAssumption
<1>2. stamp[c][VinOf[e]] \in Stamps
  BY <1>1 DEF TypeOK
<1> QED
  BY <1>2 DEF CanonicalEvent, CanonicalEvents, Stamps

LEMMA CommittedByType ==
  ASSUME TypeOK, NEW c \in Consumers
  PROVE  OffsetsCommittedBy(c) \in [Partitions -> Nat]
  BY DEF TypeOK, OffsetsCommittedBy

LEMMA HandleType ==
  ASSUME TypeOK, NEW c \in Consumers, Handle(c)
  PROVE  TypeOK'
<1> USE ConstantsAssumption DEF TypeOK, Phases
<1>1. CASE Poll(c)
  <2>1. PICK upTo \in [held[c] -> UNION {0 .. Len(log[p]) : p \in held[c]}] :
          polled' = [polled EXCEPT ![c] =
                       [p \in Partitions |-> IF p \in held[c] THEN upTo[p] ELSE @[p]]]
    BY <1>1 DEF Poll, PollRecords
  <2>2. \A p \in held[c] : upTo[p] \in Nat
    OBVIOUS
  <2>3. polled' \in [Consumers -> [Partitions -> Nat]]
    BY <2>1, <2>2
  <2> QED
    BY <1>1, <2>3 DEF Poll, PollRecords, attemptVars, redisVars, topicVars, budgetVars
<1>2. CASE Validate(c)
  <2>1. Batch(c) \subseteq Partitions \X Nat
    BY BatchType
  <2>2. items' \in [Consumers -> SUBSET Events]
    <3>1. \A b \in Valid(c) : Record(b) \in Events
      BY DEF Valid
    <3>2. {Record(b) : b \in Valid(c)} \subseteq Events
      BY <3>1
    <3> QED
      BY <1>2, <3>2 DEF Validate
  <2>3. rejects' \in [Consumers -> SUBSET (Partitions \X Nat)]
    BY <1>2, <2>1 DEF Validate, Rejected
  <2>4. phase' \in [Consumers -> Phases]
    BY <1>2 DEF Validate
  <2> QED
    BY <1>2, <2>2, <2>3, <2>4 DEF Validate, groupVars, coordinatorVars, clientVars,
       redisVars, topicVars, budgetVars
<1>3. CASE Lookup(c)
  <2>1. [v \in Vins |-> Present(v)] \in [Vins -> Stamps]
    BY PresentType
  <2>2. stamp' \in [Consumers -> [Vins -> Stamps]]
    BY <1>3, <2>1 DEF Lookup
  <2> QED
    BY <1>3, <2>2 DEF Lookup, Duplicates, groupVars, coordinatorVars, clientVars, redisVars, topicVars, budgetVars
<1>4. ASSUME NEW e \in Events, AppendEvent(c, e)
      PROVE  TypeOK'
  <2>1. CanonicalEvent(c, e) \in CanonicalEvents
    BY CanonicalEventType
  <2>2. canonical' \in [Partitions -> Seq(CanonicalEvents)]
    <3>1. \A s \in Seq(CanonicalEvents) : Append(s, CanonicalEvent(c, e)) \in Seq(CanonicalEvents)
      BY <2>1
    <3>2. canonical' = [canonical EXCEPT ![Home(e)] = Append(@, CanonicalEvent(c, e))]
      BY <1>4 DEF AppendEvent
    <3> QED
      BY <3>1, <3>2
  <2> QED
    BY <1>4, <2>2 DEF AppendEvent, groupVars, coordinatorVars, clientVars, redisVars, budgetVars
<1>5. ASSUME NEW b \in Batch(c), AppendDeadLetter(c, b)
      PROVE  TypeOK'
  BY <1>5, BatchType DEF AppendDeadLetter, groupVars, coordinatorVars, clientVars, redisVars, budgetVars
<1>6. CASE Produced(c)
  BY <1>6 DEF Produced, groupVars, coordinatorVars, clientVars, redisVars, topicVars, budgetVars
<1>7. CASE Mark(c)
  BY <1>7 DEF Mark, groupVars, coordinatorVars, clientVars, topicVars, budgetVars
<1>8. CASE Commit(c)
  <2>1. committed' \in [Partitions -> Nat]
    BY <1>8, CommittedByType DEF Commit
  <2> QED
    BY <1>8, <2>1, UnassignedType DEF Commit, AllowRebalance, AttemptReturns, redisVars, topicVars, budgetVars
<1> QED
  BY <1>1, <1>2, <1>3, <1>4, <1>5, <1>6, <1>7, <1>8 DEF Handle
LEMMA FaultType ==
  ASSUME TypeOK, Fault
  PROVE  faults' \in 0 .. MaxFaults /\ expulsions' \in 0 .. MaxExpulsions
  BY ConstantsAssumption DEF TypeOK, Fault

LEMMA AttemptType ==
  ASSUME TypeOK, NEW c \in Consumers, AttemptReturns(c)
  PROVE  /\ phase' \in [Consumers -> Phases]
         /\ items' \in [Consumers -> SUBSET Events]
         /\ stamp' \in [Consumers -> [Vins -> Stamps]]
         /\ unsent' \in [Consumers -> SUBSET Events]
         /\ rejects' \in [Consumers -> SUBSET (Partitions \X Nat)]
  BY UnassignedType DEF TypeOK, AttemptReturns, Phases

LEMMA DisownType ==
  ASSUME TypeOK, NEW c \in Consumers
  PROVE  Disown(c) \in [Partitions -> Consumers \cup {NoOwner}]
  BY DEF TypeOK, Disown

LEMMA FailType ==
  ASSUME TypeOK, NEW c \in Consumers, Fail(c)
  PROVE  TypeOK'
<1> USE ConstantsAssumption DEF TypeOK, Phases
<1>1. CASE LookupFails(c)
  BY <1>1, FaultType, AttemptType DEF LookupFails, groupVars, coordinatorVars,
     clientVars, redisVars, topicVars
<1>2. CASE ProduceFails(c)
  BY <1>2, FaultType, AttemptType DEF ProduceFails, groupVars, coordinatorVars,
     clientVars, redisVars, topicVars
<1>3. CASE MarkFails(c)
  <2>1. dedup' \subseteq Events
    BY <1>3 DEF MarkFails
  <2>2. phase' \in [Consumers -> Phases]
    BY <1>3 DEF MarkFails
  <2> QED
    BY <1>3, <2>1, <2>2, FaultType DEF MarkFails, groupVars, coordinatorVars, clientVars, topicVars
<1>4. CASE CommitFails(c)
  <2>1. committed' \in [Partitions -> Nat]
    <3>1. committed' = committed \/ committed' = OffsetsCommittedBy(c)
      BY <1>4 DEF CommitFails
    <3>2. OffsetsCommittedBy(c) \in [Partitions -> Nat]
      BY CommittedByType
    <3> HIDE DEF OffsetsCommittedBy
    <3> QED
      BY <3>1, <3>2
  <2>2. faults' \in 0 .. MaxFaults /\ expulsions' \in 0 .. MaxExpulsions
    BY <1>4 DEF CommitFails, Fault, budgetVars
  <2>3. /\ UNCHANGED <<log, members, owner, held, done, polled, busy>>
        /\ UNCHANGED <<dedup, fleet, canonical, deadLetters, early>>
        /\ AttemptReturns(c)
    BY <1>4 DEF CommitFails, clientVars, redisVars, topicVars
  <2> QED
    BY <2>1, <2>2, <2>3, AttemptType
<1>5. CASE Expelled(c)
  <2>1. expulsions' \in 0 .. MaxExpulsions
    BY <1>5 DEF Expelled
  <2>2. members' \subseteq Consumers /\ owner' \in [Partitions -> Consumers \cup {NoOwner}]
    BY <1>5, DisownType DEF Expelled, Expel
  <2> QED
    BY <1>5, <2>1, <2>2 DEF Expelled, Expel, attemptVars, redisVars, topicVars
<1>6. CASE Crash(c)
  <2>1. members' \subseteq Consumers /\ owner' \in [Partitions -> Consumers \cup {NoOwner}]
    BY <1>6, DisownType DEF Crash, Stop
  <2>2. /\ held' \in [Consumers -> SUBSET Partitions]
        /\ done' \in [Consumers -> [Partitions -> Nat]]
        /\ polled' \in [Consumers -> [Partitions -> Nat]]
        /\ busy' \subseteq Consumers
    BY <1>6 DEF Crash, Stop, NoOffsets
  <2> QED
    BY <1>6, <2>1, <2>2, FaultType, AttemptType DEF Crash, Stop, redisVars, topicVars
<1> QED
  BY <1>1, <1>2, <1>3, <1>4, <1>5, <1>6 DEF Fail

LEMMA GroupStepType ==
  ASSUME TypeOK, GroupStep
  PROVE  TypeOK'
<1> USE DEF TypeOK
<1>1. ASSUME NEW c \in Consumers, Join(c)
      PROVE  TypeOK'
  BY <1>1 DEF GroupStep, Join, attemptVars, redisVars, topicVars, budgetVars
<1>2. ASSUME NEW p \in Partitions, NEW c \in Consumers, Assign(p, c)
      PROVE  TypeOK'
  BY <1>2 DEF GroupStep, Assign, attemptVars, redisVars, topicVars, budgetVars
<1>3. ASSUME NEW p \in Partitions, Revoke(p)
      PROVE  TypeOK'
  BY <1>3 DEF GroupStep, Revoke, attemptVars, redisVars, topicVars, budgetVars
<1> QED
  BY <1>1, <1>2, <1>3 DEF GroupStep

LEMMA EnvironmentType ==
  ASSUME TypeOK, Environment
  PROVE  TypeOK'
<1> USE DEF TypeOK
<1>1. ASSUME NEW p \in Partitions, NEW r \in Events \cup {Invalid}, Arrive(p, r)
      PROVE  TypeOK'
  <2>1. \A s \in Seq(Events \cup {Invalid}) : Append(s, r) \in Seq(Events \cup {Invalid})
    OBVIOUS
  <2>2. log' \in [Partitions -> Seq(Events \cup {Invalid})]
    BY <1>1, <2>1 DEF Arrive
  <2> QED
    BY <1>1, <2>2 DEF Arrive, coordinatorVars, clientVars, attemptVars, redisVars, topicVars, budgetVars
<1>2. ASSUME NEW e \in Events, ClockReaches(e)
      PROVE  TypeOK'
  BY <1>2 DEF ClockReaches, groupVars, coordinatorVars, clientVars, attemptVars, redisVars, topicVars, budgetVars
<1>3. ASSUME NEW e \in Events, Expire(e)
      PROVE  TypeOK'
  BY <1>3, FaultType DEF Expire, groupVars, coordinatorVars, clientVars, attemptVars, topicVars
<1>4. ASSUME NEW v \in Vins, NEW f \in Fleets \cup {NoFleet}, Reassign(v, f)
      PROVE  TypeOK'
  <2>1. \A s \in Seq(Fleets \cup {NoFleet}) :
          Append(s, f) \in Seq(Fleets \cup {NoFleet}) /\ Append(s, f) # << >>
    <3>1. ASSUME NEW s \in Seq(Fleets \cup {NoFleet})
          PROVE  Len(Append(s, f)) = Len(s) + 1 /\ Len(s) \in Nat /\ Append(s, f) \in Seq(Fleets \cup {NoFleet})
      OBVIOUS
    <3>2. Len(<< >>) = 0
      OBVIOUS
    <3>3. ASSUME NEW s \in Seq(Fleets \cup {NoFleet}) PROVE Append(s, f) # << >>
      <4>1. Len(Append(s, f)) # 0
        BY <3>1
      <4> QED
        BY <3>2, <4>1, Zenon
    <3> QED
      BY <3>1, <3>3
  <2>2. fleet' \in [Vins -> Seq(Fleets \cup {NoFleet}) \ {<< >>}]
    BY <1>4, <2>1 DEF Reassign
  <2> QED
    BY <1>4, <2>2 DEF Reassign, groupVars, coordinatorVars, clientVars, attemptVars, topicVars, budgetVars
<1> QED
  BY <1>1, <1>2, <1>3, <1>4 DEF Environment

LEMMA InitType == Init => TypeOK
  BY ConstantsAssumption, UnassignedType DEF Init, GroupInit, NoOffsets, TypeOK, Phases

LEMMA StutterType == TypeOK /\ UNCHANGED vars => TypeOK'
  BY DEF TypeOK, vars, groupVars, coordinatorVars, clientVars, attemptVars, redisVars,
     topicVars, budgetVars

LEMMA NextType == TypeOK /\ [Next]_vars => TypeOK'
  BY HandleType, FailType, GroupStepType, EnvironmentType, StutterType DEF Next

\* The types of the processor's and the group's state hold in every run of Run and
\* processBatch, for any number of consumers, partitions, records and failures.
THEOREM TypeCorrect == Spec => []TypeOK
<1>1. Init => TypeOK
  BY InitType
<1>2. TypeOK /\ [Next]_vars => TypeOK'
  BY NextType
<1> QED
  BY <1>1, <1>2, PTL DEF Spec
-----------------------------------------------------------------------------
(* The topics only grow *)

LEMMA LogGrows ==
  ASSUME TypeOK, [Next]_vars
  PROVE  \A p \in Partitions :
           /\ Len(log[p]) \in Nat /\ Len(log'[p]) \in Nat
           /\ Len(log[p]) <= Len(log'[p])
           /\ \A o \in 1 .. Len(log[p]) : log'[p][o] = log[p][o]
<1> SUFFICES ASSUME NEW p \in Partitions
             PROVE  /\ Len(log[p]) \in Nat /\ Len(log'[p]) \in Nat
                    /\ Len(log[p]) <= Len(log'[p])
                    /\ \A o \in 1 .. Len(log[p]) : log'[p][o] = log[p][o]
  OBVIOUS
<1>0. log[p] \in Seq(Events \cup {Invalid})
  BY DEF TypeOK
<1>1. ASSUME NEW q \in Partitions, NEW r \in Events \cup {Invalid}, Arrive(q, r)
      PROVE  log'[p] = log[p] \/ log'[p] = Append(log[p], r)
  BY <1>1 DEF Arrive, TypeOK
<1>2. CASE log' = log
  BY <1>0, <1>2
<1>3. log' = log \/ \E q \in Partitions, r \in Events \cup {Invalid} : Arrive(q, r)
  BY DEF Next, Environment, ClockReaches, Expire, Reassign, GroupStep, Join, Assign, Revoke,
     Handle, Poll, PollRecords, Validate, Lookup, AppendEvent, AppendDeadLetter, Produced, Mark,
     Commit, AllowRebalance, Fail, LookupFails, ProduceFails, MarkFails, CommitFails, Expelled,
     Expel, Crash, Stop, vars, groupVars
<1> QED
  BY <1>0, <1>1, <1>2, <1>3

LEMMA PublishedGrows ==
  ASSUME TypeOK, [Next]_vars, NEW e \in Events, Published(e)
  PROVE  Published(e)'
<1>0. Home(e) \in Partitions /\ Home(e)' = Home(e)
  BY ConstantsAssumption DEF Home
<1>1. ASSUME NEW c \in Consumers, NEW f \in Events, AppendEvent(c, f)
      PROVE  Published(e)'
  <2> DEFINE copy == CanonicalEvent(c, f)
  <2>1. canonical' = [canonical EXCEPT ![Home(f)] = Append(@, copy)]
    BY <1>1 DEF AppendEvent
  <2> HIDE DEF copy
  <2>2. canonical'[Home(e)] = canonical[Home(e)] \/ canonical'[Home(e)] = Append(canonical[Home(e)], copy)
    BY <1>0, <2>1 DEF TypeOK
  <2>3. canonical[Home(e)] \in Seq(CanonicalEvents)
    BY <1>0 DEF TypeOK
  <2>4. \A i \in DOMAIN canonical[Home(e)] :
          i \in DOMAIN canonical'[Home(e)] /\ canonical'[Home(e)][i] = canonical[Home(e)][i]
    BY <2>2, <2>3
  <2> QED
    BY <1>0, <2>4 DEF Published
<1>2. CASE canonical' = canonical
  BY <1>2 DEF Published, Home
<1>3. canonical' = canonical \/ \E c \in Consumers, f \in Events : AppendEvent(c, f)
  BY DEF Next, Environment, Arrive, ClockReaches, Expire, Reassign, GroupStep, Handle, Poll,
     Validate, Lookup, AppendDeadLetter, Produced, Mark, Commit, Fail, LookupFails,
     ProduceFails, MarkFails, CommitFails, Expelled, Crash, vars, topicVars
<1> QED
  BY <1>1, <1>2, <1>3

LEMMA AppendedIsPublished ==
  ASSUME TypeOK, NEW c \in Consumers, NEW e \in Events, AppendEvent(c, e)
  PROVE  Published(e)'
<1> DEFINE copy == CanonicalEvent(c, e)
<1>1. Home(e) \in Partitions
  BY ConstantsAssumption DEF Home
<1>2. canonical'[Home(e)] = Append(canonical[Home(e)], copy)
  BY <1>1 DEF AppendEvent, TypeOK
<1>3. copy.event = e
  BY DEF CanonicalEvent
<1> HIDE DEF copy
<1>4. canonical[Home(e)] \in Seq(CanonicalEvents)
  BY <1>1 DEF TypeOK
<1>5. /\ Len(canonical[Home(e)]) + 1 \in DOMAIN canonical'[Home(e)]
      /\ canonical'[Home(e)][Len(canonical[Home(e)]) + 1] = copy
  BY <1>2, <1>4
<1> QED
  BY <1>3, <1>5 DEF Published, Home

LEMMA AccountedGrows ==
  ASSUME TypeOK, [Next]_vars, NEW p \in Partitions, NEW o \in 1 .. Len(log[p]), Accounted(p, o)
  PROVE  Accounted(p, o)'
<1>1. log'[p][o] = log[p][o]
  BY LogGrows
<1>2. deadLetters \subseteq deadLetters'
  BY DEF Next, Environment, Arrive, ClockReaches, Expire, Reassign, GroupStep, Handle, Poll,
     Validate, Lookup, AppendEvent, AppendDeadLetter, Produced, Mark, Commit, Fail, LookupFails,
     ProduceFails, MarkFails, CommitFails, Expelled, Crash, vars, topicVars
<1>3. ASSUME NEW e \in Events, e = log[p][o], Published(e)
      PROVE  Accounted(p, o)'
  <2>1. Published(e)' /\ e = log'[p][o]
    BY <1>1, <1>3, PublishedGrows
  <2> QED
    BY <2>1 DEF Accounted, Published, Home
<1>4. CASE log[p][o] \in Events /\ Published(log[p][o])
  <2>1. PICK e \in Events : e = log[p][o]
    BY <1>4
  <2>2. Published(e)
    BY <1>4, <2>1
  <2> QED
    BY <1>3, <2>1, <2>2
<1> QED
  BY <1>2, <1>4 DEF Accounted
-----------------------------------------------------------------------------
(* Ownership and offsets *)

\* The steps that leave the group alone.
LEMMA GroupSame ==
  ASSUME OwnershipOK, OffsetsOK, UNCHANGED groupVars
  PROVE  OwnershipOK' /\ OffsetsOK'
  BY DEF OwnershipOK, OffsetsOK, groupVars, coordinatorVars, clientVars

LEMMA JoinGroup ==
  ASSUME TypeOK, OwnershipOK, OffsetsOK, NEW c \in Consumers, Join(c)
  PROVE  OwnershipOK' /\ OffsetsOK'
<1> USE DEF Join, TypeOK
<1>1. \A d \in Consumers \ {c} : held'[d] = held[d]
  OBVIOUS
<1>2. held'[c] = {}
  OBVIOUS
<1>3. \A p \in Partitions : owner[p] # c
  BY ConstantsAssumption DEF OwnershipOK
<1>4. OwnershipOK'
  BY <1>1, <1>2, <1>3 DEF OwnershipOK
<1>5. OffsetsOK'
  BY <1>1, <1>2 DEF OffsetsOK
<1> QED
  BY <1>4, <1>5

LEMMA AssignGroup ==
  ASSUME TypeOK, OwnershipOK, OffsetsOK, NEW p \in Partitions, NEW c \in Consumers, Assign(p, c)
  PROVE  OwnershipOK' /\ OffsetsOK'
<1> USE ConstantsAssumption DEF Assign, TypeOK
<1>1. \A d \in Consumers : \A q \in Partitions :
        IF d = c /\ q = p THEN done'[d][q] = committed[p] /\ polled'[d][q] = committed[p]
        ELSE done'[d][q] = done[d][q] /\ polled'[d][q] = polled[d][q]
  OBVIOUS
<1>2. \A d \in Consumers : held'[d] = IF d = c THEN held[d] \cup {p} ELSE held[d]
  OBVIOUS
<1>3. \A q \in Partitions : owner'[q] = IF q = p THEN c ELSE owner[q]
  OBVIOUS
<1>4. members' = members /\ committed' = committed /\ log' = log /\ busy' = busy
      /\ owner[p] = NoOwner /\ c \in members \ busy
  OBVIOUS
<1>5. OwnershipOK'
  BY <1>1, <1>2, <1>3, <1>4 DEF OwnershipOK
<1>6. OffsetsOK'
  BY <1>1, <1>2, <1>4 DEF OffsetsOK
<1> QED
  BY <1>5, <1>6

LEMMA RevokeGroup ==
  ASSUME TypeOK, OwnershipOK, OffsetsOK, NEW p \in Partitions, Revoke(p)
  PROVE  OwnershipOK' /\ OffsetsOK'
<1>1. PICK c \in members : owner[p] = c
  BY DEF Revoke
<1>2. members \subseteq Consumers /\ NoOwner \notin Consumers
  BY ConstantsAssumption DEF TypeOK
<1>3. \A d \in Consumers : held'[d] \subseteq Partitions /\ \A q \in Partitions :
        q \in held'[d] <=> q \in held[d] /\ ~(d = c /\ q = p)
  BY <1>1 DEF Revoke, TypeOK
<1>4. \A q \in Partitions : owner'[q] = IF q = p THEN NoOwner ELSE owner[q]
  BY DEF Revoke, TypeOK
<1>5. /\ members' = members /\ committed' = committed /\ log' = log
      /\ done' = done /\ polled' = polled /\ busy' = busy
  BY DEF Revoke
<1>6. \A d \in members : \A q \in Partitions : q \in held[d] <=> owner[q] = d
  BY DEF OwnershipOK
<1>7. ASSUME NEW d \in members, NEW q \in Partitions
      PROVE  q \in held'[d] <=> owner'[q] = d
  <2>1. CASE q = p /\ d = c
    BY <1>1, <1>2, <1>3, <1>4, <2>1
  <2>2. CASE q = p /\ d # c
    BY <1>1, <1>2, <1>3, <1>4, <1>6, <2>2
  <2>3. CASE q # p
    BY <1>1, <1>2, <1>3, <1>4, <1>6, <2>3
  <2> QED
    BY <2>1, <2>2, <2>3
<1>8. \A q \in Partitions : owner'[q] # NoOwner => owner'[q] \in members'
  BY <1>4, <1>5 DEF OwnershipOK
<1>9. ASSUME NEW d \in members, NEW q \in held'[d]
      PROVE  done'[d][q] <= committed'[q] /\ committed'[q] <= polled'[d][q]
  BY <1>2, <1>3, <1>5, <1>9 DEF OwnershipOK
<1>10. OwnershipOK'
  BY <1>5, <1>7, <1>8, <1>9 DEF OwnershipOK
<1>11. OffsetsOK'
  BY <1>3, <1>5 DEF OffsetsOK
<1> QED
  BY <1>10, <1>11

LEMMA ExpelGroup ==
  ASSUME TypeOK, OwnershipOK, OffsetsOK, NEW c \in Consumers, Expel(c)
  PROVE  OwnershipOK' /\ OffsetsOK'
  BY ConstantsAssumption DEF TypeOK, OwnershipOK, OffsetsOK, Expel, Disown

LEMMA StopGroup ==
  ASSUME TypeOK, OwnershipOK, OffsetsOK, NEW c \in Consumers, Stop(c)
  PROVE  OwnershipOK' /\ OffsetsOK'
<1> USE ConstantsAssumption DEF TypeOK
<1>1. held'[c] = {}
  BY DEF Stop
<1>2. \A d \in Consumers \ {c} : held'[d] = held[d] /\ done'[d] = done[d] /\ polled'[d] = polled[d]
  BY DEF Stop
<1>3. members' = members \ {c} /\ busy' = busy \ {c} /\ log' = log /\ committed' = committed
  BY DEF Stop
<1>4. \A q \in Partitions : owner'[q] = IF owner[q] = c THEN NoOwner ELSE owner[q]
  BY DEF Stop, Disown
<1>5. OwnershipOK'
  BY <1>1, <1>2, <1>3, <1>4 DEF OwnershipOK
<1>6. OffsetsOK'
  BY <1>1, <1>2, <1>3 DEF OffsetsOK
<1> QED
  BY <1>5, <1>6
LEMMA PollGroup ==
  ASSUME TypeOK, OwnershipOK, OffsetsOK, NEW c \in Consumers, PollRecords(c)
  PROVE  OwnershipOK' /\ OffsetsOK'
<1>1. PICK upTo \in [held[c] -> UNION {0 .. Len(log[p]) : p \in held[c]}] :
        /\ \A p \in held[c] : polled[c][p] <= upTo[p] /\ upTo[p] <= Len(log[p])
        /\ polled' = [polled EXCEPT ![c] =
                        [p \in Partitions |-> IF p \in held[c] THEN upTo[p] ELSE @[p]]]
  BY DEF PollRecords
<1>2. \A d \in Consumers : d # c => polled'[d] = polled[d]
  BY <1>1 DEF TypeOK
<1>3. \A p \in held[c] : polled'[c][p] = upTo[p]
  BY <1>1 DEF TypeOK
<1>4. /\ members' = members /\ owner' = owner /\ committed' = committed /\ log' = log
      /\ held' = held /\ done' = done /\ busy' = busy \cup {c} /\ c \notin busy
  BY DEF PollRecords
<1>5. /\ members \subseteq Consumers /\ held[c] \subseteq Partitions
      /\ \A p \in held[c] : /\ done[c][p] \in Nat /\ polled[c][p] \in Nat /\ upTo[p] \in Nat
                            /\ committed[p] \in Nat
  BY <1>1 DEF TypeOK
<1>6. OwnershipOK'
  <2>1. ASSUME NEW d \in members, NEW p \in held[d]
        PROVE  done[d][p] <= committed[p] /\ committed[p] <= polled'[d][p]
    <3>1. done[d][p] <= committed[p] /\ committed[p] <= polled[d][p]
      BY DEF OwnershipOK
    <3>2. CASE d = c
      BY <1>1, <1>3, <1>5, <2>1, <3>1, <3>2
    <3>3. CASE d # c
      BY <1>2, <1>5, <3>1, <3>3
    <3> QED
      BY <3>2, <3>3
  <2> QED
    BY <1>4, <2>1 DEF OwnershipOK
<1>7. OffsetsOK'
  <2>1. ASSUME NEW d \in Consumers, NEW p \in held[d]
        PROVE  /\ done[d][p] <= polled'[d][p]
               /\ polled'[d][p] <= Len(log[p])
               /\ d \notin busy' => done[d][p] = polled'[d][p]
    <3>1. /\ done[d][p] <= polled[d][p]
          /\ polled[d][p] <= Len(log[p])
          /\ d \notin busy => done[d][p] = polled[d][p]
      BY DEF OffsetsOK
    <3>2. CASE d = c
      BY <1>1, <1>3, <1>4, <1>5, <2>1, <3>1, <3>2
    <3>3. CASE d # c
      BY <1>2, <1>4, <3>1, <3>3
    <3> QED
      BY <3>2, <3>3
  <2> QED
    BY <1>4, <2>1 DEF OffsetsOK
<1> QED
  BY <1>6, <1>7

\* What CommitRecords of a member leaves in the coordinator.
LEMMA CommittedOffsets ==
  ASSUME TypeOK, OwnershipOK, OffsetsOK, NEW c \in members, NEW p \in Partitions
  PROVE  /\ OffsetsCommittedBy(c)[p] = IF p \in held[c] THEN polled[c][p] ELSE committed[p]
         /\ committed[p] <= OffsetsCommittedBy(c)[p]
         /\ OffsetsCommittedBy(c)[p] <= Len(log[p])
<1>1. c \in Consumers /\ committed[p] \in Nat /\ done[c][p] \in Nat /\ polled[c][p] \in Nat
  BY DEF TypeOK
<1>2. committed[p] <= Len(log[p])
  BY DEF OffsetsOK
<1>3. CASE p \in held[c]
  <2>1. done[c][p] <= committed[p] /\ committed[p] <= polled[c][p]
    BY <1>3 DEF OwnershipOK
  <2>2. polled[c][p] <= Len(log[p])
    BY <1>1, <1>3 DEF OffsetsOK
  <2>3. BatchOffsets(c, p) = (done[c][p] + 1) .. polled[c][p]
    BY <1>3 DEF BatchOffsets
  <2>4. CASE done[c][p] = polled[c][p]
    BY <1>1, <1>3, <2>1, <2>2, <2>3, <2>4 DEF OffsetsCommittedBy
  <2>5. CASE done[c][p] < polled[c][p]
    <3>1. done[c][p] + 1 \in BatchOffsets(c, p)
      BY <1>1, <2>3, <2>5
    <3> QED
      BY <1>3, <2>1, <2>2, <3>1 DEF OffsetsCommittedBy
  <2> QED
    BY <1>1, <2>1, <2>4, <2>5
<1>4. CASE p \notin held[c]
  BY <1>1, <1>2, <1>4 DEF OffsetsCommittedBy, BatchOffsets
<1> QED
  BY <1>3, <1>4
LEMMA CommitGroup ==
  ASSUME TypeOK, OwnershipOK, OffsetsOK, NEW c \in Consumers, Commit(c)
  PROVE  OwnershipOK' /\ OffsetsOK'
<1>1. /\ c \in members /\ committed' = OffsetsCommittedBy(c)
      /\ members' = members /\ owner' = owner /\ log' = log /\ held' = held
      /\ polled' = polled /\ busy' = busy \ {c}
  BY DEF Commit, AllowRebalance
<1>2. done'[c] = polled[c] /\ \A d \in Consumers : d # c => done'[d] = done[d]
  BY DEF Commit, AllowRebalance, TypeOK
<1>3. members \subseteq Consumers /\ \A d \in Consumers : held[d] \subseteq Partitions
  BY DEF TypeOK
<1>4. \A p \in Partitions :
        /\ committed'[p] = IF p \in held[c] THEN polled[c][p] ELSE committed[p]
        /\ committed'[p] <= Len(log[p])
  BY <1>1, CommittedOffsets
<1>5. \A d \in members, p \in Partitions : p \in held[d] <=> owner[p] = d
  BY DEF OwnershipOK
<1>6. ASSUME NEW d \in members, NEW p \in held[d]
      PROVE  done'[d][p] <= committed'[p] /\ committed'[p] <= polled[d][p]
  <2>1. polled[c][p] \in Nat /\ p \in Partitions
    BY <1>3, <1>6 DEF TypeOK
  <2>2. CASE d = c
    BY <1>2, <1>4, <1>6, <2>1, <2>2
  <2>3. CASE d # c
    <3>1. p \notin held[c]
      BY <1>1, <1>5, <1>6, <2>1, <2>3
    <3>2. done[d][p] <= committed[p] /\ committed[p] <= polled[d][p]
      BY <1>6 DEF OwnershipOK
    <3> QED
      BY <1>2, <1>3, <1>4, <2>1, <2>3, <3>1, <3>2
  <2> QED
    BY <2>2, <2>3
<1>7. OwnershipOK'
  BY <1>1, <1>5, <1>6 DEF OwnershipOK
<1>8. OffsetsOK'
  <2>1. ASSUME NEW d \in Consumers, NEW p \in held[d]
        PROVE  /\ done'[d][p] <= polled[d][p]
               /\ polled[d][p] <= Len(log[p])
               /\ d \notin busy' => done'[d][p] = polled[d][p]
    <3>1. /\ done[d][p] <= polled[d][p]
          /\ polled[d][p] <= Len(log[p])
          /\ d \notin busy => done[d][p] = polled[d][p]
      BY <2>1 DEF OffsetsOK
    <3>2. polled[d][p] \in Nat
      BY <1>3, <2>1 DEF TypeOK
    <3> QED
      BY <1>1, <1>2, <3>1, <3>2
  <2> QED
    BY <1>1, <1>4, <2>1 DEF OffsetsOK
<1> QED
  BY <1>7, <1>8

LEMMA CommitFailsGroup ==
  ASSUME TypeOK, OwnershipOK, OffsetsOK, NEW c \in Consumers, CommitFails(c)
  PROVE  OwnershipOK' /\ OffsetsOK'
<1>1. UNCHANGED <<log, members, owner, clientVars>>
  BY DEF CommitFails
<1>2. CASE committed' = committed
  BY <1>1, <1>2, GroupSame DEF groupVars, coordinatorVars
<1>3. CASE c \in members /\ committed' = OffsetsCommittedBy(c)
  <2>1. members \subseteq Consumers /\ \A d \in Consumers : held[d] \subseteq Partitions
    BY DEF TypeOK
  <2>2. \A p \in Partitions :
          /\ committed'[p] = IF p \in held[c] THEN polled[c][p] ELSE committed[p]
          /\ committed'[p] <= Len(log[p])
    BY <1>3, CommittedOffsets
  <2>3. ASSUME NEW d \in members, NEW p \in held[d]
        PROVE  done[d][p] <= committed'[p] /\ committed'[p] <= polled[d][p]
    <3>1. done[d][p] <= committed[p] /\ committed[p] <= polled[d][p]
      BY <2>3 DEF OwnershipOK
    <3>2. p \in Partitions /\ polled[d][p] \in Nat /\ done[d][p] \in Nat /\ committed[p] \in Nat
      BY <2>1, <2>3 DEF TypeOK
    <3>3. CASE d = c
      BY <2>2, <2>3, <3>1, <3>2, <3>3
    <3>4. CASE d # c
      <4>1. p \notin held[c]
        BY <1>3, <2>3, <3>2, <3>4 DEF OwnershipOK
      <4> QED
        BY <2>2, <3>1, <3>2, <4>1
    <3> QED
      BY <3>3, <3>4
  <2> QED
    BY <1>1, <2>2, <2>3 DEF OwnershipOK, OffsetsOK, clientVars
<1> QED
  BY <1>2, <1>3 DEF CommitFails

LEMMA ArriveGroup ==
  ASSUME TypeOK, OwnershipOK, OffsetsOK, [Next]_vars,
         NEW p \in Partitions, NEW r, Arrive(p, r)
  PROVE  OwnershipOK' /\ OffsetsOK'
<1>1. UNCHANGED <<coordinatorVars, clientVars>>
  BY DEF Arrive
<1>2. \A q \in Partitions :
        Len(log[q]) \in Nat /\ Len(log'[q]) \in Nat /\ Len(log[q]) <= Len(log'[q])
  BY LogGrows
<1>3. OwnershipOK'
  BY <1>1 DEF OwnershipOK, coordinatorVars, clientVars
<1>4. ASSUME NEW q \in Partitions
      PROVE  committed[q] <= Len(log'[q])
  BY <1>2 DEF OffsetsOK, TypeOK
<1>5. ASSUME NEW d \in Consumers, NEW q \in held[d]
      PROVE  polled[d][q] <= Len(log'[q])
  BY <1>2 DEF OffsetsOK, TypeOK
<1> QED
  BY <1>1, <1>3, <1>4, <1>5 DEF OffsetsOK, coordinatorVars, clientVars

LEMMA GroupInvariant ==
  ASSUME TypeOK, OwnershipOK, OffsetsOK, [Next]_vars
  PROVE  OwnershipOK' /\ OffsetsOK'
<1>1. CASE UNCHANGED groupVars
  BY <1>1, GroupSame
<1>2. CASE GroupStep
  BY <1>2, JoinGroup, AssignGroup, RevokeGroup DEF GroupStep
<1>3. ASSUME NEW c \in Consumers, Handle(c)
      PROVE  OwnershipOK' /\ OffsetsOK'
  BY <1>1, <1>3, PollGroup, CommitGroup
     DEF Handle, Poll, Validate, Lookup, AppendEvent, AppendDeadLetter, Produced, Mark
<1>4. ASSUME NEW c \in Consumers, Fail(c)
      PROVE  OwnershipOK' /\ OffsetsOK'
  BY <1>1, <1>4, CommitFailsGroup, ExpelGroup, StopGroup
     DEF Fail, LookupFails, ProduceFails, MarkFails, Expelled, Crash
<1>5. CASE Environment
  BY <1>1, <1>5, ArriveGroup DEF Environment, ClockReaches, Expire, Reassign
<1> QED
  BY <1>1, <1>2, <1>3, <1>4, <1>5 DEF Next, vars
-----------------------------------------------------------------------------
(* The records of a batch *)

LEMMA BatchBounds ==
  ASSUME TypeOK, OffsetsOK, NEW c \in Consumers, NEW p \in Partitions, NEW o \in BatchOffsets(c, p)
  PROVE  /\ p \in held[c]
         /\ o \in Nat /\ done[c][p] < o /\ o <= polled[c][p]
         /\ o \in 1 .. Len(log[p])
<1>1. p \in held[c] /\ o \in (done[c][p] + 1) .. polled[c][p]
  BY DEF BatchOffsets
<1>2. done[c][p] \in Nat /\ polled[c][p] \in Nat /\ Len(log[p]) \in Nat
  BY DEF TypeOK
<1>3. polled[c][p] <= Len(log[p])
  BY <1>1 DEF OffsetsOK
<1> QED
  BY <1>1, <1>2, <1>3

LEMMA BatchMembers ==
  ASSUME NEW c, NEW p \in Partitions, NEW o
  PROVE  <<p, o>> \in Batch(c) <=> o \in BatchOffsets(c, p)
  BY DEF Batch

\* An event of the raw topic that is published is accounted for.
LEMMA PublishedIsAccounted ==
  ASSUME NEW p \in Partitions, NEW o, NEW e \in Events, log[p][o] = e, Published(e)
  PROVE  Accounted(p, o)
  BY DEF Accounted

\* A step of one consumer leaves the others' attempts and batches alone.
LEMMA Frame ==
  ASSUME TypeOK, NEW c \in Consumers, Handle(c) \/ Fail(c),
         NEW d \in Consumers, d # c
  PROVE  /\ phase'[d] = phase[d] /\ items'[d] = items[d]
         /\ unsent'[d] = unsent[d] /\ rejects'[d] = rejects[d]
         /\ held'[d] = held[d] /\ done'[d] = done[d] /\ polled'[d] = polled[d]
         /\ d \in busy' <=> d \in busy
<1> USE DEF TypeOK
<1>1. CASE Handle(c)
  <2>1. CASE Poll(c)
    BY <2>1 DEF Poll, PollRecords, attemptVars
  <2>2. CASE Validate(c)
    BY <2>2 DEF Validate, groupVars, clientVars
  <2>3. CASE Lookup(c)
    BY <2>3 DEF Lookup, groupVars, clientVars
  <2>4. ASSUME NEW e \in Events, AppendEvent(c, e)
        PROVE  /\ phase'[d] = phase[d] /\ items'[d] = items[d]
               /\ unsent'[d] = unsent[d] /\ rejects'[d] = rejects[d]
               /\ held'[d] = held[d] /\ done'[d] = done[d] /\ polled'[d] = polled[d]
               /\ d \in busy' <=> d \in busy
    BY <2>4 DEF AppendEvent, groupVars, clientVars
  <2>5. ASSUME NEW b \in Batch(c), AppendDeadLetter(c, b)
        PROVE  /\ phase'[d] = phase[d] /\ items'[d] = items[d]
               /\ unsent'[d] = unsent[d] /\ rejects'[d] = rejects[d]
               /\ held'[d] = held[d] /\ done'[d] = done[d] /\ polled'[d] = polled[d]
               /\ d \in busy' <=> d \in busy
    BY <2>5 DEF AppendDeadLetter, groupVars, clientVars
  <2>6. CASE Produced(c)
    BY <2>6 DEF Produced, groupVars, clientVars
  <2>7. CASE Mark(c)
    BY <2>7 DEF Mark, groupVars, clientVars
  <2>8. CASE Commit(c)
    BY <2>8 DEF Commit, AllowRebalance, AttemptReturns
  <2> QED
    BY <1>1, <2>1, <2>2, <2>3, <2>4, <2>5, <2>6, <2>7, <2>8 DEF Handle
<1>2. CASE Fail(c)
  <2>1. CASE LookupFails(c)
    BY <2>1 DEF LookupFails, AttemptReturns, groupVars, clientVars
  <2>2. CASE ProduceFails(c)
    BY <2>2 DEF ProduceFails, AttemptReturns, groupVars, clientVars
  <2>3. CASE MarkFails(c)
    BY <2>3 DEF MarkFails, groupVars, clientVars
  <2>4. CASE CommitFails(c)
    BY <2>4 DEF CommitFails, AttemptReturns, clientVars
  <2>5. CASE Expelled(c)
    BY <2>5 DEF Expelled, Expel, attemptVars
  <2>6. CASE Crash(c)
    BY <2>6 DEF Crash, Stop, AttemptReturns
  <2> QED
    BY <1>2, <2>1, <2>2, <2>3, <2>4, <2>5, <2>6 DEF Fail
<1> QED
  BY <1>1, <1>2

\* Nor does a step of the environment or of the coordinator; the coordinator
\* changes what idle consumers hold.
LEMMA FrameOthers ==
  ASSUME TypeOK, Environment \/ GroupStep \/ UNCHANGED vars
  PROVE  /\ UNCHANGED attemptVars
         /\ busy' = busy
         /\ \A d \in busy : done'[d] = done[d] /\ polled'[d] = polled[d] /\ held'[d] \subseteq held[d]
<1>1. CASE Environment \/ UNCHANGED vars
  BY <1>1 DEF Environment, Arrive, ClockReaches, Expire, Reassign, vars, groupVars, clientVars, attemptVars
<1>2. CASE GroupStep
  <2>1. UNCHANGED attemptVars
    BY <1>2 DEF GroupStep
  <2>2. ASSUME NEW c \in Consumers, Join(c)
        PROVE  /\ busy' = busy
               /\ \A d \in busy : done'[d] = done[d] /\ polled'[d] = polled[d] /\ held'[d] \subseteq held[d]
    BY <2>2 DEF Join, TypeOK
  <2>3. ASSUME NEW p \in Partitions, NEW c \in Consumers, Assign(p, c)
        PROVE  /\ busy' = busy
               /\ \A d \in busy : done'[d] = done[d] /\ polled'[d] = polled[d] /\ held'[d] \subseteq held[d]
    BY <2>3 DEF Assign, TypeOK
  <2>4. ASSUME NEW p \in Partitions, Revoke(p)
        PROVE  /\ busy' = busy
               /\ \A d \in busy : done'[d] = done[d] /\ polled'[d] = polled[d] /\ held'[d] \subseteq held[d]
    BY <2>4 DEF Revoke, TypeOK
  <2> QED
    BY <1>2, <2>1, <2>2, <2>3, <2>4 DEF GroupStep
<1> QED
  BY <1>1, <1>2
-----------------------------------------------------------------------------
(* Items and dedup keys *)

LEMMA DedupInvariant ==
  ASSUME TypeOK, ItemsOK, DedupAfterPublish, [Next]_vars
  PROVE  DedupAfterPublish'
<1>1. ASSUME NEW e \in dedup', e \notin dedup
      PROVE  Published(e)
  <2>1. PICK c \in Consumers : c \in busy /\ phase[c] = "mark" /\ e \in items[c]
    <3>1. ASSUME NEW c \in Consumers, Handle(c)
          PROVE  Mark(c) \/ dedup' = dedup
      BY <3>1 DEF Handle, Poll, Validate, Lookup, AppendEvent, AppendDeadLetter, Produced, Commit, redisVars
    <3>2. ASSUME NEW c \in Consumers, Fail(c)
          PROVE  MarkFails(c) \/ dedup' = dedup
      BY <3>2 DEF Fail, LookupFails, ProduceFails, CommitFails, Expelled, Crash, redisVars
    <3>3. ASSUME Environment \/ GroupStep \/ UNCHANGED vars
          PROVE  dedup' \subseteq dedup
      BY <3>3 DEF Environment, Arrive, ClockReaches, Expire, Reassign, GroupStep, vars, redisVars
    <3> QED
      BY <1>1, <3>1, <3>2, <3>3 DEF Next, Mark, MarkFails
  <2> QED
    BY <2>1 DEF ItemsOK
<1>2. \A e \in dedup' : Published(e)
  BY <1>1 DEF DedupAfterPublish
<1>3. dedup' \subseteq Events
  BY NextType DEF TypeOK
<1>4. \A e \in dedup' : Published(e)'
  BY <1>2, <1>3, PublishedGrows
<1> QED
  BY <1>4 DEF DedupAfterPublish

LEMMA ItemsInvariant ==
  ASSUME TypeOK, ItemsOK, BatchOK, [Next]_vars
  PROVE  ItemsOK'
<1>0. /\ busy \subseteq Consumers /\ busy' \subseteq Consumers
      /\ \A d \in Consumers : items[d] \subseteq Events /\ items'[d] \subseteq Events
  BY NextType DEF TypeOK
<1>1. ASSUME NEW d \in busy, NEW e \in items[d],
             phase'[d] = phase[d], unsent'[d] = unsent[d]
      PROVE  \/ phase'[d] \in {"validate", "lookup"}
             \/ phase'[d] = "produce" /\ e \in unsent'[d]
             \/ Published(e)'
  BY <1>0, <1>1, PublishedGrows DEF ItemsOK
<1>2. CASE Environment \/ GroupStep \/ UNCHANGED vars
  BY <1>1, <1>2, FrameOthers DEF ItemsOK, attemptVars
<1>3. ASSUME NEW c \in Consumers, Handle(c) \/ Fail(c), c \in busy',
             NEW e \in items'[c]
      PROVE  \/ phase'[c] \in {"validate", "lookup"}
             \/ phase'[c] = "produce" /\ e \in unsent'[c]
             \/ Published(e)'
  <2> USE DEF TypeOK
  <2>1. CASE Poll(c)
    BY <2>1 DEF Poll, PollRecords, attemptVars, BatchOK
  <2>2. CASE Validate(c)
    <3>1. CASE Valid(c) = {}
      BY <1>3, <2>2, <3>1 DEF Validate
    <3>2. CASE Valid(c) # {}
      BY <2>2, <3>2 DEF Validate
    <3> QED
      BY <3>1, <3>2
  <2>3. CASE Lookup(c)
    BY <1>3, <2>3 DEF Lookup, Duplicates
  <2>4. ASSUME NEW f \in Events, AppendEvent(c, f)
        PROVE  (phase'[c] = "produce" /\ e \in unsent'[c]) \/ Published(e)'
    <3>1. phase'[c] = "produce" /\ items'[c] = items[c] /\ unsent'[c] = unsent[c] \ {f} /\ c \in busy
      BY <2>4 DEF AppendEvent, groupVars, clientVars
    <3>2. e \in unsent[c] \/ Published(e)
      BY <1>3, <2>4, <3>1 DEF ItemsOK, AppendEvent
    <3>3. Published(f)'
      BY <2>4, AppendedIsPublished
    <3>4. Published(e) => Published(e)'
      BY <1>0, <1>3, PublishedGrows
    <3>5. CASE e = f
      BY <3>3, <3>5
    <3> QED
      BY <3>1, <3>2, <3>4, <3>5
  <2>5. ASSUME NEW b \in Batch(c), AppendDeadLetter(c, b)
        PROVE  (phase'[c] = "produce" /\ e \in unsent'[c]) \/ Published(e)'
    BY <1>1, <1>3, <2>5 DEF AppendDeadLetter
  <2>6. CASE Produced(c)
    <3>1. Published(e)
      BY <1>3, <2>6 DEF Produced, Acknowledged, ItemsOK
    <3> QED
      BY <1>0, <1>3, <3>1, PublishedGrows
  <2>7. CASE Mark(c) \/ MarkFails(c)
    <3>1. Published(e)
      BY <1>3, <2>7 DEF Mark, MarkFails, ItemsOK
    <3> QED
      BY <1>0, <1>3, <3>1, PublishedGrows
  <2>8. CASE Commit(c) \/ LookupFails(c) \/ ProduceFails(c) \/ CommitFails(c) \/ Crash(c)
    BY <2>8 DEF Commit, LookupFails, ProduceFails, CommitFails, Crash, AttemptReturns
  <2>9. CASE Expelled(c)
    BY <1>1, <1>3, <2>9 DEF Expelled, Expel, attemptVars
  <2> QED
    BY <1>3, <2>1, <2>2, <2>3, <2>4, <2>5, <2>6, <2>7, <2>8, <2>9 DEF Handle, Fail
<1>4. ASSUME NEW c \in Consumers, Handle(c) \/ Fail(c), NEW d \in busy', d # c, NEW e \in items'[d]
      PROVE  \/ phase'[d] \in {"validate", "lookup"}
             \/ phase'[d] = "produce" /\ e \in unsent'[d]
             \/ Published(e)'
  BY <1>0, <1>1, <1>4, Frame
<1> QED
  BY <1>2, <1>3, <1>4 DEF Next, ItemsOK
-----------------------------------------------------------------------------
(* Every record of a batch is accounted for or in hand *)

\* A record that is in hand stays so when its consumer's attempt does not move.
LEMMA InHandFrame ==
  ASSUME TypeOK, OffsetsOK, BatchOK, [Next]_vars,
         NEW d \in busy, NEW p \in Partitions, NEW o \in BatchOffsets(d, p),
         phase'[d] = phase[d], items'[d] = items[d],
         unsent'[d] = unsent[d], rejects'[d] = rejects[d]
  PROVE  InHand(d, p, o)'
<1>1. d \in Consumers
  BY DEF TypeOK
<1>2. o \in 1 .. Len(log[p])
  BY <1>1, BatchBounds
<1>3. log'[p][o] = log[p][o]
  BY <1>2, LogGrows
<1>4. Accounted(p, o) => Accounted(p, o)'
  BY <1>2, AccountedGrows
<1>5. InHand(d, p, o)
  BY DEF BatchOK
<1> QED
  BY <1>3, <1>4, <1>5 DEF InHand

LEMMA BatchInvariant ==
  ASSUME TypeOK, OffsetsOK, DedupAfterPublish, BatchOK, [Next]_vars
  PROVE  BatchOK'
<1>0. busy \subseteq Consumers /\ busy' \subseteq Consumers
  BY NextType DEF TypeOK
<1>1. CASE Environment \/ GroupStep \/ UNCHANGED vars
  <2>1. /\ UNCHANGED attemptVars /\ busy' = busy
        /\ \A d \in busy : done'[d] = done[d] /\ polled'[d] = polled[d] /\ held'[d] \subseteq held[d]
    BY <1>1, FrameOthers
  <2>2. ASSUME NEW d \in busy, NEW p \in Partitions, NEW o \in BatchOffsets(d, p)'
        PROVE  InHand(d, p, o)'
    <3>1. o \in BatchOffsets(d, p)
      BY <2>1, <2>2 DEF BatchOffsets
    <3> QED
      BY <2>1, <3>1, InHandFrame DEF attemptVars
  <2> QED
    BY <2>1, <2>2 DEF BatchOK, attemptVars
<1>2. ASSUME NEW c \in Consumers, Handle(c) \/ Fail(c)
      PROVE  BatchOK'
  <2>1. ASSUME NEW d \in busy', d # c, NEW p \in Partitions, NEW o \in BatchOffsets(d, p)'
        PROVE  InHand(d, p, o)'
    <3>1. d \in busy /\ o \in BatchOffsets(d, p)
      BY <1>0, <1>2, <2>1, Frame DEF BatchOffsets
    <3> QED
      BY <1>0, <1>2, <2>1, <3>1, Frame, InHandFrame
  <2>2. ASSUME NEW d \in Consumers \ busy', d # c
        PROVE  phase'[d] = "validate"
    BY <1>2, <2>2, Frame DEF BatchOK
  <2>3. CASE Poll(c)
    <3>1. phase'[c] = "validate" /\ c \in busy'
      BY <2>3 DEF Poll, PollRecords, attemptVars, BatchOK
    <3> QED
      BY <2>1, <2>2, <3>1 DEF BatchOK, InHand
  <2>4. CASE Commit(c) \/ LookupFails(c) \/ ProduceFails(c) \/ CommitFails(c) \/ Crash(c)
    <3>1. phase'[c] = "validate"
      BY <2>4 DEF Commit, LookupFails, ProduceFails, CommitFails, Crash, AttemptReturns, TypeOK
    <3> QED
      BY <2>1, <2>2, <3>1 DEF BatchOK, InHand
  <2>5. CASE Expelled(c)
    <3>1. UNCHANGED attemptVars /\ UNCHANGED clientVars
      BY <2>5 DEF Expelled, Expel, clientVars
    <3>2. ASSUME c \in busy, NEW p \in Partitions, NEW o \in BatchOffsets(c, p)'
          PROVE  InHand(c, p, o)'
      <4>1. o \in BatchOffsets(c, p)
        BY <3>1, <3>2 DEF BatchOffsets, clientVars
      <4> QED
        BY <3>1, <3>2, <4>1, InHandFrame DEF attemptVars
    <3> QED
      BY <2>1, <2>2, <3>1, <3>2 DEF BatchOK, attemptVars, clientVars
  <2>6. ASSUME c \in busy, UNCHANGED <<groupVars>>,
               \A p \in Partitions : \A o \in BatchOffsets(c, p) : InHand(c, p, o)'
        PROVE  BatchOK'
    <3>1. c \in busy' /\ \A p \in Partitions : BatchOffsets(c, p)' = BatchOffsets(c, p)
      BY <2>6 DEF groupVars, clientVars, BatchOffsets
    <3> QED
      BY <2>1, <2>2, <2>6, <3>1 DEF BatchOK
  <2>7. ASSUME NEW p \in Partitions, NEW o \in BatchOffsets(c, p), c \in busy
        PROVE  /\ InHand(c, p, o)
               /\ o \in 1 .. Len(log[p])
               /\ log'[p][o] = log[p][o]
               /\ Accounted(p, o) => Accounted(p, o)'
               /\ <<p, o>> \in Batch(c)
    <3>1. o \in 1 .. Len(log[p])
      BY BatchBounds
    <3> QED
      BY <2>7, <3>1, LogGrows, AccountedGrows, BatchMembers DEF BatchOK
  <2>8. CASE Validate(c)
    <3>1. c \in busy /\ UNCHANGED groupVars
      BY <2>8 DEF Validate
    <3>2. ASSUME NEW p \in Partitions, NEW o \in BatchOffsets(c, p)
          PROVE  InHand(c, p, o)'
      <4>1. CASE <<p, o>> \in Valid(c)
        <5>1. Record(<<p, o>>) = log[p][o]
          BY DEF Record
        <5>2. log[p][o] \in items'[c] /\ phase'[c] = "lookup"
          BY <2>8, <4>1, <5>1 DEF Validate, TypeOK
        <5> QED
          BY <2>7, <3>1, <5>2 DEF InHand
      <4>2. CASE <<p, o>> \notin Valid(c)
        <5>1. <<p, o>> \in rejects'[c] /\ phase'[c] \in {"lookup", "produce"}
          BY <2>7, <2>8, <3>1, <4>2 DEF Validate, Rejected, TypeOK
        <5> QED
          BY <5>1 DEF InHand
      <4> QED
        BY <4>1, <4>2
    <3> QED
      BY <2>6, <3>1, <3>2
  <2>9. CASE Lookup(c)
    <3>1. /\ c \in busy /\ UNCHANGED groupVars /\ phase[c] = "lookup"
          /\ \/ phase'[c] = "produce"
             \/ phase'[c] = "commit" /\ items[c] \subseteq dedup /\ rejects[c] = {}
          /\ unsent'[c] = items[c] \ dedup /\ rejects'[c] = rejects[c] /\ items[c] \subseteq Events
      BY <2>9 DEF Lookup, Duplicates, TypeOK
    <3>2. ASSUME NEW p \in Partitions, NEW o \in BatchOffsets(c, p)
          PROVE  InHand(c, p, o)'
      <4>1. CASE log[p][o] \in items[c] /\ log[p][o] \in dedup
        <5>1. Accounted(p, o)
          BY <3>1, <4>1 DEF DedupAfterPublish, Accounted
        <5> QED
          BY <2>7, <3>1, <5>1 DEF InHand
      <4>2. CASE log[p][o] \in items[c] /\ log[p][o] \notin dedup
        BY <2>7, <3>1, <4>2 DEF InHand
      <4>3. CASE log[p][o] \notin items[c]
        BY <2>7, <3>1, <4>3 DEF InHand
      <4> QED
        BY <4>1, <4>2, <4>3
    <3> QED
      BY <2>6, <3>1, <3>2
  <2>10. ASSUME NEW e \in Events, AppendEvent(c, e)
         PROVE  BatchOK'
    <3>1. /\ c \in busy /\ UNCHANGED groupVars /\ phase[c] = "produce" /\ phase'[c] = "produce"
          /\ unsent'[c] = unsent[c] \ {e} /\ rejects'[c] = rejects[c]
      BY <2>10 DEF AppendEvent, TypeOK
    <3>2. ASSUME NEW p \in Partitions, NEW o \in BatchOffsets(c, p)
          PROVE  InHand(c, p, o)'
      <4>1. CASE log[p][o] = e
        <5>1. Published(e)' /\ log'[p][o] = e
          BY <2>7, <2>10, <3>1, <4>1, AppendedIsPublished
        <5> QED
          BY <5>1 DEF InHand, Accounted, Published, Home
      <4>2. CASE log[p][o] # e
        BY <2>7, <3>1, <4>2 DEF InHand
      <4> QED
        BY <4>1, <4>2
    <3> QED
      BY <2>6, <3>1, <3>2
  <2>11. ASSUME NEW b \in Batch(c), AppendDeadLetter(c, b)
         PROVE  BatchOK'
    <3>1. /\ c \in busy /\ UNCHANGED groupVars /\ phase[c] = "produce" /\ phase'[c] = "produce"
          /\ unsent'[c] = unsent[c] /\ rejects'[c] = rejects[c] \ {b} /\ b \in deadLetters'
      BY <2>11 DEF AppendDeadLetter, TypeOK
    <3>2. ASSUME NEW p \in Partitions, NEW o \in BatchOffsets(c, p)
          PROVE  InHand(c, p, o)'
      BY <2>7, <3>1 DEF InHand, Accounted
    <3> QED
      BY <2>6, <3>1, <3>2
  <2>12. CASE Produced(c) \/ Mark(c) \/ MarkFails(c)
    <3>1. /\ c \in busy /\ UNCHANGED groupVars
          /\ \/ phase[c] = "produce" /\ unsent[c] = {} /\ rejects[c] = {}
             \/ phase[c] = "mark"
      BY <2>12 DEF Produced, Acknowledged, Mark, MarkFails
    <3>2. ASSUME NEW p \in Partitions, NEW o \in BatchOffsets(c, p)
          PROVE  InHand(c, p, o)'
      BY <2>7, <3>1 DEF InHand
    <3> QED
      BY <2>6, <3>1, <3>2
  <2> QED
    BY <1>2, <2>3, <2>4, <2>5, <2>8, <2>9, <2>10, <2>11, <2>12 DEF Handle, Fail
<1> QED
  BY <1>1, <1>2 DEF Next
-----------------------------------------------------------------------------
(* Nothing is lost *)

\* When processBatch gets to CommitRecords, all that c has polled is accounted for.
LEMMA CommitReady ==
  ASSUME TypeOK, OffsetsOK, FinishedOK, BatchOK,
         NEW c \in busy, phase[c] = "commit", NEW p \in held[c], NEW o \in 1 .. polled[c][p]
  PROVE  Accounted(p, o)
<1>1. c \in Consumers /\ p \in Partitions /\ done[c][p] \in Nat /\ polled[c][p] \in Nat
  BY DEF TypeOK
<1>2. CASE o <= done[c][p]
  BY <1>1, <1>2 DEF FinishedOK
<1>3. CASE done[c][p] < o
  <2>1. o \in BatchOffsets(c, p)
    BY <1>1, <1>3 DEF BatchOffsets
  <2>2. InHand(c, p, o)
    BY <1>1, <2>1 DEF BatchOK
  <2> QED
    BY <2>2 DEF InHand
<1> QED
  BY <1>1, <1>2, <1>3

LEMMA FinishedInvariant ==
  ASSUME TypeOK, OffsetsOK, NeverLost, FinishedOK, BatchOK, [Next]_vars
  PROVE  FinishedOK'
<1> SUFFICES ASSUME NEW c \in Consumers, NEW p \in held'[c], NEW o \in 1 .. done'[c][p]
             PROVE  Accounted(p, o)'
  BY DEF FinishedOK
<1>0. p \in Partitions /\ done'[c][p] \in Nat
  BY NextType DEF TypeOK
<1>1. ASSUME p \in held[c], o \in 1 .. done[c][p]
      PROVE  Accounted(p, o)'
  <2>1. Accounted(p, o)
    BY <1>1 DEF FinishedOK
  <2>2. o \in 1 .. Len(log[p])
    BY <1>0, <1>1, LogGrows DEF OffsetsOK, TypeOK
  <2> QED
    BY <1>0, <2>1, <2>2, AccountedGrows
<1>2. ASSUME NEW q \in Partitions, NEW d \in Consumers, Assign(q, d)
      PROVE  Accounted(p, o)'
  <2>1. CASE c = d /\ p = q
    <3>1. done'[c][p] = committed[p]
      BY <1>2, <2>1 DEF Assign, TypeOK
    <3>2. Accounted(p, o)
      BY <1>0, <3>1 DEF NeverLost
    <3>3. o \in 1 .. Len(log[p])
      BY <1>0, <3>1, LogGrows DEF OffsetsOK, TypeOK
    <3> QED
      BY <1>0, <3>2, <3>3, AccountedGrows
  <2>2. CASE ~(c = d /\ p = q)
    <3>1. p \in held[c] /\ done'[c][p] = done[c][p]
      BY <1>0, <1>2, <2>2 DEF Assign, TypeOK
    <3> QED
      BY <1>1, <3>1
  <2> QED
    BY <2>1, <2>2
<1>3. ASSUME NEW d \in Consumers, Commit(d)
      PROVE  Accounted(p, o)'
  <2>1. held'[c] = held[c]
    BY <1>3 DEF Commit, AllowRebalance
  <2>2. CASE c = d
    <3>1. done'[c][p] = polled[c][p] /\ c \in busy /\ phase[c] = "commit"
      BY <1>3, <2>2 DEF Commit, AllowRebalance, TypeOK
    <3>2. Accounted(p, o)
      BY <2>1, <3>1, CommitReady
    <3>3. o \in 1 .. Len(log[p])
      BY <1>0, <2>1, <3>1, LogGrows DEF OffsetsOK, TypeOK
    <3> QED
      BY <1>0, <3>2, <3>3, AccountedGrows
  <2>3. CASE c # d
    BY <1>1, <1>3, <2>1, <2>3 DEF Commit, AllowRebalance, TypeOK
  <2> QED
    BY <2>2, <2>3
<1>4. ASSUME NEW d \in Consumers, Crash(d)
      PROVE  Accounted(p, o)'
  <2>1. c # d /\ held'[c] = held[c] /\ done'[c] = done[c]
    BY <1>4 DEF Crash, Stop, TypeOK
  <2> QED
    BY <1>1, <2>1
<1>5. ASSUME NEW d \in Consumers, Handle(d) \/ Fail(d), ~Commit(d), ~Crash(d)
      PROVE  Accounted(p, o)'
  <2>1. UNCHANGED <<held, done>>
    BY <1>5 DEF Handle, Fail, Poll, PollRecords, Validate, Lookup, AppendEvent, AppendDeadLetter,
       Produced, Mark, LookupFails, ProduceFails, MarkFails, CommitFails, Expelled, Expel, groupVars, clientVars
  <2> QED
    BY <1>1, <2>1
<1>6. ASSUME NEW d \in Consumers, Join(d)
      PROVE  Accounted(p, o)'
  BY <1>1, <1>6 DEF Join, TypeOK
<1>7. ASSUME NEW q \in Partitions, Revoke(q)
      PROVE  Accounted(p, o)'
  BY <1>1, <1>7 DEF Revoke, TypeOK
<1>8. CASE Environment \/ UNCHANGED vars
  BY <1>1, <1>8 DEF Environment, Arrive, ClockReaches, Expire, Reassign, vars, groupVars, clientVars
<1> QED
  BY <1>2, <1>3, <1>4, <1>5, <1>6, <1>7, <1>8 DEF Next, GroupStep

LEMMA NeverLostInvariant ==
  ASSUME TypeOK, OwnershipOK, OffsetsOK, NeverLost, FinishedOK, BatchOK, [Next]_vars
  PROVE  NeverLost'
<1> SUFFICES ASSUME NEW p \in Partitions, NEW o \in 1 .. committed'[p]
             PROVE  Accounted(p, o)'
  BY DEF NeverLost
<1>1. ASSUME committed'[p] = committed[p]
      PROVE  Accounted(p, o)'
  <2>1. Accounted(p, o)
    BY <1>1 DEF NeverLost
  <2>2. o \in 1 .. Len(log[p])
    BY <1>1, LogGrows DEF OffsetsOK, TypeOK
  <2> QED
    BY <2>1, <2>2, AccountedGrows
<1>2. ASSUME NEW c \in busy, c \in members, phase[c] = "commit", committed' = OffsetsCommittedBy(c)
      PROVE  Accounted(p, o)'
  <2>1. CASE p \in held[c]
    <3>1. committed'[p] = polled[c][p]
      BY <1>2, <2>1, CommittedOffsets
    <3>2. Accounted(p, o)
      BY <1>2, <2>1, <3>1, CommitReady
    <3>3. o \in 1 .. Len(log[p])
      BY <2>1, <3>1, LogGrows DEF OffsetsOK, TypeOK
    <3> QED
      BY <3>2, <3>3, AccountedGrows
  <2>2. CASE p \notin held[c]
    BY <1>1, <1>2, <2>2, CommittedOffsets
  <2> QED
    BY <2>1, <2>2
<1>3. \/ committed' = committed
      \/ \E c \in busy : c \in members /\ phase[c] = "commit" /\ committed' = OffsetsCommittedBy(c)
  BY DEF Next, Environment, Arrive, ClockReaches, Expire, Reassign, GroupStep, Join, Assign, Revoke,
     Handle, Poll, PollRecords, Validate, Lookup, AppendEvent, AppendDeadLetter, Produced, Mark,
     Commit, Fail, LookupFails, ProduceFails, MarkFails, CommitFails, Expelled, Expel, Crash, Stop,
     vars, groupVars, coordinatorVars
<1> QED
  BY <1>1, <1>2, <1>3

LEMMA InitIInv == Init => IInv
<1> SUFFICES ASSUME Init PROVE IInv
  OBVIOUS
<1>1. OwnershipOK /\ OffsetsOK
  BY DEF Init, GroupInit, NoOffsets, OwnershipOK, OffsetsOK
<1>2. NeverLost /\ FinishedOK
  BY DEF Init, GroupInit, NoOffsets, NeverLost, FinishedOK
<1>3. DedupAfterPublish /\ BatchOK /\ ItemsOK
  BY DEF Init, GroupInit, DedupAfterPublish, BatchOK, ItemsOK
<1> QED
  BY <1>1, <1>2, <1>3 DEF IInv

LEMMA NextIInv == TypeOK /\ IInv /\ [Next]_vars => IInv'
  BY GroupInvariant, NeverLostInvariant, DedupInvariant, FinishedInvariant, BatchInvariant,
     ItemsInvariant DEF IInv

\* The inductive invariant of the processor: at every phase of every attempt each
\* record of the batch is accounted for or still in hand.
THEOREM Inductive == Spec => []IInv
<1>1. Init => IInv
  BY InitIInv
<1>2. TypeOK /\ IInv /\ [Next]_vars => IInv'
  BY NextIInv
<1> QED
  BY <1>1, <1>2, TypeCorrect, PTL DEF Spec

\* No committed raw record is missing from both the canonical topic and the DLQ,
\* whichever consumers crash, are expelled or see Redis and Kafka fail, and when.
THEOREM NothingIsLost == Spec => []NeverLost
<1>1. IInv => NeverLost
  BY DEF IInv
<1> QED
  BY <1>1, Inductive, PTL

\* A dedup key never makes a copy of an event a duplicate before the event is in
\* the canonical topic.
THEOREM KeysFollowEvents == Spec => []DedupAfterPublish
<1>1. IInv => DedupAfterPublish
  BY DEF IInv
<1> QED
  BY <1>1, Inductive, PTL
-----------------------------------------------------------------------------
(* The processor implements AtLeastOnce *)

LEMMA SettledIff ==
  ASSUME NEW p, NEW o
  PROVE  <<p, o>> \in Settled <=> p \in Partitions /\ o \in 1 .. Len(log[p]) /\ Accounted(p, o)
  BY DEF Settled

LEMMA SettledPairs ==
  ASSUME NEW b \in Settled
  PROVE  \E p \in Partitions : \E o \in 1 .. Len(log[p]) : b = <<p, o>> /\ Accounted(p, o)
  BY DEF Settled

LEMMA SettledGrows ==
  ASSUME TypeOK, [Next]_vars
  PROVE  Settled \subseteq Settled'
<1> SUFFICES ASSUME NEW b \in Settled PROVE b \in Settled'
  OBVIOUS
<1>1. PICK p \in Partitions : \E o \in 1 .. Len(log[p]) : b = <<p, o>> /\ Accounted(p, o)
  BY SettledPairs
<1>2. PICK o \in 1 .. Len(log[p]) : b = <<p, o>> /\ Accounted(p, o)
  BY <1>1
<1>3. o \in 1 .. Len(log'[p])
  BY LogGrows
<1>4. Accounted(p, o)'
  BY <1>2, AccountedGrows
<1> QED
  BY <1>2, <1>3, <1>4 DEF Settled

LEMMA ArriveRefines ==
  ASSUME TypeOK, TypeOK', [Next]_vars,
         NEW p \in Partitions, NEW r \in Events \cup {Invalid}, Arrive(p, r)
  PROVE  Promise!Arrive(p)
<1>1. /\ log' = [log EXCEPT ![p] = Append(@, r)]
      /\ canonical' = canonical /\ deadLetters' = deadLetters /\ committed' = committed
  BY DEF Arrive, coordinatorVars, topicVars
<1>2. \A q \in Partitions : log[q] \in Seq(Events \cup {Invalid})
  BY DEF TypeOK
<1>3. /\ Len(log[p]) \in Nat /\ Len(log'[p]) = Len(log[p]) + 1
      /\ \A q \in Partitions : q # p => log'[q] = log[q]
  BY <1>1, <1>2 DEF TypeOK
<1>4. Arrived' = [Arrived EXCEPT ![p] = @ + 1]
  BY <1>3 DEF Arrived
<1>5. Settled \subseteq Settled'
  BY SettledGrows
<1>6. ASSUME NEW b \in Settled', b \notin Settled
      PROVE  b = <<p, Arrived[p] + 1>>
  <2>1. PICK q \in Partitions : \E o \in 1 .. Len(log'[q]) : b = <<q, o>> /\ Accounted(q, o)'
    BY <1>6 DEF Settled
  <2>2. PICK o \in 1 .. Len(log'[q]) : b = <<q, o>> /\ Accounted(q, o)'
    BY <2>1
  <2>3. CASE o \in 1 .. Len(log[q])
    <3>1. log'[q][o] = log[q][o]
      BY <2>3, LogGrows
    <3>2. Accounted(q, o)
      BY <1>1, <2>2, <3>1 DEF Accounted, Published, Home
    <3> QED
      BY <1>6, <2>2, <2>3, <3>2 DEF Settled
  <2>4. CASE o \notin 1 .. Len(log[q])
    <3>1. q = p /\ o = Len(log[p]) + 1
      BY <1>3, <2>4
    <3> QED
      BY <2>2, <3>1 DEF Arrived
  <2> QED
    BY <2>3, <2>4
<1>7. Settled' = Settled \/ Settled' = Settled \cup {<<p, Arrived[p] + 1>>}
  BY <1>5, <1>6
<1> QED
  BY <1>1, <1>4, <1>7 DEF Promise!Arrive

\* The steps that neither commit nor append to the raw topic.
LEMMA SettleRefines ==
  ASSUME TypeOK, [Next]_vars, log' = log, committed' = committed
  PROVE  Promise!Settle
<1>1. Settled \subseteq Settled'
  BY SettledGrows
<1>2. Arrived' = Arrived
  BY DEF Arrived
<1>3. ASSUME NEW b \in Settled'
      PROVE  b[1] \in Partitions /\ b[2] \in 1 .. Arrived[b[1]]
  <2>1. PICK q \in Partitions : \E o \in 1 .. Len(log[q]) : b = <<q, o>>
    BY <1>3 DEF Settled
  <2>2. PICK o \in 1 .. Len(log[q]) : b = <<q, o>>
    BY <2>1
  <2> QED
    BY <2>2 DEF Arrived
<1> QED
  BY <1>1, <1>2, <1>3 DEF Promise!Settle

LEMMA CommitRefines ==
  ASSUME TypeOK, TypeOK', OwnershipOK, OffsetsOK, OffsetsOK', NeverLost', [Next]_vars,
         NEW c \in members, committed' = OffsetsCommittedBy(c),
         log' = log, canonical' = canonical, deadLetters' = deadLetters
  PROVE  Promise!Commit
<1>1. Arrived' = Arrived /\ Settled' = Settled
  BY DEF Arrived, Settled, Accounted, Published, Home
<1>2. committed' \in [Partitions -> Nat]
  BY DEF TypeOK
<1>3. \A p \in Partitions : committed[p] <= committed'[p]
  BY CommittedOffsets
<1>4. ASSUME NEW p \in Partitions, NEW o \in 1 .. committed'[p]
      PROVE  <<p, o>> \in Settled
  <2>1. Accounted(p, o)
    BY DEF NeverLost, Accounted, Published, Home
  <2>2. committed'[p] <= Len(log[p]) /\ committed'[p] \in Nat /\ Len(log[p]) \in Nat
    BY <1>2 DEF OffsetsOK, TypeOK
  <2>3. o \in 1 .. Len(log[p])
    BY <2>2
  <2> QED
    BY <2>1, <2>3, SettledIff
<1> QED
  BY <1>1, <1>2, <1>3, <1>4 DEF Promise!Commit
\* What a step can be for the abstract specification.
LEMMA StepKinds ==
  ASSUME [Next]_vars
  PROVE  \/ \E p \in Partitions, r \in Events \cup {Invalid} : Arrive(p, r)
         \/ log' = log /\ committed' = committed
         \/ \E c \in members : /\ committed' = OffsetsCommittedBy(c)
                             /\ log' = log /\ canonical' = canonical /\ deadLetters' = deadLetters
<1>1. ASSUME NEW c \in Consumers, Commit(c)
      PROVE  /\ c \in members /\ committed' = OffsetsCommittedBy(c)
             /\ log' = log /\ canonical' = canonical /\ deadLetters' = deadLetters
  BY <1>1 DEF Commit, AllowRebalance, topicVars
<1>2. ASSUME NEW c \in Consumers, CommitFails(c)
      PROVE  \/ log' = log /\ committed' = committed
             \/ /\ c \in members /\ committed' = OffsetsCommittedBy(c)
                /\ log' = log /\ canonical' = canonical /\ deadLetters' = deadLetters
  BY <1>2 DEF CommitFails, topicVars
<1>3. ASSUME NEW c \in Consumers, Handle(c), ~Commit(c)
      PROVE  log' = log /\ committed' = committed
  BY <1>3 DEF Handle, Poll, PollRecords, Validate, Lookup, AppendEvent, AppendDeadLetter,
     Produced, Mark, groupVars, coordinatorVars
<1>4. ASSUME NEW c \in Consumers, Fail(c), ~CommitFails(c)
      PROVE  log' = log /\ committed' = committed
  BY <1>4 DEF Fail, LookupFails, ProduceFails, MarkFails, Expelled, Expel, Crash, Stop,
     groupVars, coordinatorVars
<1>5. ASSUME GroupStep \/ UNCHANGED vars
      PROVE  log' = log /\ committed' = committed
  BY <1>5 DEF GroupStep, Join, Assign, Revoke, vars, groupVars, coordinatorVars
<1>6. ASSUME Environment
      PROVE  \/ \E p \in Partitions, r \in Events \cup {Invalid} : Arrive(p, r)
             \/ log' = log /\ committed' = committed
  BY <1>6 DEF Environment, ClockReaches, Expire, Reassign, groupVars, coordinatorVars
<1> QED
  BY <1>1, <1>2, <1>3, <1>4, <1>5, <1>6 DEF Next

LEMMA StepRefines ==
  ASSUME TypeOK, TypeOK', IInv, IInv', [Next]_vars
  PROVE  [Promise!Next]_(Promise!vars)
<1>1. ASSUME NEW p \in Partitions, NEW r \in Events \cup {Invalid}, Arrive(p, r)
      PROVE  Promise!Next
  BY <1>1, ArriveRefines DEF Promise!Next
<1>2. CASE log' = log /\ committed' = committed
  BY <1>2, SettleRefines DEF Promise!Next
<1>3. ASSUME NEW c \in members, committed' = OffsetsCommittedBy(c),
             log' = log, canonical' = canonical, deadLetters' = deadLetters
      PROVE  Promise!Next
  BY <1>3, CommitRefines DEF Promise!Next, IInv
<1> QED
  BY <1>1, <1>2, <1>3, StepKinds

LEMMA InitRefines == Init => Promise!Init
<1> SUFFICES ASSUME Init PROVE Promise!Init
  OBVIOUS
<1>1. \A p \in Partitions : log[p] = << >> /\ Len(log[p]) = 0
  BY DEF Init, GroupInit
<1>2. Settled = {}
  BY <1>1 DEF Settled
<1>3. Arrived = [p \in Partitions |-> 0]
  BY <1>1 DEF Arrived
<1> QED
  BY <1>2, <1>3 DEF Init, GroupInit, NoOffsets, Promise!Init

\* The telemetry-processor consumes the raw topic at least once: an offset is only
\* committed when everything up to it is settled, and no commit is ever rewound.
THEOREM Implements == Spec => ImplementsAtLeastOnce
<1>1. Init => Promise!Init
  BY InitRefines
<1>2. TypeOK /\ TypeOK' /\ IInv /\ IInv' /\ [Next]_vars => [Promise!Next]_(Promise!vars)
  BY StepRefines
<1> QED
  BY <1>1, <1>2, TypeCorrect, Inductive, PTL DEF Spec, Promise!Spec, ImplementsAtLeastOnce
=============================================================================
