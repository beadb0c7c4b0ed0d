----------------------- MODULE ProcessorHistoryProofs -----------------------
(***************************************************************************)
(* Proofs about what the telemetry-processor leaves in the canonical       *)
(* topic, for any consumers, partitions, events and any number of failures:*)
(* the order of first copies, the order of fleet stamps, and how many      *)
(* copies of an event failures can cause.                                  *)
(***************************************************************************)
EXTENDS TelemetryProcessorProofs, FiniteSetTheorems

-----------------------------------------------------------------------------
(* Where events come from *)

LEMMA HomeType ==
  ASSUME NEW e \in Events
  PROVE  Home(e) \in Partitions
  BY ConstantsAssumption DEF Home

LEMMA AppendCanonical ==
  ASSUME TypeOK, NEW c \in Consumers, NEW e \in Events, AppendEvent(c, e)
  PROVE  /\ \A p \in Partitions : p # Home(e) => canonical'[p] = canonical[p]
         /\ DOMAIN canonical'[Home(e)] = 1 .. Len(canonical[Home(e)]) + 1
         /\ DOMAIN canonical[Home(e)] = 1 .. Len(canonical[Home(e)])
         /\ Len(canonical[Home(e)]) \in Nat
         /\ \A i \in DOMAIN canonical[Home(e)] : canonical'[Home(e)][i] = canonical[Home(e)][i]
         /\ canonical'[Home(e)][Len(canonical[Home(e)]) + 1] = CanonicalEvent(c, e)
<1>1. Home(e) \in Partitions
  BY HomeType
<1>2. canonical' = [canonical EXCEPT ![Home(e)] = Append(@, CanonicalEvent(c, e))]
  BY DEF AppendEvent
<1>3. canonical \in [Partitions -> Seq(CanonicalEvents)]
  BY DEF TypeOK
<1>4. canonical'[Home(e)] = Append(canonical[Home(e)], CanonicalEvent(c, e))
  BY <1>1, <1>2, <1>3
<1>5. canonical[Home(e)] \in Seq(CanonicalEvents)
  BY <1>1, <1>3
<1> QED
  BY <1>1, <1>2, <1>3, <1>4, <1>5

LEMMA CopyFields ==
  ASSUME NEW c, NEW e
  PROVE  /\ CanonicalEvent(c, e).event = e
         /\ CanonicalEvent(c, e).fleet = stamp[c][VinOf[e]].fleet
         /\ CanonicalEvent(c, e).write = stamp[c][VinOf[e]].write
  BY DEF CanonicalEvent

\* Only AppendEvent changes the canonical topic.
LEMMA CanonicalSteps ==
  ASSUME [Next]_vars
  PROVE  canonical' = canonical \/ \E c \in Consumers, e \in Events : AppendEvent(c, e)
  BY DEF Next, Environment, Arrive, ClockReaches, Expire, Reassign, GroupStep, Handle, Poll,
     Validate, Lookup, AppendDeadLetter, Produced, Mark, Commit, Fail, LookupFails,
     ProduceFails, MarkFails, CommitFails, Expelled, Crash, vars, topicVars

LEMMA CopyType ==
  ASSUME TypeOK, NEW p \in Partitions, NEW i \in DOMAIN canonical[p]
  PROVE  canonical[p][i].event \in Events /\ canonical[p][i].write \in Nat
<1>1. canonical[p] \in Seq(CanonicalEvents)
  BY DEF TypeOK
<1>2. canonical[p][i] \in CanonicalEvents
  BY <1>1
<1> QED
  BY <1>2 DEF CanonicalEvents

\* A record stays at its offset.
LEMMA LogDomain ==
  ASSUME TypeOK, [Next]_vars, NEW p \in Partitions, NEW o \in DOMAIN log[p]
  PROVE  o \in DOMAIN log'[p] /\ log'[p][o] = log[p][o]
<1>1. log[p] \in Seq(Events \cup {Invalid}) /\ log'[p] \in Seq(Events \cup {Invalid})
  BY NextType DEF TypeOK
<1> QED
  BY <1>1, LogGrows

LEMMA PublishedInLog ==
  ASSUME TypeOK, SourcesOK, NEW p \in Partitions, NEW i \in DOMAIN canonical[p]
  PROVE  Home(canonical[p][i].event) = p
<1>1. PICK o \in DOMAIN log[p] : log[p][o] = canonical[p][i].event
  BY DEF SourcesOK
<1>2. canonical[p][i].event \in Events
  BY CopyType
<1> QED
  BY <1>1, <1>2 DEF SourcesOK

\* What the consumer of an event to be sent knows about it.
LEMMA UnsentIsOwned ==
  ASSUME TypeOK, SourcesOK, OffsetsOK, NEW c \in Consumers, NEW e \in unsent[c]
  PROVE  /\ e \in Events /\ e \in items[c] /\ phase[c] = "produce"
         /\ Home(e) \in Partitions /\ Home(e) \in held[c]
         /\ \E o \in BatchOffsets(c, Home(e)) : log[Home(e)][o] = e
<1>1. e \in Events /\ e \in items[c] /\ phase[c] = "produce"
  BY DEF SourcesOK, Sourced, TypeOK
<1>2. PICK o \in BatchOffsets(c, Home(e)) : log[Home(e)][o] = e
  BY <1>1 DEF SourcesOK, Sourced
<1>3. Home(e) \in held[c]
  BY <1>2 DEF BatchOffsets
<1> QED
  BY <1>1, <1>2, <1>3, HomeType

\* A batch is open between PollRecords and AllowRebalance: no rebalance changes it.
LEMMA BatchStays ==
  ASSUME TypeOK, Environment \/ GroupStep \/ UNCHANGED vars, NEW d \in busy
  PROVE  held'[d] = held[d]
<1>1. CASE Environment \/ UNCHANGED vars
  BY <1>1 DEF Environment, Arrive, ClockReaches, Expire, Reassign, vars, groupVars, clientVars
<1>2. ASSUME NEW c \in Consumers, Join(c)
      PROVE  held'[d] = held[d]
  BY <1>2 DEF Join, TypeOK
<1>3. ASSUME NEW p \in Partitions, NEW c \in Consumers, Assign(p, c)
      PROVE  held'[d] = held[d]
  BY <1>3 DEF Assign, TypeOK
<1>4. ASSUME NEW p \in Partitions, Revoke(p)
      PROVE  held'[d] = held[d]
  BY <1>4 DEF Revoke, TypeOK
<1> QED
  BY <1>1, <1>2, <1>3, <1>4 DEF GroupStep

\* An attempt that does not move keeps its sources.
LEMMA SourcedFrame ==
  ASSUME TypeOK, OffsetsOK, [Next]_vars, NEW c \in Consumers, Sourced(c),
         phase'[c] = phase[c], items'[c] = items[c], unsent'[c] = unsent[c],
         items[c] # {} => held'[c] = held[c] /\ done'[c] = done[c] /\ polled'[c] = polled[c]
  PROVE  Sourced(c)'
<1>1. ASSUME NEW e \in items[c]
      PROVE  \E o \in BatchOffsets(c, Home(e))' : log'[Home(e)][o] = e
  <2>1. PICK o \in BatchOffsets(c, Home(e)) : log[Home(e)][o] = e
    BY DEF Sourced
  <2>2. e \in Events
    BY DEF TypeOK
  <2>3. o \in 1 .. Len(log[Home(e)])
    BY <2>2, HomeType, BatchBounds
  <2>4. log'[Home(e)][o] = e
    BY <2>1, <2>2, <2>3, HomeType, LogGrows
  <2>5. o \in BatchOffsets(c, Home(e))'
    BY <1>1, <2>1 DEF BatchOffsets, Home
  <2> QED
    BY <2>4, <2>5
<1> QED
  BY <1>1 DEF Sourced, Home

\* One whose local variables are gone has none.
LEMMA SourcedReturns ==
  ASSUME TypeOK, NEW c \in Consumers, AttemptReturns(c)
  PROVE  Sourced(c)'
<1>1. items'[c] = {} /\ unsent'[c] = {} /\ phase'[c] = "validate"
  BY DEF AttemptReturns, TypeOK
<1> QED
  BY <1>1 DEF Sourced

LEMMA SourcedInvariant ==
  ASSUME TypeOK, OffsetsOK, BatchOK, SourcesOK, [Next]_vars, NEW c \in Consumers
  PROVE  Sourced(c)'
<1>0. Sourced(c) /\ (c \notin busy => items[c] = {})
  BY DEF SourcesOK, Sourced, BatchOK
<1>1. CASE Environment \/ GroupStep \/ UNCHANGED vars
  BY <1>0, <1>1, FrameOthers, BatchStays, SourcedFrame DEF attemptVars
<1>2. ASSUME NEW d \in Consumers, Handle(d) \/ Fail(d), d # c
      PROVE  Sourced(c)'
  BY <1>0, <1>2, Frame, SourcedFrame
<1>3. CASE Poll(c)
  <2>1. c \notin busy /\ UNCHANGED attemptVars
    BY <1>3 DEF Poll, PollRecords
  <2> QED
    BY <1>0, <2>1, SourcedFrame DEF attemptVars
<1>4. CASE Expelled(c)
  BY <1>0, <1>4, SourcedFrame DEF Expelled, Expel, attemptVars
<1>5. CASE Commit(c) \/ LookupFails(c) \/ ProduceFails(c) \/ CommitFails(c) \/ Crash(c)
  BY <1>5, SourcedReturns DEF Commit, LookupFails, ProduceFails, CommitFails, Crash
<1>6. CASE Validate(c)
  <2>1. /\ items'[c] = {Record(b) : b \in Valid(c)} /\ unsent'[c] = unsent[c] /\ UNCHANGED groupVars
        /\ phase[c] = "validate" /\ phase'[c] = IF Valid(c) = {} THEN "produce" ELSE "lookup"
    BY <1>6 DEF Validate, TypeOK
  <2>2. unsent[c] = {}
    BY <1>0, <2>1 DEF Sourced
  <2>3. ASSUME NEW e \in items'[c]
        PROVE  \E o \in BatchOffsets(c, Home(e)) : log[Home(e)][o] = e
    <3>1. PICK b \in Valid(c) : e = Record(b)
      BY <2>1, <2>3
    <3>2. PICK p \in Partitions : \E o \in BatchOffsets(c, p) : b = <<p, o>>
      BY <3>1 DEF Valid, Batch
    <3>3. PICK o \in BatchOffsets(c, p) : b = <<p, o>>
      BY <3>2
    <3>4. log[p][o] = e /\ e \in Events
      BY <3>1, <3>3 DEF Valid, Record
    <3>5. o \in DOMAIN log[p]
      <4>1. o \in 1 .. Len(log[p])
        BY BatchBounds
      <4>2. log[p] \in Seq(Events \cup {Invalid})
        BY DEF TypeOK
      <4> QED
        BY <4>1, <4>2
    <3>6. Home(e) = p
      BY <3>4, <3>5 DEF SourcesOK
    <3> QED
      BY <3>3, <3>4, <3>6
  <2>4. ASSUME NEW e \in items'[c]
        PROVE  \E o \in BatchOffsets(c, Home(e))' : log'[Home(e)][o] = e
    BY <2>1, <2>3, <2>4 DEF groupVars, clientVars, BatchOffsets, Home
  <2> QED
    BY <2>1, <2>2, <2>4 DEF Sourced, Home
<1>7. CASE Lookup(c)
  <2>1. /\ items'[c] = items[c] \ Duplicates(c) /\ unsent'[c] = items[c] \ Duplicates(c)
        /\ UNCHANGED groupVars
        /\ phase'[c] = IF items[c] \subseteq Duplicates(c) /\ rejects[c] = {} THEN "commit" ELSE "produce"
    BY <1>7 DEF Lookup, TypeOK
  <2>2. ASSUME NEW e \in items'[c]
        PROVE  \E o \in BatchOffsets(c, Home(e))' : log'[Home(e)][o] = e
    BY <1>0, <2>1, <2>2 DEF Sourced, groupVars, clientVars, BatchOffsets, Home
  <2> QED
    BY <2>1, <2>2 DEF Sourced, Home
<1>8. ASSUME NEW e \in Events, AppendEvent(c, e)
      PROVE  Sourced(c)'
  <2>1. /\ items'[c] = items[c] /\ unsent'[c] = unsent[c] \ {e} /\ UNCHANGED groupVars
        /\ phase[c] = "produce" /\ phase'[c] = "produce"
    BY <1>8 DEF AppendEvent, TypeOK
  <2> QED
    BY <1>0, <2>1 DEF Sourced, groupVars, clientVars, BatchOffsets, Home
<1>9. ASSUME NEW b \in Batch(c), AppendDeadLetter(c, b)
      PROVE  Sourced(c)'
  BY <1>0, <1>9, SourcedFrame DEF AppendDeadLetter, groupVars, clientVars
<1>10. CASE Produced(c)
  <2>1. /\ items'[c] = items[c] /\ unsent'[c] = unsent[c] /\ UNCHANGED groupVars
        /\ unsent[c] = {} /\ phase'[c] = IF items[c] = {} THEN "commit" ELSE "mark"
    BY <1>10 DEF Produced, Acknowledged, TypeOK
  <2> QED
    BY <1>0, <2>1 DEF Sourced, groupVars, clientVars, BatchOffsets, Home
<1>11. CASE Mark(c) \/ MarkFails(c)
  <2>1. /\ items'[c] = items[c] /\ unsent'[c] = unsent[c] /\ UNCHANGED groupVars
        /\ phase[c] = "mark" /\ phase'[c] = "commit"
    BY <1>11 DEF Mark, MarkFails, TypeOK
  <2> QED
    BY <1>0, <2>1 DEF Sourced, groupVars, clientVars, BatchOffsets, Home
<1> QED
  BY <1>1, <1>2, <1>3, <1>4, <1>5, <1>6, <1>7, <1>8, <1>9, <1>10, <1>11 DEF Next, Handle, Fail

LEMMA SourcesInvariant ==
  ASSUME TypeOK, OffsetsOK, BatchOK, SourcesOK, [Next]_vars
  PROVE  SourcesOK'
<1>1. ASSUME NEW p \in Partitions, NEW o \in DOMAIN log'[p], log'[p][o] \in Events
      PROVE  Home(log'[p][o]) = p
  <2>1. CASE o \in DOMAIN log[p]
    BY <1>1, <2>1, LogDomain DEF SourcesOK
  <2>2. CASE o \notin DOMAIN log[p]
    <3>1. PICK q \in Partitions, r \in Events \cup {Invalid} : Arrive(q, r)
      BY <2>2 DEF Next, Environment, ClockReaches, Expire, Reassign, GroupStep, Join, Assign, Revoke,
         Handle, Poll, PollRecords, Validate, Lookup, AppendEvent, AppendDeadLetter, Produced, Mark,
         Commit, AllowRebalance, Fail, LookupFails, ProduceFails, MarkFails, CommitFails, Expelled,
         Expel, Crash, Stop, vars, groupVars
    <3>2. log' = [log EXCEPT ![q] = Append(@, r)] /\ (r \in Events => Home(r) = q)
      BY <3>1 DEF Arrive
    <3>3. log[p] \in Seq(Events \cup {Invalid}) /\ log \in [Partitions -> Seq(Events \cup {Invalid})]
      BY DEF TypeOK
    <3>4. p = q /\ log'[p] = Append(log[p], r)
      BY <2>2, <3>2, <3>3
    <3>5. log'[p][o] = r
      BY <2>2, <3>3, <3>4
    <3> QED
      BY <1>1, <3>2, <3>4, <3>5
  <2> QED
    BY <2>1, <2>2
<1>2. ASSUME NEW p \in Partitions, NEW i \in DOMAIN canonical'[p]
      PROVE  \E o \in DOMAIN log'[p] : log'[p][o] = canonical'[p][i].event
  <2>1. ASSUME i \in DOMAIN canonical[p], canonical'[p][i] = canonical[p][i]
        PROVE  \E o \in DOMAIN log'[p] : log'[p][o] = canonical'[p][i].event
    <3>1. PICK o \in DOMAIN log[p] : log[p][o] = canonical[p][i].event
      BY <2>1 DEF SourcesOK
    <3> QED
      BY <2>1, <3>1, LogDomain
  <2>2. ASSUME NEW c \in Consumers, NEW e \in Events, AppendEvent(c, e)
        PROVE  \E o \in DOMAIN log'[p] : log'[p][o] = canonical'[p][i].event
    <3>1. CASE p = Home(e) /\ i = Len(canonical[p]) + 1
      <4>1. canonical'[p][i].event = e
        BY <2>2, <3>1, AppendCanonical, CopyFields
      <4>2. e \in unsent[c]
        BY <2>2 DEF AppendEvent
      <4>3. PICK o \in BatchOffsets(c, Home(e)) : log[Home(e)][o] = e
        BY <4>2, UnsentIsOwned
      <4>4. o \in 1 .. Len(log[p]) /\ log[p] \in Seq(Events \cup {Invalid})
        BY <3>1, <4>3, BatchBounds DEF TypeOK
      <4>5. o \in DOMAIN log'[p] /\ log'[p][o] = e
        BY <3>1, <4>3, <4>4, LogDomain
      <4> QED
        BY <4>1, <4>5
    <3>2. CASE ~(p = Home(e) /\ i = Len(canonical[p]) + 1)
      <4>1. i \in DOMAIN canonical[p] /\ canonical'[p][i] = canonical[p][i]
        BY <1>2, <2>2, <3>2, AppendCanonical
      <4> QED
        BY <2>1, <4>1
    <3> QED
      BY <3>1, <3>2
  <2> QED
    BY <1>2, <2>1, <2>2, CanonicalSteps
<1>3. \A c \in Consumers : Sourced(c)'
  BY SourcedInvariant
<1> QED
  BY <1>1, <1>2, <1>3 DEF SourcesOK, Home
-----------------------------------------------------------------------------
(* The order of first copies *)

\* What is dead-lettered or about to be.
Doomed(b) == b \in deadLetters \/ \E c \in Consumers : b \in rejects[c]

LEMMA RejectsSteps ==
  ASSUME TypeOK, [Next]_vars, NEW b, Doomed(b)'
  PROVE  Doomed(b) \/ \E c \in Consumers : b \in Rejected(c)
<1>1. ASSUME NEW c \in Consumers, Handle(c) \/ Fail(c)
      PROVE  (b \in deadLetters' \/ b \in rejects'[c])
               => b \in deadLetters \/ b \in rejects[c] \/ b \in Rejected(c)
  <2> USE DEF TypeOK
  <2>1. CASE Validate(c)
    BY <2>1 DEF Validate, topicVars
  <2>2. ASSUME NEW d \in Batch(c), AppendDeadLetter(c, d)
        PROVE  (b \in deadLetters' \/ b \in rejects'[c]) => b \in deadLetters \/ b \in rejects[c]
    BY <2>2 DEF AppendDeadLetter
  <2>3. CASE Commit(c) \/ LookupFails(c) \/ ProduceFails(c) \/ CommitFails(c) \/ Crash(c)
    BY <2>3 DEF Commit, LookupFails, ProduceFails, CommitFails, Crash, AttemptReturns, topicVars
  <2>4. CASE Poll(c) \/ Lookup(c) \/ (\E e \in Events : AppendEvent(c, e)) \/ Produced(c)
               \/ Mark(c) \/ MarkFails(c) \/ Expelled(c)
    BY <2>4 DEF Poll, Lookup, AppendEvent, Produced, Mark, MarkFails, Expelled, attemptVars, topicVars
  <2> QED
    BY <1>1, <2>1, <2>2, <2>3, <2>4 DEF Handle, Fail
<1>2. ASSUME NEW c \in Consumers, Handle(c) \/ Fail(c)
      PROVE  Doomed(b) \/ \E d \in Consumers : b \in Rejected(d)
  BY <1>1, <1>2, Frame DEF Doomed
<1>3. CASE Environment \/ GroupStep \/ UNCHANGED vars
  BY <1>3 DEF Doomed, Environment, Arrive, ClockReaches, Expire, Reassign, GroupStep, vars, topicVars, attemptVars
<1> QED
  BY <1>2, <1>3 DEF Next

LEMMA RejectsAreDoomed ==
  RejectsOK <=> \A b : Doomed(b) => b[2] \in DOMAIN log[b[1]] /\ Record(b) \notin Events \ EarlyEvents
  BY DEF RejectsOK, Doomed

LEMMA RejectsInvariant ==
  ASSUME TypeOK, OffsetsOK, RejectsOK, [Next]_vars
  PROVE  RejectsOK'
<1>1. ASSUME NEW p \in Partitions, NEW o \in DOMAIN log[p], log[p][o] \notin Events \ EarlyEvents
      PROVE  o \in DOMAIN log'[p] /\ log'[p][o] \notin Events \ EarlyEvents
  BY <1>1, LogDomain
<1>2. ASSUME NEW b, Doomed(b)
      PROVE  b[1] \in Partitions /\ b[2] \in DOMAIN log[b[1]] /\ log[b[1]][b[2]] \notin Events \ EarlyEvents
  <2>1. b[1] \in Partitions
    BY <1>2 DEF Doomed, TypeOK
  <2> QED
    BY <1>2, <2>1, RejectsAreDoomed DEF Record
<1>3. ASSUME NEW c \in Consumers, NEW b \in Rejected(c)
      PROVE  b[1] \in Partitions /\ b[2] \in DOMAIN log[b[1]] /\ log[b[1]][b[2]] \notin Events \ EarlyEvents
  <2>1. PICK p \in Partitions : \E o \in BatchOffsets(c, p) : b = <<p, o>>
    BY <1>3 DEF Rejected, Batch
  <2>2. PICK o \in BatchOffsets(c, p) : b = <<p, o>>
    BY <2>1
  <2>3. o \in 1 .. Len(log[p]) /\ log[p] \in Seq(Events \cup {Invalid})
    BY BatchBounds DEF TypeOK
  <2>4. b[1] = p /\ b[2] = o
    BY <2>2
  <2>5. log[p][o] \notin Events \ early
    BY <1>3, <2>4 DEF Rejected, Valid, Record
  <2> QED
    BY <2>3, <2>4, <2>5 DEF TypeOK
<1>4. ASSUME NEW b, Doomed(b)'
      PROVE  b[2] \in DOMAIN log'[b[1]] /\ log'[b[1]][b[2]] \notin Events \ EarlyEvents
  <2>1. b[1] \in Partitions /\ b[2] \in DOMAIN log[b[1]] /\ log[b[1]][b[2]] \notin Events \ EarlyEvents
    BY <1>2, <1>3, <1>4, RejectsSteps
  <2> QED
    BY <1>1, <2>1
<1> QED
  BY <1>4 DEF RejectsOK, Record, Doomed

\* ProduceSync appends f when every earlier record of f's vehicle is published.
LEMMA EarlierIsPublished ==
  ASSUME TypeOK, IInv, SourcesOK, RejectsOK,
         NEW c \in Consumers, NEW e \in Events \ EarlyEvents, NEW f \in Events, AppendEvent(c, f),
         VinOf[e] = VinOf[f], FirstIn(log[Home(e)], e, f)
  PROVE  Published(e)
<1>1. PICK i \in DOMAIN log[Home(e)] : log[Home(e)][i] = e /\ \A j \in 1 .. i : log[Home(e)][j] # f
  BY DEF FirstIn
<1>2. Home(f) = Home(e) /\ Home(e) \in Partitions
  BY HomeType DEF Home
<1>3. /\ f \in unsent[c] /\ c \in busy /\ phase[c] = "produce"
      /\ ~Precedes(e, f, c) \/ e \notin unsent[c]
  BY DEF AppendEvent, InOrder
<1>4. OffsetsOK /\ FinishedOK /\ BatchOK
  BY DEF IInv
<1>5. PICK o \in BatchOffsets(c, Home(e)) : log[Home(e)][o] = f
  BY <1>2, <1>3, <1>4, UnsentIsOwned
<1>6. /\ Home(e) \in held[c] /\ o \in Nat /\ done[c][Home(e)] < o /\ o <= polled[c][Home(e)]
      /\ o \in 1 .. Len(log[Home(e)])
  BY <1>2, <1>4, BatchBounds
<1>7. i \in 1 .. Len(log[Home(e)]) /\ i \in Nat /\ i < o
  <2>1. log[Home(e)] \in Seq(Events \cup {Invalid})
    BY <1>2 DEF TypeOK
  <2> QED
    BY <1>1, <1>5, <1>6, <2>1
<1>8. <<Home(e), i>> \notin deadLetters /\ <<Home(e), i>> \notin rejects[c]
  <2>1. Record(<<Home(e), i>>) \in Events \ EarlyEvents
    BY <1>1 DEF Record
  <2> QED
    BY <2>1 DEF RejectsOK
<1>9. CASE i <= done[c][Home(e)]
  <2>1. Accounted(Home(e), i)
    BY <1>4, <1>6, <1>7, <1>9, <1>2 DEF FinishedOK, TypeOK
  <2> QED
    BY <1>1, <1>8, <2>1 DEF Accounted
<1>10. CASE ~(i <= done[c][Home(e)])
  <2>1. i \in BatchOffsets(c, Home(e))
    BY <1>2, <1>6, <1>7, <1>10 DEF BatchOffsets, TypeOK
  <2>2. InHand(c, Home(e), i)
    BY <1>2, <1>3, <1>4, <2>1 DEF BatchOK
  <2>3. Precedes(e, f, c)
    <3>1. \A j \in BatchOffsets(c, Home(e)) : j <= i => log[Home(e)][j] # f
      <4> SUFFICES ASSUME NEW j \in BatchOffsets(c, Home(e)), j <= i
                   PROVE  log[Home(e)][j] # f
        OBVIOUS
      <4>1. j \in 1 .. Len(log[Home(e)])
        BY <1>2, <1>4, BatchBounds
      <4>2. j \in 1 .. i
        BY <1>7, <4>1
      <4> QED
        BY <1>1, <4>2
    <3> QED
      BY <1>1, <1>2, <2>1, <3>1 DEF Precedes
  <2>4. e \notin unsent[c]
    BY <1>3, <2>3
  <2> QED
    BY <1>1, <1>3, <1>8, <2>2, <2>4 DEF InHand, Accounted
<1> QED
  BY <1>9, <1>10

LEMMA OrderInvariant ==
  ASSUME TypeOK, IInv, SourcesOK, RejectsOK, FirstCopiesInOrder, [Next]_vars
  PROVE  FirstCopiesInOrder'
<1> SUFFICES ASSUME NEW e \in Events \ EarlyEvents, NEW f \in Events \ EarlyEvents,
                    VinOf[e] = VinOf[f], Published(f)', FirstIn(log'[Home(e)], e, f)
             PROVE  FirstIn(Column(Home(e))', e, f)
  BY DEF FirstCopiesInOrder, Home
<1>1. Home(f) = Home(e) /\ Home(e) \in Partitions
  BY HomeType DEF Home
<1>2. FirstCopiesInOrder =>
        (Published(f) /\ FirstIn(log[Home(e)], e, f) => FirstIn(Column(Home(e)), e, f))
  BY DEF FirstCopiesInOrder
<1>3. PICK i \in DOMAIN log'[Home(e)] : log'[Home(e)][i] = e /\ \A j \in 1 .. i : log'[Home(e)][j] # f
  BY DEF FirstIn
<1>4. log'[Home(e)] \in Seq(Events \cup {Invalid}) /\ log[Home(e)] \in Seq(Events \cup {Invalid})
  BY <1>1, NextType DEF TypeOK
\* A record of f that was there keeps later records from being first.
<1>5. ASSUME NEW o \in DOMAIN log[Home(e)], log[Home(e)][o] = f
      PROVE  FirstIn(log[Home(e)], e, f)
  <2>1. log'[Home(e)][o] = f /\ o \in Nat /\ o >= 1
    BY <1>1, <1>4, <1>5, LogDomain
  <2>2. i \in Nat /\ i < o
    BY <1>3, <1>4, <2>1
  <2>3. \A j \in 1 .. i : j \in DOMAIN log[Home(e)] /\ log'[Home(e)][j] = log[Home(e)][j]
    BY <1>1, <1>4, <2>2, LogDomain
  <2>4. i \in 1 .. i
    BY <1>3, <1>4
  <2> QED
    BY <1>3, <2>3, <2>4 DEF FirstIn
<1>6. ASSUME Published(f)
      PROVE  FirstIn(Column(Home(e)), e, f)
  <2>1. PICK k \in DOMAIN canonical[Home(f)] : canonical[Home(f)][k].event = f
    BY <1>6 DEF Published
  <2>2. \E o \in DOMAIN log[Home(e)] : log[Home(e)][o] = f
    BY <1>1, <2>1 DEF SourcesOK
  <2> QED
    BY <1>2, <1>5, <1>6, <2>2
<1>7. CASE canonical' = canonical
  <2>1. Published(f) /\ Column(Home(e))' = Column(Home(e))
    BY <1>7 DEF Published, Column, Home
  <2> QED
    BY <1>6, <2>1
<1>8. ASSUME NEW c \in Consumers, NEW g \in Events, AppendEvent(c, g)
      PROVE  FirstIn(Column(Home(e))', e, f)
  <2>1. log' = log
    BY <1>8 DEF AppendEvent, groupVars
  <2>2. \A k \in DOMAIN canonical[Home(e)] :
          k \in DOMAIN canonical'[Home(e)] /\ canonical'[Home(e)][k] = canonical[Home(e)][k]
    BY <1>1, <1>8, AppendCanonical
  <2>3. canonical[Home(e)] \in Seq(CanonicalEvents)
    BY <1>1 DEF TypeOK
  <2>4. ASSUME NEW k \in DOMAIN canonical[Home(e)], canonical[Home(e)][k].event = e,
               \A j \in 1 .. k : canonical[Home(e)][j].event # f
        PROVE  FirstIn(Column(Home(e))', e, f)
    <3>1. \A j \in 1 .. k : j \in DOMAIN canonical[Home(e)]
      BY <2>3
    <3>2. k \in DOMAIN Column(Home(e))' /\ Column(Home(e))'[k] = e
      BY <2>2, <2>4 DEF Column, Home
    <3>3. \A j \in 1 .. k : Column(Home(e))'[j] # f
      BY <2>2, <2>4, <3>1 DEF Column, Home
    <3> QED
      BY <3>2, <3>3 DEF FirstIn
  <2>5. CASE Published(f)
    <3>1. PICK k \in DOMAIN Column(Home(e)) :
            Column(Home(e))[k] = e /\ \A j \in 1 .. k : Column(Home(e))[j] # f
      BY <1>6, <2>5 DEF FirstIn
    <3>2. k \in DOMAIN canonical[Home(e)] /\ \A j \in 1 .. k : j \in DOMAIN canonical[Home(e)]
      BY <2>3, <3>1 DEF Column
    <3> QED
      BY <2>4, <3>1, <3>2 DEF Column
  <2>6. CASE ~Published(f)
    <3>1. g = f
      <4>1. PICK k \in DOMAIN canonical'[Home(f)] : canonical'[Home(f)][k].event = f
        BY DEF Published, Home
      <4>2. k \notin DOMAIN canonical[Home(f)] \/ canonical'[Home(f)][k] # canonical[Home(f)][k]
        BY <2>6, <4>1 DEF Published
      <4>3. Home(g) = Home(f) /\ k = Len(canonical[Home(g)]) + 1
        BY <1>1, <1>8, <4>1, <4>2, AppendCanonical
      <4> QED
        BY <1>8, <4>1, <4>3, AppendCanonical, CopyFields
    <3>2. Published(e)
      BY <1>8, <2>1, <3>1, EarlierIsPublished
    <3>3. PICK k \in DOMAIN canonical[Home(e)] : canonical[Home(e)][k].event = e
      BY <3>2 DEF Published
    <3>4. \A j \in 1 .. k : canonical[Home(e)][j].event # f
      <4>1. \A j \in 1 .. k : j \in DOMAIN canonical[Home(e)]
        BY <2>3, <3>3
      <4> QED
        BY <1>1, <2>6, <4>1 DEF Published
    <3> QED
      BY <2>4, <3>3, <3>4
  <2> QED
    BY <2>5, <2>6
<1> QED
  BY <1>7, <1>8, CanonicalSteps
-----------------------------------------------------------------------------
(* The order of fleet stamps *)

LEMMA ExpulsionSteps ==
  ASSUME TypeOK, [Next]_vars
  PROVE  /\ expulsions \in Nat /\ expulsions' \in {expulsions, expulsions + 1}
         /\ (\E c \in Consumers : Expelled(c)) => expulsions' = expulsions + 1
<1>0. expulsions \in Nat
  BY ConstantsAssumption DEF TypeOK
<1>1. ASSUME NEW c \in Consumers, Handle(c)
      PROVE  expulsions' = expulsions
  BY <1>1 DEF Handle, Poll, Validate, Lookup, AppendEvent, AppendDeadLetter, Produced, Mark, Commit, budgetVars
<1>2. ASSUME NEW c \in Consumers, Fail(c), ~Expelled(c)
      PROVE  expulsions' = expulsions
  BY <1>2 DEF Fail, LookupFails, ProduceFails, MarkFails, CommitFails, Crash, Fault, budgetVars
<1>3. ASSUME Environment \/ GroupStep \/ UNCHANGED vars
      PROVE  expulsions' = expulsions
  <2>1. ASSUME NEW e \in Events, Expire(e)
        PROVE  expulsions' = expulsions
    BY <2>1 DEF Expire, Fault
  <2> QED
    BY <1>3, <2>1 DEF Environment, Arrive, ClockReaches, Reassign, GroupStep, vars, budgetVars
<1>4. ASSUME NEW c \in Consumers, Expelled(c)
      PROVE  expulsions' = expulsions + 1
  BY <1>4 DEF Expelled
<1> QED
  BY <1>0, <1>1, <1>2, <1>3, <1>4 DEF Next

\* A write to v's key appends to what it has held.
LEMMA FleetSteps ==
  ASSUME TypeOK, [Next]_vars, NEW v \in Vins
  PROVE  /\ fleet[v] # << >> /\ fleet[v] \in Seq(Fleets \cup {NoFleet})
         /\ \A k \in DOMAIN fleet[v] : k \in DOMAIN fleet'[v] /\ fleet'[v][k] = fleet[v][k]
<1>1. fleet[v] \in Seq(Fleets \cup {NoFleet}) /\ fleet[v] # << >>
  BY DEF TypeOK
<1>2. ASSUME NEW w \in Vins, NEW f \in Fleets \cup {NoFleet}, Reassign(w, f)
      PROVE  fleet'[v] = fleet[v] \/ fleet'[v] = Append(fleet[v], f)
  BY <1>2 DEF Reassign, TypeOK
<1>3. CASE fleet' = fleet
  BY <1>1, <1>3
<1>4. fleet' = fleet \/ \E w \in Vins, f \in Fleets \cup {NoFleet} : Reassign(w, f)
  BY DEF Next, Environment, Arrive, ClockReaches, Expire, GroupStep, Handle, Poll,
     Validate, Lookup, AppendEvent, AppendDeadLetter, Produced, Mark, Commit, Fail, LookupFails,
     ProduceFails, MarkFails, CommitFails, Expelled, Crash, vars, redisVars
<1> QED
  BY <1>1, <1>2, <1>3, <1>4

LEMMA PresentIsHeld ==
  ASSUME TypeOK, NEW v \in Vins
  PROVE  /\ Present(v).write \in DOMAIN fleet[v] /\ fleet[v][Present(v).write] = Present(v).fleet
         /\ Present(v).write = Len(fleet[v]) /\ DOMAIN fleet[v] = 1 .. Len(fleet[v])
         /\ Len(fleet[v]) \in Nat
<1>1. fleet[v] \in Seq(Fleets \cup {NoFleet}) /\ fleet[v] # << >>
  BY DEF TypeOK
<1>2. Len(fleet[v]) \in Nat \ {0} /\ DOMAIN fleet[v] = 1 .. Len(fleet[v])
  BY <1>1
<1> QED
  BY <1>2 DEF Present

\* What a step can do to the stamps of c and to what c has to send.
LEMMA StampSteps ==
  ASSUME TypeOK, [Next]_vars, NEW c \in Consumers
  PROVE  \/ unsent'[c] = {}
         \/ unsent'[c] \subseteq unsent[c] /\ stamp'[c] = stamp[c]
         \/ Lookup(c) /\ stamp'[c] = [v \in Vins |-> Present(v)] /\ canonical' = canonical
<1> USE DEF TypeOK
<1>1. CASE Handle(c)
  <2>1. CASE Lookup(c)
    BY <2>1 DEF Lookup, topicVars
  <2>2. CASE Commit(c)
    BY <2>2 DEF Commit, AttemptReturns
  <2>3. ASSUME NEW e \in Events, AppendEvent(c, e)
        PROVE  unsent'[c] \subseteq unsent[c] /\ stamp'[c] = stamp[c]
    BY <2>3 DEF AppendEvent
  <2>4. CASE Poll(c) \/ Validate(c) \/ (\E b \in Batch(c) : AppendDeadLetter(c, b)) \/ Produced(c) \/ Mark(c)
    BY <2>4 DEF Poll, Validate, AppendDeadLetter, Produced, Mark, attemptVars
  <2> QED
    BY <1>1, <2>1, <2>2, <2>3, <2>4 DEF Handle
<1>2. CASE Fail(c)
  BY <1>2 DEF Fail, LookupFails, ProduceFails, MarkFails, CommitFails, Expelled, Crash,
     AttemptReturns, attemptVars
<1>3. ASSUME NEW d \in Consumers, d # c, Handle(d) \/ Fail(d)
      PROVE  unsent'[c] = unsent[c] /\ stamp'[c] = stamp[c]
  <2>1. unsent'[c] = unsent[c]
    BY <1>3, Frame
  <2>2. stamp'[c] = stamp[c]
    BY <1>3 DEF Handle, Fail, Poll, Validate, Lookup, AppendEvent, AppendDeadLetter, Produced, Mark,
       Commit, LookupFails, ProduceFails, MarkFails, CommitFails, Expelled, Crash, AttemptReturns, attemptVars
  <2> QED
    BY <2>1, <2>2
<1>4. CASE Environment \/ GroupStep \/ UNCHANGED vars
  BY <1>4, FrameOthers DEF attemptVars
<1> QED
  BY <1>1, <1>2, <1>3, <1>4 DEF Next

\* A stamp is what Lookup read, or nothing that was read.
LEMMA ReadSteps ==
  ASSUME TypeOK, [Next]_vars, NEW c \in Consumers
  PROVE  stamp'[c] \in {stamp[c], [v \in Vins |-> Present(v)], Unassigned}
<1> USE DEF TypeOK
<1>1. ASSUME NEW d \in Consumers, Handle(d)
      PROVE  stamp'[c] \in {stamp[c], [v \in Vins |-> Present(v)], Unassigned}
  <2>1. CASE Lookup(d)
    BY <2>1 DEF Lookup
  <2>2. CASE ~Lookup(d)
    BY <1>1, <2>2 DEF Handle, Poll, Validate, AppendEvent, AppendDeadLetter, Produced, Mark,
       Commit, AttemptReturns, attemptVars
  <2> QED
    BY <2>1, <2>2
<1>2. ASSUME NEW d \in Consumers, Fail(d)
      PROVE  stamp'[c] \in {stamp[c], Unassigned}
  BY <1>2 DEF Fail, LookupFails, ProduceFails, MarkFails, CommitFails, Expelled, Crash,
     AttemptReturns, attemptVars
<1>3. CASE Environment \/ GroupStep \/ UNCHANGED vars
  BY <1>3, FrameOthers DEF attemptVars
<1> QED
  BY <1>1, <1>2, <1>3 DEF Next

HoldersAreMembers == \A c \in Consumers : held[c] # {} => c \in members

LEMMA HoldersInvariant ==
  ASSUME TypeOK, HoldersAreMembers, [Next]_vars, ~(\E c \in Consumers : Expelled(c))
  PROVE  HoldersAreMembers'
<1> USE DEF TypeOK
<1>1. ASSUME NEW c \in Consumers, Join(c)
      PROVE  HoldersAreMembers'
  BY <1>1 DEF Join, HoldersAreMembers
<1>2. ASSUME NEW p \in Partitions, NEW c \in Consumers, Assign(p, c)
      PROVE  HoldersAreMembers'
  BY <1>2 DEF Assign, HoldersAreMembers
<1>3. ASSUME NEW p \in Partitions, Revoke(p)
      PROVE  HoldersAreMembers'
  <2>1. members' = members /\ \A c \in Consumers : held'[c] \subseteq held[c]
    BY <1>3 DEF Revoke
  <2> QED
    BY <2>1 DEF HoldersAreMembers
<1>4. ASSUME NEW c \in Consumers, Crash(c)
      PROVE  HoldersAreMembers'
  BY <1>4 DEF Crash, Stop, HoldersAreMembers
<1>5. CASE held' = held /\ members' = members
  BY <1>5 DEF HoldersAreMembers
<1>6. CASE Environment \/ UNCHANGED vars
  BY <1>5, <1>6 DEF Environment, Arrive, ClockReaches, Expire, Reassign, vars, groupVars, coordinatorVars, clientVars
<1>7. ASSUME NEW c \in Consumers, Handle(c)
      PROVE  HoldersAreMembers'
  BY <1>5, <1>7 DEF Handle, Poll, PollRecords, Validate, Lookup, AppendEvent, AppendDeadLetter, Produced, Mark,
     Commit, AllowRebalance, groupVars, coordinatorVars, clientVars
<1>8. ASSUME NEW c \in Consumers, Fail(c), ~Crash(c)
      PROVE  HoldersAreMembers'
  BY <1>5, <1>8 DEF Fail, LookupFails, ProduceFails, MarkFails, CommitFails, groupVars, coordinatorVars, clientVars
<1> QED
  BY <1>1, <1>2, <1>3, <1>4, <1>6, <1>7, <1>8 DEF Next, GroupStep

\* While nobody is expelled, two consumers have nothing to send to one partition.
LEMMA OneSender ==
  ASSUME TypeOK, OwnershipOK, OffsetsOK, SourcesOK, HoldersAreMembers,
         NEW c \in Consumers, NEW d \in Consumers, NEW e \in unsent[c], NEW f \in unsent[d],
         Home(e) = Home(f)
  PROVE  c = d
<1>1. Home(e) \in Partitions /\ Home(e) \in held[c] /\ Home(e) \in held[d]
  BY UnsentIsOwned
<1>2. c \in members /\ d \in members
  BY <1>1 DEF HoldersAreMembers
<1> QED
  BY <1>1, <1>2 DEF OwnershipOK

\* Every stamp of an attempt is a value that the vehicle's key has held.
StampsHeld ==
  /\ \A v \in Vins : Head(fleet[v]) = NoFleet
  /\ \A c \in Consumers, v \in Vins : WasHeld(v, stamp[c][v])

LEMMA HeldInvariant ==
  ASSUME TypeOK, StampsHeld, [Next]_vars
  PROVE  StampsHeld'
<1>1. ASSUME NEW v \in Vins
      PROVE  Head(fleet'[v]) = NoFleet /\ fleet'[v][1] = NoFleet /\ 1 \in DOMAIN fleet'[v]
  <2>1. fleet[v] # << >> /\ fleet[v] \in Seq(Fleets \cup {NoFleet}) /\ 1 \in DOMAIN fleet[v]
    BY FleetSteps
  <2>2. Head(fleet[v]) = fleet[v][1] /\ Head(fleet[v]) = NoFleet
    BY <2>1 DEF StampsHeld
  <2>3. 1 \in DOMAIN fleet'[v] /\ fleet'[v][1] = NoFleet
    BY <2>1, <2>2, FleetSteps
  <2>4. fleet'[v] \in Seq(Fleets \cup {NoFleet}) /\ fleet'[v] # << >>
    BY NextType DEF TypeOK
  <2> QED
    BY <2>3, <2>4
<1>2. ASSUME NEW c \in Consumers, NEW v \in Vins
      PROVE  stamp'[c][v].write \in DOMAIN fleet'[v] /\ fleet'[v][stamp'[c][v].write] = stamp'[c][v].fleet
  <2>1. CASE stamp'[c] = stamp[c]
    <3>1. stamp[c][v].write \in DOMAIN fleet[v] /\ fleet[v][stamp[c][v].write] = stamp[c][v].fleet
      BY DEF StampsHeld, WasHeld
    <3> QED
      BY <2>1, <3>1, FleetSteps
  <2>2. CASE stamp'[c] = [w \in Vins |-> Present(w)]
    <3>1. stamp'[c][v] = Present(v)
      BY <2>2
    <3>2. Present(v).write \in DOMAIN fleet[v] /\ fleet[v][Present(v).write] = Present(v).fleet
      BY PresentIsHeld
    <3> QED
      BY <3>1, <3>2, FleetSteps
  <2>3. CASE stamp'[c] = Unassigned
    BY <1>1, <2>3 DEF Unassigned
  <2> QED
    BY <2>1, <2>2, <2>3, ReadSteps
<1> QED
  BY <1>1, <1>2 DEF StampsHeld, WasHeld

\* The copies of e's vehicle were read no later than write k of its key.
NoneNewer(e, k) ==
  \A i \in DOMAIN canonical[Home(e)] :
    VinOf[canonical[Home(e)][i].event] = VinOf[e] => canonical[Home(e)][i].write <= k

LEMMA StampsInvariant ==
  ASSUME TypeOK, OwnershipOK, OffsetsOK, SourcesOK, StampsOK, StampsInOrder, [Next]_vars
  PROVE  StampsOK'
<1>0. StampsHeld'
  BY HeldInvariant DEF StampsOK, StampsHeld
<1> SUFFICES ASSUME expulsions' = 0
             PROVE  HoldersAreMembers' /\ (\A c \in Consumers : \A e \in unsent[c] : NoneNewer(e, stamp[c][VinOf[e]].write))'
  BY <1>0 DEF StampsOK, StampsHeld, HoldersAreMembers, NoneNewer
<1>1. expulsions = 0 /\ ~(\E c \in Consumers : Expelled(c))
  BY ExpulsionSteps
<1>2. /\ HoldersAreMembers
      /\ \A c \in Consumers : \A e \in unsent[c] : NoneNewer(e, stamp[c][VinOf[e]].write)
  BY <1>1 DEF StampsOK, HoldersAreMembers, NoneNewer
<1>3. HoldersAreMembers'
  BY <1>1, <1>2, HoldersInvariant
<1>4. /\ \A e \in Events : VinOf[e] \in Vins /\ Home(e) \in Partitions
      /\ \A c \in Consumers : unsent[c] \subseteq Events /\ unsent'[c] \subseteq Events
  BY ConstantsAssumption, HomeType, NextType DEF TypeOK
<1>5. ASSUME NEW c \in Consumers, NEW e \in unsent'[c]
      PROVE  NoneNewer(e, stamp[c][VinOf[e]].write)'
  <2>1. e \in Events /\ VinOf[e] \in Vins /\ Home(e) \in Partitions
    BY <1>4
  <2>2. CASE Lookup(c) /\ stamp'[c] = [v \in Vins |-> Present(v)] /\ canonical' = canonical
    <3>1. stamp'[c][VinOf[e]].write = Len(fleet[VinOf[e]])
      BY <2>1, <2>2, PresentIsHeld
    <3>2. ASSUME NEW i \in DOMAIN canonical[Home(e)], VinOf[canonical[Home(e)][i].event] = VinOf[e]
          PROVE  canonical[Home(e)][i].write <= Len(fleet[VinOf[e]])
      <4>1. canonical[Home(e)][i].write \in DOMAIN fleet[VinOf[e]]
        BY <2>1, <3>2 DEF StampsInOrder, WasHeld
      <4> QED
        BY <2>1, <4>1, PresentIsHeld
    <3> QED
      BY <2>2, <3>1, <3>2 DEF NoneNewer, Home
  <2>3. CASE e \in unsent[c] /\ stamp'[c] = stamp[c]
    <3>1. NoneNewer(e, stamp[c][VinOf[e]].write)
      BY <1>2, <2>3
    <3>2. ASSUME NEW d \in Consumers, NEW f \in Events, AppendEvent(d, f),
                 NEW i \in DOMAIN canonical'[Home(e)], VinOf[canonical'[Home(e)][i].event] = VinOf[e]
          PROVE  canonical'[Home(e)][i].write <= stamp'[c][VinOf[e]].write
      <4>1. CASE Home(f) = Home(e) /\ i = Len(canonical[Home(e)]) + 1
        <5>1. canonical'[Home(e)][i].event = f /\ canonical'[Home(e)][i].write = stamp[d][VinOf[f]].write
          BY <3>2, <4>1, AppendCanonical, CopyFields
        <5>2. f \in unsent[d]
          BY <3>2 DEF AppendEvent
        <5>3. d = c
          BY <1>2, <2>3, <4>1, <5>2, OneSender
        <5>4. canonical'[Home(e)][i].write = stamp'[c][VinOf[e]].write
          BY <2>3, <3>2, <5>1, <5>3
        <5>5. stamp[c][VinOf[e]].write \in Nat
          BY <2>1 DEF TypeOK, Stamps
        <5> QED
          BY <2>3, <5>4, <5>5
      <4>2. CASE ~(Home(f) = Home(e) /\ i = Len(canonical[Home(e)]) + 1)
        <5>1. i \in DOMAIN canonical[Home(e)] /\ canonical'[Home(e)][i] = canonical[Home(e)][i]
          BY <2>1, <3>2, <4>2, AppendCanonical
        <5> QED
          BY <2>3, <3>1, <3>2, <5>1 DEF NoneNewer
      <4> QED
        BY <4>1, <4>2
    <3>3. CASE canonical' = canonical
      BY <2>3, <3>1, <3>3 DEF NoneNewer, Home
    <3>4. CASE \E d \in Consumers, f \in Events : AppendEvent(d, f)
      BY <3>2, <3>4 DEF NoneNewer, Home
    <3> QED
      BY <3>3, <3>4, CanonicalSteps
  <2> QED
    BY <1>5, <2>2, <2>3, StampSteps
<1> QED
  BY <1>3, <1>5

LEMMA StampOrderInvariant ==
  ASSUME TypeOK, SourcesOK, StampsOK, StampsInOrder, [Next]_vars
  PROVE  StampsInOrder'
<1>1. ASSUME NEW p \in Partitions, NEW i \in DOMAIN canonical'[p]
      PROVE  WasHeld(VinOf[canonical[p][i].event], canonical[p][i])'
  <2>1. ASSUME i \in DOMAIN canonical[p], canonical'[p][i] = canonical[p][i]
        PROVE  WasHeld(VinOf[canonical[p][i].event], canonical[p][i])'
    <3>1. VinOf[canonical[p][i].event] \in Vins
      BY <2>1, CopyType, ConstantsAssumption
    <3>2. WasHeld(VinOf[canonical[p][i].event], canonical[p][i])
      BY <2>1 DEF StampsInOrder
    <3> QED
      BY <2>1, <3>1, <3>2, FleetSteps DEF WasHeld
  <2>2. ASSUME NEW c \in Consumers, NEW e \in Events, AppendEvent(c, e)
        PROVE  WasHeld(VinOf[canonical[p][i].event], canonical[p][i])'
    <3>1. CASE p = Home(e) /\ i = Len(canonical[p]) + 1
      <4>1. /\ canonical'[p][i].event = e
            /\ canonical'[p][i].fleet = stamp[c][VinOf[e]].fleet
            /\ canonical'[p][i].write = stamp[c][VinOf[e]].write
        BY <2>2, <3>1, AppendCanonical, CopyFields
      <4>2. VinOf[e] \in Vins /\ fleet' = fleet
        BY <2>2, ConstantsAssumption DEF AppendEvent, redisVars
      <4>3. WasHeld(VinOf[e], stamp[c][VinOf[e]])
        BY <4>2 DEF StampsOK
      <4> QED
        BY <4>1, <4>2, <4>3 DEF WasHeld
    <3>2. CASE ~(p = Home(e) /\ i = Len(canonical[p]) + 1)
      BY <1>1, <2>1, <2>2, <3>2, AppendCanonical
    <3> QED
      BY <3>1, <3>2
  <2> QED
    BY <1>1, <2>1, <2>2, CanonicalSteps
<1> SUFFICES ASSUME expulsions' = 0,
                    NEW p \in Partitions, NEW i \in DOMAIN canonical'[p], NEW j \in DOMAIN canonical'[p],
                    i < j, VinOf[canonical'[p][i].event] = VinOf[canonical'[p][j].event]
             PROVE  canonical'[p][i].write <= canonical'[p][j].write
  BY <1>1 DEF StampsInOrder
<1>2. expulsions = 0
  BY ExpulsionSteps
<1>3. ASSUME i \in DOMAIN canonical[p], canonical'[p][i] = canonical[p][i],
             j \in DOMAIN canonical[p], canonical'[p][j] = canonical[p][j]
      PROVE  canonical'[p][i].write <= canonical'[p][j].write
  BY <1>2, <1>3 DEF StampsInOrder
<1>4. ASSUME NEW c \in Consumers, NEW e \in Events, AppendEvent(c, e)
      PROVE  canonical'[p][i].write <= canonical'[p][j].write
  <2>1. CASE p = Home(e) /\ j = Len(canonical[p]) + 1
    <3>1. canonical'[p][j].event = e /\ canonical'[p][j].write = stamp[c][VinOf[e]].write
      BY <1>4, <2>1, AppendCanonical, CopyFields
    <3>2. i \in DOMAIN canonical[p] /\ canonical'[p][i] = canonical[p][i]
      BY <1>4, <2>1, AppendCanonical
    <3>3. e \in unsent[c]
      BY <1>4 DEF AppendEvent
    <3>4. VinOf[canonical[p][i].event] = VinOf[e]
      BY <3>1, <3>2
    <3>5. canonical[p][i].write <= stamp[c][VinOf[e]].write
      BY <1>2, <2>1, <3>2, <3>3, <3>4 DEF StampsOK
    <3> QED
      BY <3>1, <3>2, <3>5
  <2>2. CASE ~(p = Home(e) /\ j = Len(canonical[p]) + 1)
    <3>1. j \in DOMAIN canonical[p] /\ canonical'[p][j] = canonical[p][j]
      BY <1>4, <2>2, AppendCanonical
    <3>2. i \in DOMAIN canonical[p] /\ canonical'[p][i] = canonical[p][i]
      BY <1>4, <3>1, AppendCanonical
    <3> QED
      BY <1>3, <3>1, <3>2
  <2> QED
    BY <2>1, <2>2
<1> QED
  BY <1>3, <1>4, CanonicalSteps
-----------------------------------------------------------------------------
(* The number of copies *)

\* Each failure adds at least one to what DuplicatesNeedFaults allows.
LEMMA Budget ==
  ASSUME NEW f \in Nat, NEW x \in Nat
  PROVE  /\ (1 + f) * (1 + x) \in Nat
         /\ (1 + (f + 1)) * (1 + x) = (1 + f) * (1 + x) + (1 + x)
         /\ (1 + f) * (1 + (x + 1)) = (1 + f) * (1 + x) + (1 + f)
<1>1. (1 + f) * (1 + x) \in Nat
  OBVIOUS
<1>2. (1 + (f + 1)) * (1 + x) = (1 + f) * (1 + x) + (1 + x)
  OBVIOUS
<1>3. (1 + f) * (1 + (x + 1)) = (1 + f) * (1 + x) + (1 + f)
  OBVIOUS
<1> QED
  BY <1>1, <1>2, <1>3

\* A set with at most one element more, one exchanged, one less.
LEMMA CardinalityPlus ==
  ASSUME NEW S, NEW T, NEW y, IsFiniteSet(S), T \subseteq S \cup {y}
  PROVE  IsFiniteSet(T) /\ Cardinality(T) <= Cardinality(S) + 1
         /\ Cardinality(S) \in Nat /\ Cardinality(T) \in Nat
<1>1. /\ IsFiniteSet(S \cup {y})
      /\ Cardinality(S \cup {y}) = IF y \in S THEN Cardinality(S) ELSE Cardinality(S) + 1
  BY FS_AddElement
<1>2. IsFiniteSet(T) /\ Cardinality(T) <= Cardinality(S \cup {y})
  BY <1>1, FS_Subset
<1>3. Cardinality(S) \in Nat /\ Cardinality(T) \in Nat
  BY <1>2, FS_CardinalityType
<1> QED
  BY <1>1, <1>2, <1>3

LEMMA CardinalityMinus ==
  ASSUME NEW S, NEW T, NEW x \in S, IsFiniteSet(S), T \subseteq S \ {x}
  PROVE  IsFiniteSet(T) /\ Cardinality(T) + 1 <= Cardinality(S)
         /\ Cardinality(S) \in Nat /\ Cardinality(T) \in Nat
<1>1. IsFiniteSet(S \ {x}) /\ Cardinality(S \ {x}) = Cardinality(S) - 1
  BY FS_RemoveElement
<1>2. IsFiniteSet(T) /\ Cardinality(T) <= Cardinality(S \ {x})
  BY <1>1, FS_Subset
<1>3. Cardinality(S) \in Nat /\ Cardinality(T) \in Nat
  BY <1>2, FS_CardinalityType
<1> QED
  BY <1>1, <1>2, <1>3

LEMMA CardinalitySwap ==
  ASSUME NEW S, NEW T, NEW x \in S, NEW y, IsFiniteSet(S), T \subseteq (S \ {x}) \cup {y}
  PROVE  IsFiniteSet(T) /\ Cardinality(T) <= Cardinality(S)
<1>1. IsFiniteSet(S \ {x}) /\ Cardinality(S \ {x}) + 1 <= Cardinality(S)
      /\ Cardinality(S) \in Nat /\ Cardinality(S \ {x}) \in Nat
  BY CardinalityMinus
<1>2. IsFiniteSet(T) /\ Cardinality(T) <= Cardinality(S \ {x}) + 1 /\ Cardinality(T) \in Nat
  BY <1>1, CardinalityPlus
<1> QED
  BY <1>1, <1>2

\* The positions of the copies of e.
Positions(e) == {i \in DOMAIN canonical[Home(e)] : canonical[Home(e)][i].event = e}

LEMMA CopiesType ==
  ASSUME TypeOK, NEW e \in Events
  PROVE  IsFiniteSet(Positions(e)) /\ Copies(e) = Cardinality(Positions(e)) /\ Copies(e) \in Nat
<1>1. canonical[Home(e)] \in Seq(CanonicalEvents)
  BY HomeType DEF TypeOK
<1>2. Positions(e) \subseteq 1 .. Len(canonical[Home(e)]) /\ Len(canonical[Home(e)]) \in Nat
  BY <1>1 DEF Positions
<1>3. IsFiniteSet(1 .. Len(canonical[Home(e)]))
  BY <1>2, FS_Interval
<1>4. IsFiniteSet(Positions(e))
  BY <1>2, <1>3, FS_Subset
<1> QED
  BY <1>4, FS_CardinalityType DEF Copies, Positions

LEMMA CopiesSteps ==
  ASSUME TypeOK, [Next]_vars, NEW e \in Events
  PROVE  \/ Copies(e)' = Copies(e)
         \/ Copies(e)' = Copies(e) + 1 /\ \E c \in Consumers : AppendEvent(c, e)
<1>1. CASE canonical' = canonical
  BY <1>1 DEF Copies, Home
<1>2. ASSUME NEW c \in Consumers, NEW f \in Events, AppendEvent(c, f)
      PROVE  Copies(e)' = Copies(e) \/ (f = e /\ Copies(e)' = Copies(e) + 1)
  <2> DEFINE next == Len(canonical[Home(e)]) + 1
  <2>0. Home(e) \in Partitions /\ Home(f) \in Partitions
    BY HomeType
  <2>1. CASE f = e
    <3>0. /\ DOMAIN canonical'[Home(e)] = DOMAIN canonical[Home(e)] \cup {next}
          /\ next \notin DOMAIN canonical[Home(e)]
          /\ \A i \in DOMAIN canonical[Home(e)] : canonical'[Home(e)][i] = canonical[Home(e)][i]
          /\ canonical'[Home(e)][next].event = e
      BY <1>2, <2>1, AppendCanonical, CopyFields
    <3> HIDE DEF next
    <3>1. Positions(e)' = Positions(e) \cup {next} /\ next \notin Positions(e)
      BY <3>0 DEF Positions, Home
    <3>2. Cardinality(Positions(e)') = Cardinality(Positions(e)) + 1
      BY <3>1, CopiesType, FS_AddElement
    <3>3. Copies(e) = Cardinality(Positions(e)) /\ Copies(e)' = Cardinality(Positions(e)')
      BY DEF Copies, Positions, Home
    <3> QED
      BY <2>1, <3>2, <3>3
  <2>2. CASE f # e /\ Home(f) = Home(e)
    <3> HIDE DEF next
    <3>0. /\ DOMAIN canonical'[Home(e)] = DOMAIN canonical[Home(e)] \cup {next}
          /\ \A i \in DOMAIN canonical[Home(e)] : canonical'[Home(e)][i] = canonical[Home(e)][i]
          /\ canonical'[Home(e)][next].event = f
      BY <1>2, <2>2, AppendCanonical, CopyFields DEF next
    <3>1. Positions(e)' = Positions(e)
      BY <2>2, <3>0 DEF Positions, Home
    <3>2. Copies(e) = Cardinality(Positions(e)) /\ Copies(e)' = Cardinality(Positions(e)')
      BY DEF Copies, Positions, Home
    <3> QED
      BY <3>1, <3>2
  <2>3. CASE Home(f) # Home(e)
    <3>1. canonical'[Home(e)] = canonical[Home(e)]
      BY <1>2, <2>0, <2>3, AppendCanonical
    <3> QED
      BY <3>1 DEF Copies, Home
  <2> QED
    BY <2>1, <2>2, <2>3
<1> QED
  BY <1>1, <1>2, CanonicalSteps

\* What the group's part of a step does to those who may publish: the candidates.
Candidates(e) == Zombies \cup {owner[Home(e)]}

LEMMA CandidatesSame ==
  ASSUME UNCHANGED <<members, owner, held>>, NEW e
  PROVE  Candidates(e)' = Candidates(e) /\ Zombies' = Zombies
  BY DEF Candidates, Zombies, Home

LEMMA CandidatesHandle ==
  ASSUME NEW c \in Consumers, Handle(c) \/ (Fail(c) /\ ~Expelled(c) /\ ~Crash(c))
  PROVE  UNCHANGED <<members, owner, held>>
  BY DEF Handle, Fail, Poll, PollRecords, Validate, Lookup, AppendEvent, AppendDeadLetter,
     Produced, Mark, Commit, AllowRebalance, LookupFails, ProduceFails, MarkFails, CommitFails,
     groupVars, coordinatorVars, clientVars

LEMMA CandidatesEnvironment ==
  ASSUME Environment \/ UNCHANGED vars
  PROVE  UNCHANGED <<members, owner, held>>
  BY DEF Environment, Arrive, ClockReaches, Expire, Reassign, vars, groupVars, coordinatorVars, clientVars

\* Expulsion makes a zombie; joining again, or the end of the process, unmakes it.
LEMMA ZombieSteps ==
  ASSUME TypeOK, [Next]_vars
  PROVE  \/ Zombies' \subseteq Zombies
         \/ \E c \in Consumers : Expelled(c) /\ Zombies' \subseteq Zombies \cup {c}
<1> USE DEF TypeOK
<1>1. ASSUME NEW c \in Consumers, Join(c)
      PROVE  Zombies' \subseteq Zombies
  BY <1>1 DEF Join, Zombies
<1>2. ASSUME NEW p \in Partitions, NEW c \in Consumers, Assign(p, c)
      PROVE  Zombies' \subseteq Zombies
  BY <1>2 DEF Assign, Zombies
<1>3. ASSUME NEW p \in Partitions, Revoke(p)
      PROVE  Zombies' \subseteq Zombies
  BY <1>3 DEF Revoke, Zombies
<1>4. ASSUME NEW c \in Consumers, Crash(c)
      PROVE  Zombies' \subseteq Zombies
  BY <1>4 DEF Crash, Stop, Zombies
<1>5. ASSUME NEW c \in Consumers, Expelled(c)
      PROVE  Zombies' \subseteq Zombies \cup {c}
  BY <1>5 DEF Expelled, Expel, Zombies
<1>6. ASSUME UNCHANGED <<members, owner, held>>
      PROVE  Zombies' = Zombies
  BY <1>6 DEF Zombies
<1> QED
  BY <1>1, <1>2, <1>3, <1>4, <1>5, <1>6, CandidatesHandle, CandidatesEnvironment DEF Next, GroupStep, Fail

LEMMA ZombiesInvariant ==
  ASSUME TypeOK, ZombiesOK, [Next]_vars
  PROVE  ZombiesOK'
<1>1. IsFiniteSet(Zombies) /\ Cardinality(Zombies) <= expulsions /\ Cardinality(Zombies) \in Nat
      /\ expulsions \in Nat /\ expulsions' \in {expulsions, expulsions + 1}
  BY ExpulsionSteps, FS_CardinalityType DEF ZombiesOK
<1>2. CASE Zombies' \subseteq Zombies
  <2>1. IsFiniteSet(Zombies') /\ Cardinality(Zombies') <= Cardinality(Zombies)
    BY <1>1, <1>2, FS_Subset
  <2>2. Cardinality(Zombies') \in Nat
    BY <2>1, FS_CardinalityType
  <2> QED
    BY <1>1, <2>1, <2>2 DEF ZombiesOK
<1>3. ASSUME NEW c \in Consumers, Expelled(c), Zombies' \subseteq Zombies \cup {c}
      PROVE  ZombiesOK'
  <2>1. expulsions' = expulsions + 1
    BY <1>3 DEF Expelled
  <2>2. IsFiniteSet(Zombies') /\ Cardinality(Zombies') <= Cardinality(Zombies) + 1 /\ Cardinality(Zombies') \in Nat
    BY <1>1, <1>3, CardinalityPlus
  <2> QED
    BY <1>1, <2>1, <2>2 DEF ZombiesOK
<1> QED
  BY <1>2, <1>3, ZombieSteps

LEMMA PublisherIff ==
  ASSUME NEW e, NEW x
  PROVE  x \in Publishers(e) <=> x \in Candidates(e) /\ MayPublish(x, e)
  BY DEF Publishers, Candidates

LEMMA CandidateType ==
  ASSUME TypeOK, NEW e \in Events, NEW x \in Candidates(e)
  PROVE  x = NoOwner \/ (x \in Consumers /\ x # NoOwner)
  BY ConstantsAssumption, HomeType DEF TypeOK, Candidates, Zombies

\* An attempt that does not move gains no chance to publish while no key expires.
LEMMA MayPublishFrame ==
  ASSUME NEW x, NEW e, dedup \subseteq dedup', MayPublish(x, e)',
         x # NoOwner => phase'[x] = phase[x] /\ items'[x] = items[x] /\ unsent'[x] = unsent[x]
  PROVE  MayPublish(x, e)
  BY DEF MayPublish

\* A key once set stays set, unless it expires.
LEMMA DedupGrows ==
  ASSUME [Next]_vars, ~(\E e \in Events : Expire(e))
  PROVE  dedup \subseteq dedup'
  BY DEF Next, Environment, Arrive, ClockReaches, Reassign, GroupStep, Handle, Poll,
     Validate, Lookup, AppendEvent, AppendDeadLetter, Produced, Mark, Commit, Fail, LookupFails,
     ProduceFails, MarkFails, CommitFails, Expelled, Crash, vars, redisVars

\* Whoever is about to append e may publish it.
LEMMA SenderIsPublisher ==
  ASSUME TypeOK, OwnershipOK, OffsetsOK, SourcesOK, NEW c \in Consumers, NEW e \in unsent[c]
  PROVE  c \in Publishers(e)
<1>1. Home(e) \in Partitions /\ Home(e) \in held[c]
  BY UnsentIsOwned
<1>2. c \in Candidates(e)
  BY <1>1 DEF Candidates, Zombies, OwnershipOK
<1>3. MayPublish(c, e)
  BY ConstantsAssumption DEF MayPublish
<1> QED
  BY <1>2, <1>3, PublisherIff

\* A step of Run or processBatch that does not fail gives nobody a further copy, and
\* uses up the sender's when it appends one.
LEMMA PublishersHandle ==
  ASSUME TypeOK, OwnershipOK, OffsetsOK, BatchOK, SourcesOK, [Next]_vars,
         NEW c \in Consumers, Handle(c), NEW e \in Events
  PROVE  /\ Publishers(e)' \subseteq Publishers(e)
         /\ AppendEvent(c, e) => c \in Publishers(e) /\ c \notin Publishers(e)'
<1> USE DEF TypeOK
<1>0. Candidates(e)' = Candidates(e) /\ NoOwner \notin Consumers
  BY ConstantsAssumption, CandidatesHandle, CandidatesSame
<1>1. dedup \subseteq dedup'
  BY DEF Handle, Poll, Validate, Lookup, AppendEvent, AppendDeadLetter, Produced, Mark, Commit, redisVars
<1>2. Sourced(c) /\ (c \notin busy => phase[c] = "validate")
  BY DEF SourcesOK, BatchOK
<1>3. MayPublish(c, e)' => MayPublish(c, e)
  <2>1. CASE Poll(c)
    BY <1>1, <2>1, MayPublishFrame DEF Poll, attemptVars
  <2>2. CASE Validate(c)
    BY <1>0, <2>2 DEF Validate, MayPublish, redisVars
  <2>3. CASE Lookup(c)
    BY <1>0, <2>3 DEF Lookup, Duplicates, MayPublish, redisVars
  <2>4. ASSUME NEW f \in Events, AppendEvent(c, f)
        PROVE  MayPublish(c, e)' => MayPublish(c, e)
    BY <1>0, <1>2, <2>4 DEF AppendEvent, MayPublish, redisVars
  <2>5. ASSUME NEW b \in Batch(c), AppendDeadLetter(c, b)
        PROVE  MayPublish(c, e)' => MayPublish(c, e)
    BY <1>1, <2>5, MayPublishFrame DEF AppendDeadLetter
  <2>6. CASE Produced(c)
    BY <1>0, <1>2, <2>6 DEF Produced, Acknowledged, MayPublish, redisVars
  <2>7. CASE Mark(c)
    BY <1>0, <1>2, <2>7 DEF Mark, Sourced, MayPublish
  <2>8. CASE Commit(c)
    BY <1>0, <1>2, <2>8 DEF Commit, AttemptReturns, MayPublish, redisVars
  <2> QED
    BY <2>1, <2>2, <2>3, <2>4, <2>5, <2>6, <2>7, <2>8 DEF Handle
<1>4. ASSUME NEW x \in Publishers(e)'
      PROVE  x \in Publishers(e)
  <2>1. x \in Candidates(e) /\ MayPublish(x, e)'
    BY <1>0 DEF Publishers, Candidates
  <2>2. CASE x = c
    BY <1>3, <2>1, <2>2, PublisherIff
  <2>3. CASE x # c
    <3>1. x # NoOwner => phase'[x] = phase[x] /\ items'[x] = items[x] /\ unsent'[x] = unsent[x]
      BY <2>1, <2>3, CandidateType, Frame
    <3> QED
      BY <1>1, <2>1, <3>1, MayPublishFrame, PublisherIff
  <2> QED
    BY <2>2, <2>3
<1>5. ASSUME AppendEvent(c, e)
      PROVE  c \in Publishers(e) /\ c \notin Publishers(e)'
  <2>1. /\ e \in unsent[c] /\ phase[c] = "produce" /\ phase'[c] = "produce" /\ items'[c] = items[c]
        /\ e \notin unsent'[c]
    BY <1>5 DEF AppendEvent
  <2>2. e \in items'[c]
    BY <1>2, <2>1 DEF Sourced
  <2>3. ~MayPublish(c, e)'
    BY <1>0, <2>1, <2>2 DEF MayPublish
  <2> QED
    BY <2>1, <2>3, SenderIsPublisher DEF Publishers
<1> QED
  BY <1>4, <1>5

\* A failed attempt gives its consumer one more; a failure that costs no fault gives none.
LEMMA PublishersFail ==
  ASSUME TypeOK, BatchOK, SourcesOK, [Next]_vars,
         NEW c \in Consumers, Fail(c), ~Expelled(c), ~Crash(c), NEW e \in Events
  PROVE  /\ Publishers(e)' \subseteq Publishers(e) \cup {c}
         /\ expulsions' = expulsions
         /\ faults' = faults + 1 \/ (faults' = faults /\ Publishers(e)' \subseteq Publishers(e))
<1> USE DEF TypeOK
<1>0. Candidates(e)' = Candidates(e) /\ NoOwner \notin Consumers
  BY ConstantsAssumption, CandidatesHandle, CandidatesSame
<1>1. dedup \subseteq dedup'
  BY DEF Fail, LookupFails, ProduceFails, MarkFails, CommitFails, redisVars
<1>2. ASSUME NEW x \in Publishers(e)', x # c
      PROVE  x \in Publishers(e)
  <2>1. x \in Candidates(e) /\ MayPublish(x, e)'
    BY <1>0, <1>2 DEF Publishers, Candidates
  <2>2. x # NoOwner => phase'[x] = phase[x] /\ items'[x] = items[x] /\ unsent'[x] = unsent[x]
    BY <1>2, <2>1, CandidateType, Frame
  <2> QED
    BY <1>1, <2>1, <2>2, MayPublishFrame, PublisherIff
<1>3. ASSUME CommitFails(c), c \in Publishers(e)'
      PROVE  c \in Publishers(e)
  <2>1. c \in Candidates(e) /\ MayPublish(c, e)'
    BY <1>0, <1>3 DEF Publishers, Candidates
  <2>2. phase[c] = "commit" /\ dedup' = dedup /\ e \notin unsent'[c]
    BY <1>3 DEF CommitFails, AttemptReturns, redisVars
  <2>3. MayPublish(c, e)
    BY <1>0, <2>1, <2>2 DEF MayPublish
  <2> QED
    BY <2>1, <2>3, PublisherIff
<1>4. CASE CommitFails(c)
  <2>1. expulsions' = expulsions /\ (faults' = faults \/ faults' = faults + 1)
    BY <1>4 DEF CommitFails, Fault, budgetVars
  <2> QED
    BY <1>2, <1>3, <1>4, <2>1
<1>5. CASE LookupFails(c) \/ ProduceFails(c) \/ MarkFails(c)
  <2>1. expulsions' = expulsions /\ faults' = faults + 1
    BY <1>5 DEF LookupFails, ProduceFails, MarkFails, Fault
  <2> QED
    BY <1>2, <2>1
<1> QED
  BY <1>4, <1>5 DEF Fail

\* A crashed or expelled consumer leaves its partitions, and one chance to publish
\* an event, to their next owner.
LEMMA PublishersLeave ==
  ASSUME TypeOK, [Next]_vars, NEW c \in Consumers, Expelled(c) \/ Crash(c), NEW e \in Events
  PROVE  /\ \E y : Publishers(e)' \subseteq Publishers(e) \cup {y}
         /\ Expelled(c) => faults' = faults
         /\ Crash(c) => faults' = faults + 1 /\ expulsions' = expulsions
<1> USE DEF TypeOK
<1>0. Home(e) \in Partitions /\ NoOwner \notin Consumers /\ Home(e)' = Home(e)
  BY HomeType, ConstantsAssumption DEF Home
<1>1. owner'[Home(e)] = (IF owner[Home(e)] = c THEN NoOwner ELSE owner[Home(e)]) /\ dedup' = dedup
  BY <1>0 DEF Expelled, Crash, Expel, Stop, Disown, redisVars
<1>2. CASE Crash(c)
  <2>1. c \notin Zombies' /\ Zombies' \subseteq Zombies
    BY <1>2 DEF Crash, Stop, Zombies
  <2>2. ASSUME NEW x \in Publishers(e)', x # NoOwner
        PROVE  x \in Publishers(e)
    <3>1. x \in Candidates(e) /\ x # c /\ MayPublish(x, e)'
      BY <1>0, <1>1, <2>1, <2>2 DEF Publishers, Candidates
    <3>2. phase'[x] = phase[x] /\ items'[x] = items[x] /\ unsent'[x] = unsent[x]
      BY <1>2, <2>2, <3>1, CandidateType, Frame DEF Fail
    <3> QED
      BY <1>1, <3>1, <3>2, MayPublishFrame, PublisherIff
  <2>3. faults' = faults + 1 /\ expulsions' = expulsions
    BY <1>2 DEF Crash, Fault
  <2>4. ~Expelled(c)
    BY <2>3 DEF Expelled
  <2>5. Publishers(e)' \subseteq Publishers(e) \cup {NoOwner}
    BY <2>2
  <2> QED
    BY <2>3, <2>4, <2>5
<1>3. CASE Expelled(c)
  <2>1. Zombies' \subseteq Zombies \cup {c} /\ UNCHANGED attemptVars /\ faults' = faults
        /\ expulsions' = expulsions + 1
    BY <1>3 DEF Expelled, Expel, Zombies
  <2>2. ASSUME NEW x \in Publishers(e)', x # IF owner[Home(e)] = c THEN NoOwner ELSE c
        PROVE  x \in Publishers(e)
    <3>1. x \in Candidates(e)
      BY <1>0, <1>1, <2>1, <2>2 DEF Publishers, Candidates
    <3>2. MayPublish(x, e)
      BY <1>1, <2>1, <2>2, MayPublishFrame DEF Publishers, attemptVars
    <3> QED
      BY <3>1, <3>2, PublisherIff
  <2>3. Publishers(e)' \subseteq Publishers(e) \cup {IF owner[Home(e)] = c THEN NoOwner ELSE c}
    BY <2>2
  <2>4. ~Crash(c)
    BY <2>1, ExpulsionSteps DEF Crash, Fault
  <2> QED
    BY <2>1, <2>3, <2>4
<1> QED
  BY <1>2, <1>3

\* A rebalance hands the chance to publish on, between an idle member and nobody.
LEMMA PublishersRebalance ==
  ASSUME TypeOK, OwnershipOK, BatchOK, SourcesOK, [Next]_vars, GroupStep, NEW e \in Events
  PROVE  \/ Publishers(e)' \subseteq Publishers(e)
         \/ \E x \in Publishers(e) : \E y : Publishers(e)' \subseteq (Publishers(e) \ {x}) \cup {y}
<1> USE DEF TypeOK
<1>0. /\ Home(e) \in Partitions /\ NoOwner \notin Consumers /\ Home(e)' = Home(e)
      /\ UNCHANGED attemptVars /\ dedup' = dedup
  BY HomeType, ConstantsAssumption DEF Home, GroupStep, redisVars
<1>1. \A x : MayPublish(x, e)' <=> MayPublish(x, e)
  BY <1>0 DEF MayPublish, attemptVars
<1>2. \A c \in Consumers \ busy : MayPublish(c, e) <=> e \notin dedup
  BY <1>0 DEF MayPublish, BatchOK, SourcesOK, Sourced
<1>3. MayPublish(NoOwner, e) <=> e \notin dedup
  BY DEF MayPublish
<1>4. \A x : x \in Publishers(e)' <=> (x \in Zombies' \/ x = owner'[Home(e)]) /\ MayPublish(x, e)
  BY <1>0, <1>1 DEF Publishers
<1>5. ASSUME NEW c \in Consumers, Join(c)
      PROVE  Publishers(e)' \subseteq Publishers(e)
  <2>1. Zombies' \subseteq Zombies /\ owner' = owner
    BY <1>5 DEF Join, Zombies
  <2> QED
    BY <1>4, <2>1 DEF Publishers
<1>6. ASSUME NEW p \in Partitions, NEW c \in Consumers, Assign(p, c)
      PROVE  \/ Publishers(e)' \subseteq Publishers(e)
             \/ \E x \in Publishers(e) : \E y : Publishers(e)' \subseteq (Publishers(e) \ {x}) \cup {y}
  <2>1. Zombies' \subseteq Zombies /\ c \in Consumers \ busy /\ NoOwner \notin Zombies
    BY <1>0, <1>6 DEF Assign, Zombies
  <2>2. CASE p # Home(e)
    BY <1>0, <1>4, <1>6, <2>1, <2>2 DEF Assign, Publishers
  <2>3. CASE p = Home(e)
    <3>1. owner[Home(e)] = NoOwner /\ owner'[Home(e)] = c
      BY <1>6, <2>3 DEF Assign
    <3>2. CASE e \in dedup
      BY <1>2, <1>4, <2>1, <3>1, <3>2 DEF Publishers
    <3>3. CASE e \notin dedup
      <4>1. NoOwner \in Publishers(e)
        BY <1>3, <3>1, <3>3 DEF Publishers
      <4>2. Publishers(e)' \subseteq (Publishers(e) \ {NoOwner}) \cup {c}
        BY <1>0, <1>4, <2>1, <3>1 DEF Publishers
      <4> QED
        BY <4>1, <4>2
    <3> QED
      BY <3>2, <3>3
  <2> QED
    BY <2>2, <2>3
<1>7. ASSUME NEW p \in Partitions, Revoke(p)
      PROVE  \/ Publishers(e)' \subseteq Publishers(e)
             \/ \E x \in Publishers(e) : \E y : Publishers(e)' \subseteq (Publishers(e) \ {x}) \cup {y}
  <2>1. PICK c \in members \ busy : owner[p] = c
    BY <1>7 DEF Revoke
  <2>2. Zombies' \subseteq Zombies /\ c \in Consumers \ busy /\ c \notin Zombies
    BY <1>7, <2>1 DEF Revoke, Zombies
  <2>3. CASE p # Home(e)
    BY <1>0, <1>4, <1>7, <2>2, <2>3 DEF Revoke, Publishers
  <2>4. CASE p = Home(e)
    <3>1. owner[Home(e)] = c /\ owner'[Home(e)] = NoOwner
      BY <1>7, <2>1, <2>4 DEF Revoke
    <3>2. CASE e \in dedup
      BY <1>3, <1>4, <2>2, <3>1, <3>2 DEF Publishers
    <3>3. CASE e \notin dedup
      <4>1. c \in Publishers(e)
        BY <1>2, <2>2, <3>1, <3>3 DEF Publishers
      <4>2. Publishers(e)' \subseteq (Publishers(e) \ {c}) \cup {NoOwner}
        BY <1>0, <1>4, <2>2, <3>1 DEF Publishers
      <4> QED
        BY <4>1, <4>2
    <3> QED
      BY <3>2, <3>3
  <2> QED
    BY <2>3, <2>4
<1> QED
  BY <1>5, <1>6, <1>7 DEF GroupStep

\* Even when a key has just expired, only zombies and the owner may publish.
LEMMA PublishersType ==
  ASSUME TypeOK, ZombiesOK, NEW e \in Events
  PROVE  /\ IsFiniteSet(Publishers(e)) /\ Cardinality(Publishers(e)) \in Nat
         /\ Cardinality(Publishers(e)) <= 1 + expulsions
<1>1. Publishers(e) \subseteq Zombies \cup {owner[Home(e)]}
  BY DEF Publishers
<1>2. IsFiniteSet(Zombies) /\ Cardinality(Zombies) <= expulsions /\ expulsions \in Nat
  BY ConstantsAssumption DEF ZombiesOK, TypeOK
<1>3. IsFiniteSet(Publishers(e)) /\ Cardinality(Publishers(e)) <= Cardinality(Zombies) + 1
      /\ Cardinality(Zombies) \in Nat /\ Cardinality(Publishers(e)) \in Nat
  BY <1>1, <1>2, CardinalityPlus
<1> QED
  BY <1>2, <1>3

\* Copies of e, and those still to come, against what the failures allow.
Allowed == (1 + faults) * (1 + expulsions)

LEMMA CopiesInvariant ==
  ASSUME TypeOK, OwnershipOK, OffsetsOK, BatchOK, SourcesOK, ZombiesOK, CopiesOK, [Next]_vars
  PROVE  CopiesOK'
<1> SUFFICES ASSUME NEW e \in Events
             PROVE  Copies(e)' + Cardinality(Publishers(e)') <= Allowed'
  BY DEF CopiesOK, Allowed
<1> DEFINE P == Publishers(e)
           Q == Publishers(e)'
<1> SUFFICES Copies(e)' + Cardinality(Q) <= Allowed'
  OBVIOUS
<1>0. ZombiesOK' /\ TypeOK'
  BY ZombiesInvariant, NextType
<1>1. /\ IsFiniteSet(P) /\ Cardinality(P) \in Nat
      /\ IsFiniteSet(Q) /\ Cardinality(Q) \in Nat /\ Cardinality(Q) <= 1 + expulsions'
  <2>1. Q \subseteq Zombies' \cup {owner'[Home(e)]}
    BY DEF Publishers, Home
  <2>2. IsFiniteSet(Zombies') /\ Cardinality(Zombies') <= expulsions' /\ expulsions' \in Nat
    BY <1>0, ConstantsAssumption DEF ZombiesOK, TypeOK
  <2>3. IsFiniteSet(Q) /\ Cardinality(Q) <= Cardinality(Zombies') + 1
        /\ Cardinality(Zombies') \in Nat /\ Cardinality(Q) \in Nat
    BY <2>1, <2>2, CardinalityPlus
  <2> QED
    BY <2>2, <2>3, PublishersType
<1>2. Copies(e) \in Nat /\ Copies(e)' \in Nat
  BY CopiesType, CopiesSteps
<1>3. Copies(e) + Cardinality(P) <= Allowed
  BY DEF CopiesOK, Allowed
<1>4. faults \in Nat /\ expulsions \in Nat
  BY ConstantsAssumption DEF TypeOK
<1>5. /\ Allowed \in Nat
      /\ faults' = faults /\ expulsions' = expulsions => Allowed' = Allowed
      /\ faults' = faults + 1 /\ expulsions' = expulsions => Allowed' = Allowed + (1 + expulsions)
      /\ faults' = faults /\ expulsions' = expulsions + 1 => Allowed' = Allowed + (1 + faults)
  BY <1>4, Budget DEF Allowed
<1> HIDE DEF P, Q
<1>6. ASSUME NEW y, Q \subseteq P \cup {y}, Copies(e)' = Copies(e),
             \/ faults' = faults + 1 /\ expulsions' = expulsions
             \/ faults' = faults /\ expulsions' = expulsions + 1
      PROVE  Copies(e)' + Cardinality(Q) <= Allowed'
  <2>1. Cardinality(Q) <= Cardinality(P) + 1
    BY <1>1, <1>6, CardinalityPlus
  <2> QED
    BY <1>1, <1>2, <1>3, <1>4, <1>5, <1>6, <2>1
<1>7. ASSUME Q \subseteq P, Copies(e)' = Copies(e), faults' = faults, expulsions' = expulsions
      PROVE  Copies(e)' + Cardinality(Q) <= Allowed'
  <2>1. Cardinality(Q) <= Cardinality(P)
    BY <1>1, <1>7, FS_Subset
  <2> QED
    BY <1>1, <1>2, <1>3, <1>5, <1>7, <2>1
<1>8. ASSUME NEW c \in Consumers, Handle(c)
      PROVE  Copies(e)' + Cardinality(Q) <= Allowed'
  <2>1. faults' = faults /\ expulsions' = expulsions
    BY <1>8 DEF Handle, Poll, Validate, Lookup, AppendEvent, AppendDeadLetter, Produced, Mark, Commit, budgetVars
  <2>2. Q \subseteq P
    BY <1>8, PublishersHandle DEF P, Q
  <2>3. CASE Copies(e)' = Copies(e)
    BY <1>7, <2>1, <2>2, <2>3
  <2>4. ASSUME Copies(e)' = Copies(e) + 1, NEW d \in Consumers, AppendEvent(d, e)
        PROVE  Copies(e)' + Cardinality(Q) <= Allowed'
    <3>1. d \in P /\ d \notin Q
      BY <2>4, PublishersHandle DEF P, Q, Handle
    <3>2. Cardinality(Q) + 1 <= Cardinality(P)
      BY <1>1, <2>2, <3>1, CardinalityMinus
    <3> QED
      BY <1>1, <1>2, <1>3, <1>5, <2>1, <2>4, <3>2
  <2> QED
    BY <2>3, <2>4, CopiesSteps
<1>9. ASSUME NEW c \in Consumers, Fail(c)
      PROVE  Copies(e)' + Cardinality(Q) <= Allowed'
  <2>1. Copies(e)' = Copies(e)
    <3>1. canonical' = canonical
      BY <1>9 DEF Fail, LookupFails, ProduceFails, MarkFails, CommitFails, Expelled, Crash, topicVars
    <3> QED
      BY <3>1 DEF Copies, Home
  <2>2. CASE Expelled(c) \/ Crash(c)
    <3>1. /\ \E y : Q \subseteq P \cup {y}
          /\ Expelled(c) => faults' = faults
          /\ Crash(c) => faults' = faults + 1 /\ expulsions' = expulsions
      BY <2>2, PublishersLeave DEF P, Q
    <3>2. Expelled(c) => expulsions' = expulsions + 1
      BY DEF Expelled
    <3> QED
      BY <1>6, <2>1, <2>2, <3>1, <3>2
  <2>3. CASE ~(Expelled(c) \/ Crash(c))
    <3>1. /\ Q \subseteq P \cup {c} /\ expulsions' = expulsions
          /\ faults' = faults + 1 \/ (faults' = faults /\ Q \subseteq P)
      BY <1>9, <2>3, PublishersFail DEF P, Q
    <3> QED
      BY <1>6, <1>7, <2>1, <3>1
  <2> QED
    BY <2>2, <2>3
<1>10. CASE GroupStep
  <2>1. Copies(e)' = Copies(e) /\ faults' = faults /\ expulsions' = expulsions
    BY <1>10 DEF GroupStep, topicVars, budgetVars, Copies, Home
  <2>2. CASE Q \subseteq P
    BY <1>7, <2>1, <2>2
  <2>3. ASSUME NEW x \in P, NEW y, Q \subseteq (P \ {x}) \cup {y}
        PROVE  Copies(e)' + Cardinality(Q) <= Allowed'
    <3>1. Cardinality(Q) <= Cardinality(P)
      BY <1>1, <2>3, CardinalitySwap
    <3> QED
      BY <1>1, <1>2, <1>3, <1>5, <2>1, <3>1
  <2> QED
    BY <1>10, <2>2, <2>3, PublishersRebalance DEF P, Q
<1>11. CASE Environment \/ UNCHANGED vars
  <2>1. Copies(e)' = Copies(e)
    <3>1. canonical' = canonical
      BY <1>11 DEF Environment, Arrive, ClockReaches, Expire, Reassign, topicVars, vars
    <3> QED
      BY <3>1 DEF Copies, Home
  <2>2. ASSUME NEW f \in Events, Expire(f)
        PROVE  Copies(e)' + Cardinality(Q) <= Allowed'
    <3>1. faults' = faults + 1 /\ expulsions' = expulsions
      BY <2>2 DEF Expire, Fault
    <3> QED
      BY <1>1, <1>2, <1>3, <1>4, <1>5, <2>1, <3>1
  <2>3. CASE ~(\E f \in Events : Expire(f))
    <3>1. UNCHANGED <<attemptVars, members, owner, held, dedup, faults, expulsions>>
      BY <1>11, <2>3 DEF Environment, Arrive, ClockReaches, Reassign, vars, groupVars,
         coordinatorVars, clientVars, redisVars, budgetVars
    <3>2. Q = P
      BY <3>1 DEF P, Q, Publishers, Zombies, MayPublish, attemptVars, Home
    <3> QED
      BY <1>7, <2>1, <3>1, <3>2
  <2> QED
    BY <2>2, <2>3
<1> QED
  BY <1>8, <1>9, <1>10, <1>11 DEF Next
-----------------------------------------------------------------------------
(* The theorems *)

LEMMA InitHistory == Init => HistoryInv
<1> SUFFICES ASSUME Init PROVE HistoryInv
  OBVIOUS
<1>0. /\ \A p \in Partitions : log[p] = << >> /\ canonical[p] = << >>
      /\ \A c \in Consumers : items[c] = {} /\ unsent[c] = {} /\ rejects[c] = {} /\ held[c] = {}
      /\ deadLetters = {} /\ faults = 0 /\ expulsions = 0
      /\ \A v \in Vins : fleet[v] = <<NoFleet>>
      /\ \A c \in Consumers : stamp[c] = Unassigned
  BY DEF Init, GroupInit
<1>1. \A e \in Events : Home(e) \in Partitions /\ ~Published(e)
  BY <1>0, HomeType DEF Published
<1>2. SourcesOK
  BY <1>0 DEF SourcesOK, Sourced
<1>3. RejectsOK
  BY <1>0 DEF RejectsOK
<1>4. FirstCopiesInOrder /\ StampsOK /\ StampsInOrder
  <2>1. ASSUME NEW c \in Consumers, NEW v \in Vins
        PROVE  WasHeld(v, stamp[c][v])
    BY <1>0 DEF WasHeld, Unassigned
  <2> QED
    BY <1>0, <1>1, <2>1 DEF FirstCopiesInOrder, StampsOK, StampsInOrder
<1>5. Zombies = {}
  BY <1>0 DEF Zombies
<1>6. ZombiesOK
  BY <1>0, <1>5, FS_EmptySet DEF ZombiesOK
<1>7. ASSUME NEW e \in Events
      PROVE  Copies(e) + Cardinality(Publishers(e)) <= (1 + faults) * (1 + expulsions)
  <2>1. TypeOK
    BY InitType
  <2>2. Positions(e) = {}
    BY <1>0, <1>1 DEF Positions
  <2>3. Copies(e) = 0
    BY <2>1, <2>2, CopiesType, FS_EmptySet
  <2>4. Cardinality(Publishers(e)) <= 1 /\ Cardinality(Publishers(e)) \in Nat
    BY <1>0, <1>6, <2>1, PublishersType
  <2> QED
    BY <1>0, <2>3, <2>4
<1>8. CopiesOK
  BY <1>7 DEF CopiesOK
<1> QED
  BY <1>2, <1>3, <1>4, <1>6, <1>8 DEF HistoryInv

LEMMA NextHistory ==
  ASSUME TypeOK, IInv, HistoryInv, [Next]_vars
  PROVE  HistoryInv'
<1>1. OwnershipOK /\ OffsetsOK /\ BatchOK
  BY DEF IInv
<1>2. /\ SourcesOK /\ RejectsOK /\ FirstCopiesInOrder /\ StampsOK /\ StampsInOrder
      /\ ZombiesOK /\ CopiesOK
  BY DEF HistoryInv
<1>3. SourcesOK'
  BY <1>1, <1>2, SourcesInvariant
<1>4. RejectsOK'
  BY <1>1, <1>2, RejectsInvariant
<1>5. FirstCopiesInOrder'
  BY <1>1, <1>2, OrderInvariant
<1>6. StampsOK'
  BY <1>1, <1>2, StampsInvariant
<1>7. StampsInOrder'
  BY <1>1, <1>2, StampOrderInvariant
<1>8. ZombiesOK'
  BY <1>2, ZombiesInvariant
<1>9. CopiesOK'
  BY <1>1, <1>2, CopiesInvariant
<1> QED
  BY <1>3, <1>4, <1>5, <1>6, <1>7, <1>8, <1>9 DEF HistoryInv

\* What the raw topic, the attempts and the canonical topic have to do with each
\* other holds at every step of processBatch, Run and the group.
THEOREM HistoryInductive == Spec => []HistoryInv
<1>1. Init => HistoryInv
  BY InitHistory
<1>2. TypeOK /\ IInv /\ HistoryInv /\ [Next]_vars => HistoryInv'
  BY NextHistory
<1> QED
  BY <1>1, <1>2, TypeCorrect, Inductive, PTL DEF Spec

\* The first copies of a vehicle's events are in the order in which the raw topic
\* got the events, whoever publishes them and however often batches start over.
THEOREM FirstCopiesAreOrdered == Spec => []FirstCopiesInOrder
<1>1. HistoryInv => FirstCopiesInOrder
  BY DEF HistoryInv
<1> QED
  BY <1>1, HistoryInductive, PTL

\* Every canonical event has a fleet that its vehicle's key in Redis held, and while
\* the group expels nobody the copies of a vehicle follow the order of the writes to
\* its key, whatever SetOne and SyncOnce write.
THEOREM StampsAreOrdered == Spec => []StampsInOrder
<1>1. HistoryInv => StampsInOrder
  BY DEF HistoryInv
<1> QED
  BY <1>1, HistoryInductive, PTL

\* An event is published once unless calls fail, consumers crash, keys expire or
\* members are expelled, and then at most (1 + faults) * (1 + expulsions) times.
THEOREM DuplicatesArePaidFor == Spec => []DuplicatesNeedFaults
<1>1. TypeOK /\ HistoryInv => DuplicatesNeedFaults
  <2> SUFFICES ASSUME TypeOK, HistoryInv, NEW e \in Events
               PROVE  Copies(e) <= (1 + faults) * (1 + expulsions)
    BY DEF DuplicatesNeedFaults
  <2>1. Copies(e) + Cardinality(Publishers(e)) <= Allowed /\ ZombiesOK
    BY DEF HistoryInv, CopiesOK, Allowed
  <2>2. Cardinality(Publishers(e)) \in Nat /\ Copies(e) \in Nat
    BY <2>1, PublishersType, CopiesType
  <2>3. Allowed \in Nat
    <3>1. faults \in Nat /\ expulsions \in Nat
      BY ConstantsAssumption DEF TypeOK
    <3> QED
      BY <3>1, Budget DEF Allowed
  <2>4. Copies(e) <= Allowed
    BY <2>1, <2>2, <2>3
  <2> QED
    BY <2>4 DEF Allowed
<1> QED
  BY <1>1, TypeCorrect, HistoryInductive, PTL
=============================================================================
