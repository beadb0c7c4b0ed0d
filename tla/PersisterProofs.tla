-------------------------- MODULE PersisterProofs --------------------------
(***************************************************************************)
(* Proofs about the persister for any consumers, partitions, events and    *)
(* any number of failures: type correctness, NeverLost by an inductive     *)
(* invariant, that it implements AtLeastOnce, and that documents do not go *)
(* back to older copies.                                                   *)
(***************************************************************************)
EXTENDS Persister, TLAPS

-----------------------------------------------------------------------------
(* Type correctness *)

LEMMA FaultType ==
  ASSUME TypeOK, Fault
  PROVE  faults' \in 0 .. MaxFaults /\ expulsions' \in 0 .. MaxExpulsions
  BY PersisterAssumption DEF TypeOK, Fault

LEMMA DisownType ==
  ASSUME TypeOK, NEW c \in Consumers
  PROVE  Disown(c) \in [Partitions -> Consumers \cup {NoOwner}]
  BY DEF TypeOK, Disown

\* The items of a body are <<partition, offset>> with a positive offset.
LEMMA BodyType ==
  ASSUME TypeOK, NEW c \in Consumers
  PROVE  Body(c) \subseteq Partitions \X (Nat \ {0})
<1>1. \A p \in Partitions : BatchOffsets(c, p) \subseteq Nat \ {0}
  BY DEF TypeOK, BatchOffsets
<1> QED
  BY <1>1 DEF Body

\* The requests that outlive their clients, one more of them.
LEMMA OrphansType ==
  ASSUME TypeOK, NEW c \in Consumers
  PROVE  Append(orphans, pending[c]) \in Seq(SUBSET (Partitions \X (Nat \ {0})))
<1> DEFINE Items == SUBSET (Partitions \X (Nat \ {0}))
<1>1. orphans \in Seq(Items) /\ pending[c] \in Items
  BY DEF TypeOK
<1> HIDE DEF Items
<1>2. Append(orphans, pending[c]) \in Seq(Items)
  BY <1>1
<1> QED
  BY <1>2 DEF Items

LEMMA ExecuteType ==
  ASSUME TypeOK, NEW b \in Partitions \X (Nat \ {0}), Execute(b)
  PROVE  document' \in [Events -> Nat] /\ refused' \subseteq Unindexable
<1>1. b[2] \in Nat
  OBVIOUS
<1> QED
  BY <1>1 DEF TypeOK, Execute

LEMMA HandleType ==
  ASSUME TypeOK, NEW c \in Consumers, Handle(c)
  PROVE  TypeOK'
<1> USE PersisterAssumption DEF TypeOK
<1>1. CASE Poll(c)
  <2>1. PICK upTo \in [held[c] -> UNION {0 .. Len(log[p]) : p \in held[c]}] :
          polled' = [polled EXCEPT ![c] =
                       [p \in Partitions |-> IF p \in held[c] THEN upTo[p] ELSE @[p]]]
    BY <1>1 DEF Poll, PollRecords
  <2>2. \A p \in held[c] : upTo[p] \in Nat
    OBVIOUS
  <2>3. polled' \in [Consumers -> [Partitions -> Nat]]
    BY <2>1, <2>2
  <2> QED
    BY <1>1, <2>3 DEF Poll, PollRecords, storeVars, requestVars, budgetVars
<1>2. CASE Send(c)
  <2>1. pending' \in [Consumers -> SUBSET (Partitions \X (Nat \ {0}))]
    BY <1>2, BodyType DEF Send
  <2>2. phase' \in [Consumers -> {"send", "wait", "commit"}]
    BY <1>2 DEF Send
  <2> QED
    BY <1>2, <2>1, <2>2 DEF Send, groupVars, coordinatorVars, clientVars, storeVars, budgetVars
<1>3. ASSUME NEW b \in pending[c], Index(c, b)
      PROVE  TypeOK'
  <2>1. b \in Partitions \X (Nat \ {0})
    BY <1>3
  <2>2. document' \in [Events -> Nat] /\ refused' \subseteq Unindexable
    BY <1>3, <2>1, ExecuteType DEF Index
  <2>3. pending' \in [Consumers -> SUBSET (Partitions \X (Nat \ {0}))]
    BY <1>3 DEF Index
  <2> QED
    BY <1>3, <2>2, <2>3 DEF Index, groupVars, coordinatorVars, clientVars, budgetVars
<1>4. CASE Answered(c)
  BY <1>4 DEF Answered, groupVars, coordinatorVars, clientVars, storeVars, budgetVars
<1>5. CASE Commit(c)
  <2>1. committed' \in [Partitions -> Nat]
    BY <1>5 DEF Commit, OffsetsCommittedBy
  <2> QED
    BY <1>5, <2>1 DEF Commit, AllowRebalance, storeVars, budgetVars
<1>6. CASE CommitFails(c)
  <2>1. committed' \in [Partitions -> Nat]
    BY <1>6 DEF CommitFails, OffsetsCommittedBy
  <2>2. faults' \in 0 .. MaxFaults /\ expulsions' \in 0 .. MaxExpulsions
    BY <1>6 DEF CommitFails, Fault, budgetVars
  <2> QED
    BY <1>6, <2>1, <2>2 DEF CommitFails, AllowRebalance, storeVars
<1> QED
  BY <1>1, <1>2, <1>3, <1>4, <1>5, <1>6 DEF Handle

LEMMA FailType ==
  ASSUME TypeOK, NEW c \in Consumers, Fail(c)
  PROVE  TypeOK'
<1> USE PersisterAssumption DEF TypeOK
<1>1. CASE BulkFails(c)
  BY <1>1, FaultType DEF BulkFails, groupVars, coordinatorVars, clientVars, storeVars
<1>2. CASE BulkTimesOut(c)
  <2>1. orphans' \in Seq(SUBSET (Partitions \X (Nat \ {0})))
    BY <1>2, OrphansType DEF BulkTimesOut
  <2>2. /\ phase' \in [Consumers -> {"send", "wait", "commit"}]
        /\ pending' \in [Consumers -> SUBSET (Partitions \X (Nat \ {0}))]
    BY <1>2 DEF BulkTimesOut
  <2> QED
    BY <1>2, <2>1, <2>2 DEF BulkTimesOut, groupVars, coordinatorVars, clientVars, storeVars, budgetVars
<1>3. CASE BulkRejected(c)
  <2>1. dropped' \subseteq Partitions \X Nat
    BY <1>3, BodyType DEF BulkRejected
  <2>2. /\ phase' \in [Consumers -> {"send", "wait", "commit"}]
        /\ pending' \in [Consumers -> SUBSET (Partitions \X (Nat \ {0}))]
    BY <1>3 DEF BulkRejected
  <2> QED
    BY <1>3, <2>1, <2>2, FaultType DEF BulkRejected, groupVars, coordinatorVars, clientVars, storeVars
<1>4. CASE CommitFails(c)
  <2>1. committed' \in [Partitions -> Nat]
    BY <1>4 DEF CommitFails, OffsetsCommittedBy
  <2>2. faults' \in 0 .. MaxFaults /\ expulsions' \in 0 .. MaxExpulsions
    BY <1>4 DEF CommitFails, Fault, budgetVars
  <2> QED
    BY <1>4, <2>1, <2>2 DEF CommitFails, AllowRebalance, storeVars
<1>5. CASE Expelled(c)
  <2>1. expulsions' \in 0 .. MaxExpulsions
    BY <1>5 DEF Expelled
  <2>2. members' \subseteq Consumers /\ owner' \in [Partitions -> Consumers \cup {NoOwner}]
    BY <1>5, DisownType DEF Expelled, Expel
  <2> QED
    BY <1>5, <2>1, <2>2 DEF Expelled, Expel, storeVars, requestVars
<1>6. CASE Crash(c)
  <2>1. members' \subseteq Consumers /\ owner' \in [Partitions -> Consumers \cup {NoOwner}]
    BY <1>6, DisownType DEF Crash, Stop
  <2>2. /\ held' \in [Consumers -> SUBSET Partitions]
        /\ done' \in [Consumers -> [Partitions -> Nat]]
        /\ polled' \in [Consumers -> [Partitions -> Nat]]
        /\ busy' \subseteq Consumers
    BY <1>6 DEF Crash, Stop, NoOffsets
  <2>3. orphans' \in Seq(SUBSET (Partitions \X (Nat \ {0})))
    BY <1>6, OrphansType DEF Crash
  <2>4. /\ phase' \in [Consumers -> {"send", "wait", "commit"}]
        /\ pending' \in [Consumers -> SUBSET (Partitions \X (Nat \ {0}))]
    BY <1>6 DEF Crash
  <2> QED
    BY <1>6, <2>1, <2>2, <2>3, <2>4, FaultType DEF Crash, Stop, storeVars
<1> QED
  BY <1>1, <1>2, <1>3, <1>4, <1>5, <1>6 DEF Fail

LEMMA GroupStepType ==
  ASSUME TypeOK, GroupStep
  PROVE  TypeOK'
<1> USE DEF TypeOK
<1>1. ASSUME NEW c \in Consumers, Join(c)
      PROVE  TypeOK'
  BY <1>1 DEF GroupStep, Join, storeVars, requestVars, budgetVars
<1>2. ASSUME NEW p \in Partitions, NEW c \in Consumers, Assign(p, c)
      PROVE  TypeOK'
  BY <1>2 DEF GroupStep, Assign, storeVars, requestVars, budgetVars
<1>3. ASSUME NEW p \in Partitions, Revoke(p)
      PROVE  TypeOK'
  BY <1>3 DEF GroupStep, Revoke, storeVars, requestVars, budgetVars
<1> QED
  BY <1>1, <1>2, <1>3 DEF GroupStep

LEMMA EnvironmentType ==
  ASSUME TypeOK, Environment
  PROVE  TypeOK'
<1> USE DEF TypeOK
<1>1. ASSUME NEW p \in Partitions, NEW r \in Events \cup {Unparseable}, Arrive(p, r)
      PROVE  TypeOK'
  <2>1. \A s \in Seq(Events \cup {Unparseable}) : Append(s, r) \in Seq(Events \cup {Unparseable})
    OBVIOUS
  <2>2. log' \in [Partitions -> Seq(Events \cup {Unparseable})]
    BY <1>1, <2>1 DEF Arrive
  <2> QED
    BY <1>1, <2>2 DEF Arrive, coordinatorVars, clientVars, storeVars, requestVars, budgetVars
<1>2. ASSUME NEW i \in DOMAIN orphans, NEW b \in orphans[i], IndexLate(i, b)
      PROVE  TypeOK'
  <2> DEFINE Items == SUBSET (Partitions \X (Nat \ {0}))
  <2>1. orphans \in Seq(Items)
    OBVIOUS
  <2>2. orphans[i] \in Items
    BY <2>1
  <2>3. document' \in [Events -> Nat] /\ refused' \subseteq Unindexable
    BY <1>2, <2>2, ExecuteType DEF IndexLate
  <2>4. orphans[i] \ {b} \in Items
    BY <2>2
  <2>5. orphans' \in Seq(Items)
    <3> HIDE DEF Items
    <3> QED
      BY <1>2, <2>1, <2>4 DEF IndexLate
  <2> QED
    BY <1>2, <2>3, <2>5 DEF IndexLate, groupVars, coordinatorVars, clientVars, budgetVars
<1> QED
  BY <1>1, <1>2 DEF Environment

LEMMA InitType == Init => TypeOK
  BY PersisterAssumption DEF Init, GroupInit, NoOffsets, TypeOK

LEMMA StutterType == TypeOK /\ UNCHANGED vars => TypeOK'
  BY DEF TypeOK, vars, groupVars, coordinatorVars, clientVars, storeVars, requestVars, budgetVars

LEMMA NextType == TypeOK /\ [Next]_vars => TypeOK'
  BY HandleType, FailType, GroupStepType, EnvironmentType, StutterType DEF Next

\* The types of the persister's and the group's state hold in every run of Run and
\* bulk, for any number of consumers, partitions, records and failures.
THEOREM TypeCorrect == Spec => []TypeOK
<1>1. Init => TypeOK
  BY InitType
<1>2. TypeOK /\ [Next]_vars => TypeOK'
  BY NextType
<1> QED
  BY <1>1, <1>2, PTL DEF Spec
-----------------------------------------------------------------------------
(* The topic, the documents and what is accounted for only grow *)

LEMMA LogGrows ==
  ASSUME TypeOK, [Next]_vars
  PROVE  \A p \in Partitions :
           /\ Len(log[p]) \in Nat /\ Len(log'[p]) \in Nat
           /\ Len(log[p]) <= Len(log'[p])
           /\ \A o \in 1 .. Len(log[p]) : log'[p][o] = log[p][o]
<1> SUFFICES ASSUME NEW p \in Partitions
             PROVE  /\ Len(log[p]) \in Nat /\ Len(log'[p]) \in Nat
                    /\ Len(log[p]) <= Len(log'[p])
                    /\ \A o \in 1 .. Len(log[p]) : log'[p][o] = log[p][o]
  OBVIOUS
<1>0. log[p] \in Seq(Events \cup {Unparseable})
  BY DEF TypeOK
<1>1. ASSUME NEW q \in Partitions, NEW r \in Events \cup {Unparseable}, Arrive(q, r)
      PROVE  log'[p] = log[p] \/ log'[p] = Append(log[p], r)
  BY <1>1 DEF Arrive, TypeOK
<1>2. CASE log' = log
  BY <1>0, <1>2
<1>3. log' = log \/ \E q \in Partitions, r \in Events \cup {Unparseable} : Arrive(q, r)
  BY DEF Next, Environment, IndexLate, GroupStep, Join, Assign, Revoke, Handle, Poll, PollRecords,
     Send, Index, Answered, Commit, AllowRebalance, Fail, BulkFails, BulkTimesOut, BulkRejected,
     CommitFails, Expelled, Expel, Crash, Stop, vars, groupVars
<1> QED
  BY <1>0, <1>1, <1>2, <1>3

\* Executing an item stores its copy or adds its event to the refused ones.
LEMMA ExecuteGrows ==
  ASSUME TypeOK, NEW b \in Partitions \X (Nat \ {0}), Execute(b)
  PROVE  /\ refused \subseteq refused'
         /\ \A e \in Events : document[e] # 0 => document'[e] # 0
         /\ Record(b) \in Events => Record(b) \in refused' \/ document'[Record(b)] # 0
<1>1. b[2] \in Nat /\ b[2] # 0
  OBVIOUS
<1>2. CASE Record(b) \in Unindexable
  BY <1>2 DEF Execute
<1>3. CASE Record(b) \notin Unindexable
  <2>1. \A e \in Events : document'[e] = IF e = Record(b) THEN b[2] ELSE document[e]
    BY <1>3 DEF Execute, TypeOK
  <2> QED
    BY <1>1, <1>3, <2>1 DEF Execute
<1> QED
  BY <1>2, <1>3

\* The steps that execute an item, and the item.
LEMMA StoreSteps ==
  ASSUME TypeOK, [Next]_vars
  PROVE  \/ UNCHANGED storeVars
         \/ \E b \in Partitions \X (Nat \ {0}) : Execute(b)
<1>1. ASSUME NEW c \in Consumers, NEW b \in pending[c], Index(c, b)
      PROVE  \E a \in Partitions \X (Nat \ {0}) : Execute(a)
  <2>1. b \in Partitions \X (Nat \ {0})
    BY <1>1 DEF TypeOK
  <2> QED
    BY <1>1, <2>1 DEF Index
<1>2. ASSUME NEW i \in DOMAIN orphans, NEW b \in orphans[i], IndexLate(i, b)
      PROVE  \E a \in Partitions \X (Nat \ {0}) : Execute(a)
  <2>1. orphans[i] \in SUBSET (Partitions \X (Nat \ {0}))
    BY DEF TypeOK
  <2> QED
    BY <1>2, <2>1 DEF IndexLate
<1> QED
  BY <1>1, <1>2 DEF Next, Environment, Arrive, GroupStep, Handle, Poll, Send, Answered, Commit, Fail,
     BulkFails, BulkTimesOut, BulkRejected, CommitFails, Expelled, Crash, vars, storeVars

LEMMA AccountedGrows ==
  ASSUME TypeOK, [Next]_vars, NEW p \in Partitions, NEW o \in 1 .. Len(log[p]), Accounted(p, o)
  PROVE  Accounted(p, o)'
<1>1. log'[p][o] = log[p][o]
  BY LogGrows
<1>2. dropped \subseteq dropped'
  BY DEF Next, Environment, Arrive, IndexLate, GroupStep, Handle, Poll, Send, Index, Answered, Commit,
     Fail, BulkFails, BulkTimesOut, BulkRejected, CommitFails, Expelled, Crash, vars
<1>3. /\ refused \subseteq refused'
      /\ \A e \in Events : document[e] # 0 => document'[e] # 0
  BY StoreSteps, ExecuteGrows DEF storeVars
<1> QED
  BY <1>1, <1>2, <1>3 DEF Accounted, Answer

-----------------------------------------------------------------------------
(* Ownership and offsets *)

\* The steps that leave the group alone.
LEMMA GroupSame ==
  ASSUME OwnershipOK, OffsetsOK, UNCHANGED groupVars
  PROVE  OwnershipOK' /\ OffsetsOK'
  BY DEF OwnershipOK, OffsetsOK, groupVars, coordinatorVars, clientVars

LEMMA JoinGroup ==
  ASSUME TypeOK, OwnershipOK, OffsetsOK, NEW c \in Consumers, Join(c)
  PROVE  OwnershipOK' /\ OffsetsOK'
<1> USE DEF Join, TypeOK
<1>1. \A d \in Consumers \ {c} : held'[d] = held[d]
  OBVIOUS
<1>2. held'[c] = {}
  OBVIOUS
<1>3. \A p \in Partitions : owner[p] # c
  BY PersisterAssumption DEF OwnershipOK
<1>4. OwnershipOK'
  BY <1>1, <1>2, <1>3 DEF OwnershipOK
<1>5. OffsetsOK'
  BY <1>1, <1>2 DEF OffsetsOK
<1> QED
  BY <1>4, <1>5

LEMMA AssignGroup ==
  ASSUME TypeOK, OwnershipOK, OffsetsOK, NEW p \in Partitions, NEW c \in Consumers, Assign(p, c)
  PROVE  OwnershipOK' /\ OffsetsOK'
<1> USE PersisterAssumption DEF Assign, TypeOK
<1>1. \A d \in Consumers : \A q \in Partitions :
        IF d = c /\ q = p THEN done'[d][q] = committed[p] /\ polled'[d][q] = committed[p]
        ELSE done'[d][q] = done[d][q] /\ polled'[d][q] = polled[d][q]
  OBVIOUS
<1>2. \A d \in Consumers : held'[d] = IF d = c THEN held[d] \cup {p} ELSE held[d]
  OBVIOUS
<1>3. \A q \in Partitions : owner'[q] = IF q = p THEN c ELSE owner[q]
  OBVIOUS
<1>4. members' = members /\ committed' = committed /\ log' = log /\ busy' = busy
      /\ owner[p] = NoOwner /\ c \in members \ busy
  OBVIOUS
<1>5. OwnershipOK'
  BY <1>1, <1>2, <1>3, <1>4 DEF OwnershipOK
<1>6. OffsetsOK'
  BY <1>1, <1>2, <1>4 DEF OffsetsOK
<1> QED
  BY <1>5, <1>6

LEMMA RevokeGroup ==
  ASSUME TypeOK, OwnershipOK, OffsetsOK, NEW p \in Partitions, Revoke(p)
  PROVE  OwnershipOK' /\ OffsetsOK'
<1>1. PICK c \in members : owner[p] = c
  BY DEF Revoke
<1>2. members \subseteq Consumers /\ NoOwner \notin Consumers
  BY PersisterAssumption DEF TypeOK
<1>3. \A d \in Consumers : held'[d] \subseteq Partitions /\ \A q \in Partitions :
        q \in held'[d] <=> q \in held[d] /\ ~(d = c /\ q = p)
  BY <1>1 DEF Revoke, TypeOK
<1>4. \A q \in Partitions : owner'[q] = IF q = p THEN NoOwner ELSE owner[q]
  BY DEF Revoke, TypeOK
<1>5. /\ members' = members /\ committed' = committed /\ log' = log
      /\ done' = done /\ polled' = polled /\ busy' = busy
  BY DEF Revoke
<1>6. \A d \in members : \A q \in Partitions : q \in held[d] <=> owner[q] = d
  BY DEF OwnershipOK
<1>7. ASSUME NEW d \in members, NEW q \in Partitions
      PROVE  q \in held'[d] <=> owner'[q] = d
  <2>1. CASE q = p /\ d = c
    BY <1>1, <1>2, <1>3, <1>4, <2>1
  <2>2. CASE q = p /\ d # c
    BY <1>1, <1>2, <1>3, <1>4, <1>6, <2>2
  <2>3. CASE q # p
    BY <1>1, <1>2, <1>3, <1>4, <1>6, <2>3
  <2> QED
    BY <2>1, <2>2, <2>3
<1>8. \A q \in Partitions : owner'[q] # NoOwner => owner'[q] \in members'
  BY <1>4, <1>5 DEF OwnershipOK
<1>9. ASSUME NEW d \in members, NEW q \in held'[d]
      PROVE  committed'[q] <= polled'[d][q]
  BY <1>2, <1>3, <1>5, <1>9 DEF OwnershipOK
<1>10. OwnershipOK'
  BY <1>5, <1>7, <1>8, <1>9 DEF OwnershipOK
<1>11. OffsetsOK'
  BY <1>3, <1>5 DEF OffsetsOK
<1> QED
  BY <1>10, <1>11

LEMMA ExpelGroup ==
  ASSUME TypeOK, OwnershipOK, OffsetsOK, NEW c \in Consumers, Expel(c)
  PROVE  OwnershipOK' /\ OffsetsOK'
  BY PersisterAssumption DEF TypeOK, OwnershipOK, OffsetsOK, Expel, Disown

LEMMA StopGroup ==
  ASSUME TypeOK, OwnershipOK, OffsetsOK, NEW c \in Consumers, Stop(c)
  PROVE  OwnershipOK' /\ OffsetsOK'
<1> USE PersisterAssumption DEF TypeOK
<1>1. held'[c] = {}
  BY DEF Stop
<1>2. \A d \in Consumers \ {c} : held'[d] = held[d] /\ done'[d] = done[d] /\ polled'[d] = polled[d]
  BY DEF Stop
<1>3. members' = members \ {c} /\ busy' = busy \ {c} /\ log' = log /\ committed' = committed
  BY DEF Stop
<1>4. \A q \in Partitions : owner'[q] = IF owner[q] = c THEN NoOwner ELSE owner[q]
  BY DEF Stop, Disown
<1>5. OwnershipOK'
  BY <1>1, <1>2, <1>3, <1>4 DEF OwnershipOK
<1>6. OffsetsOK'
  BY <1>1, <1>2, <1>3 DEF OffsetsOK
<1> QED
  BY <1>5, <1>6

LEMMA PollGroup ==
  ASSUME TypeOK, OwnershipOK, OffsetsOK, NEW c \in Consumers, PollRecords(c)
  PROVE  OwnershipOK' /\ OffsetsOK'
<1>1. PICK upTo \in [held[c] -> UNION {0 .. Len(log[p]) : p \in held[c]}] :
        /\ \A p \in held[c] : polled[c][p] <= upTo[p] /\ upTo[p] <= Len(log[p])
        /\ polled' = [polled EXCEPT ![c] =
                        [p \in Partitions |-> IF p \in held[c] THEN upTo[p] ELSE @[p]]]
  BY DEF PollRecords
<1>2. \A d \in Consumers : d # c => polled'[d] = polled[d]
  BY <1>1 DEF TypeOK
<1>3. \A p \in held[c] : polled'[c][p] = upTo[p]
  BY <1>1 DEF TypeOK
<1>4. /\ members' = members /\ owner' = owner /\ committed' = committed /\ log' = log
      /\ held' = held /\ done' = done /\ busy' = busy \cup {c} /\ c \notin busy
  BY DEF PollRecords
<1>5. /\ members \subseteq Consumers /\ held[c] \subseteq Partitions
      /\ \A p \in held[c] : /\ done[c][p] \in Nat /\ polled[c][p] \in Nat /\ upTo[p] \in Nat
                            /\ committed[p] \in Nat
  BY <1>1 DEF TypeOK
<1>6. OwnershipOK'
  <2>1. ASSUME NEW d \in members, NEW p \in held[d]
        PROVE  committed[p] <= polled'[d][p]
    <3>1. committed[p] <= polled[d][p]
      BY DEF OwnershipOK
    <3>2. CASE d = c
      BY <1>1, <1>3, <1>5, <2>1, <3>1, <3>2
    <3>3. CASE d # c
      BY <1>2, <1>5, <3>1, <3>3
    <3> QED
      BY <3>2, <3>3
  <2> QED
    BY <1>4, <2>1 DEF OwnershipOK
<1>7. OffsetsOK'
  <2>1. ASSUME NEW d \in Consumers, NEW p \in held[d]
        PROVE  /\ done[d][p] <= polled'[d][p]
               /\ polled'[d][p] <= Len(log[p])
               /\ d \notin busy' => done[d][p] = polled'[d][p]
    <3>1. /\ done[d][p] <= polled[d][p]
          /\ polled[d][p] <= Len(log[p])
          /\ d \notin busy => done[d][p] = polled[d][p]
      BY DEF OffsetsOK
    <3>2. CASE d = c
      BY <1>1, <1>3, <1>4, <1>5, <2>1, <3>1, <3>2
    <3>3. CASE d # c
      BY <1>2, <1>4, <3>1, <3>3
    <3> QED
      BY <3>2, <3>3
  <2> QED
    BY <1>4, <2>1 DEF OffsetsOK
<1> QED
  BY <1>6, <1>7

\* What CommitRecords of a member leaves in the coordinator.
LEMMA CommittedOffsets ==
  ASSUME TypeOK, OwnershipOK, OffsetsOK, NEW c \in members, NEW p \in Partitions
  PROVE  /\ OffsetsCommittedBy(c)[p] = IF BatchOffsets(c, p) # {} THEN polled[c][p] ELSE committed[p]
         /\ BatchOffsets(c, p) # {} => p \in held[c]
         /\ OffsetsCommittedBy(c)[p] \in Nat
         /\ committed[p] <= OffsetsCommittedBy(c)[p]
         /\ OffsetsCommittedBy(c)[p] <= Len(log[p])
         /\ p \in held[c] => OffsetsCommittedBy(c)[p] <= polled[c][p]
<1>1. c \in Consumers /\ committed[p] \in Nat /\ polled[c][p] \in Nat
  BY DEF TypeOK
<1>2. committed[p] <= Len(log[p])
  BY DEF OffsetsOK
<1>3. p \in held[c] => committed[p] <= polled[c][p]
  BY DEF OwnershipOK
<1>4. p \in held[c] => polled[c][p] <= Len(log[p])
  BY <1>1 DEF OffsetsOK
<1>5. BatchOffsets(c, p) # {} => p \in held[c]
  BY DEF BatchOffsets
<1>6. OffsetsCommittedBy(c)[p] = IF BatchOffsets(c, p) # {} THEN polled[c][p] ELSE committed[p]
  BY DEF OffsetsCommittedBy
<1> QED
  BY <1>1, <1>2, <1>3, <1>4, <1>5, <1>6

\* Commit and CommitFails: Run goes on to AllowRebalance either way.
LEMMA CommitGroup ==
  ASSUME TypeOK, OwnershipOK, OffsetsOK, NEW c \in Consumers, AllowRebalance(c),
         committed' = committed \/ (c \in members /\ committed' = OffsetsCommittedBy(c))
  PROVE  OwnershipOK' /\ OffsetsOK'
<1>1. /\ members' = members /\ owner' = owner /\ log' = log /\ held' = held
      /\ polled' = polled /\ busy' = busy \ {c}
  BY DEF AllowRebalance
<1>2. done'[c] = polled[c] /\ \A d \in Consumers : d # c => done'[d] = done[d]
  BY DEF AllowRebalance, TypeOK
<1>3. members \subseteq Consumers /\ \A d \in Consumers : held[d] \subseteq Partitions
  BY DEF TypeOK
<1>4. ASSUME NEW p \in Partitions
      PROVE  /\ committed'[p] <= Len(log[p])
             /\ \A d \in members : p \in held[d] => committed'[p] <= polled[d][p]
  <2>1. CASE committed' = committed
    BY <2>1 DEF OwnershipOK, OffsetsOK
  <2>2. CASE c \in members /\ committed' = OffsetsCommittedBy(c)
    <3>1. ASSUME NEW d \in members, p \in held[d], d # c
          PROVE  committed'[p] <= polled[d][p]
      <4>1. p \notin held[c]
        BY <2>2, <3>1 DEF OwnershipOK
      <4>2. committed'[p] = committed[p]
        BY <2>2, <4>1, CommittedOffsets
      <4> QED
        BY <3>1, <4>2 DEF OwnershipOK
    <3> QED
      BY <2>2, <3>1, CommittedOffsets
  <2> QED
    BY <2>1, <2>2
<1>5. OwnershipOK'
  BY <1>1, <1>3, <1>4 DEF OwnershipOK
<1>6. OffsetsOK'
  <2>1. ASSUME NEW d \in Consumers, NEW p \in held[d]
        PROVE  /\ done'[d][p] <= polled[d][p]
               /\ polled[d][p] <= Len(log[p])
               /\ d \notin busy' => done'[d][p] = polled[d][p]
    <3>1. /\ done[d][p] <= polled[d][p]
          /\ polled[d][p] <= Len(log[p])
          /\ d \notin busy => done[d][p] = polled[d][p]
      BY <2>1 DEF OffsetsOK
    <3>2. polled[d][p] \in Nat
      BY <1>3, <2>1 DEF TypeOK
    <3> QED
      BY <1>1, <1>2, <3>1, <3>2
  <2> QED
    BY <1>1, <1>4, <2>1 DEF OffsetsOK
<1> QED
  BY <1>5, <1>6

LEMMA ArriveGroup ==
  ASSUME TypeOK, OwnershipOK, OffsetsOK, [Next]_vars,
         NEW p \in Partitions, NEW r, Arrive(p, r)
  PROVE  OwnershipOK' /\ OffsetsOK'
<1>1. UNCHANGED <<coordinatorVars, clientVars>>
  BY DEF Arrive
<1>2. \A q \in Partitions :
        Len(log[q]) \in Nat /\ Len(log'[q]) \in Nat /\ Len(log[q]) <= Len(log'[q])
  BY LogGrows
<1>3. OwnershipOK'
  BY <1>1 DEF OwnershipOK, coordinatorVars, clientVars
<1>4. ASSUME NEW q \in Partitions
      PROVE  committed[q] <= Len(log'[q])
  BY <1>2 DEF OffsetsOK, TypeOK
<1>5. ASSUME NEW d \in Consumers, NEW q \in held[d]
      PROVE  polled[d][q] <= Len(log'[q])
  BY <1>2 DEF OffsetsOK, TypeOK
<1> QED
  BY <1>1, <1>3, <1>4, <1>5 DEF OffsetsOK, coordinatorVars, clientVars

LEMMA GroupInvariant ==
  ASSUME TypeOK, OwnershipOK, OffsetsOK, [Next]_vars
  PROVE  OwnershipOK' /\ OffsetsOK'
<1>1. CASE UNCHANGED groupVars
  BY <1>1, GroupSame
<1>2. CASE GroupStep
  BY <1>2, JoinGroup, AssignGroup, RevokeGroup DEF GroupStep
<1>3. ASSUME NEW c \in Consumers, Commit(c) \/ CommitFails(c)
      PROVE  OwnershipOK' /\ OffsetsOK'
  BY <1>3, CommitGroup DEF Commit, CommitFails
<1>4. ASSUME NEW c \in Consumers, Handle(c)
      PROVE  OwnershipOK' /\ OffsetsOK'
  BY <1>1, <1>3, <1>4, PollGroup DEF Handle, Poll, Send, Index, Answered
<1>5. ASSUME NEW c \in Consumers, Fail(c)
      PROVE  OwnershipOK' /\ OffsetsOK'
  BY <1>1, <1>3, <1>5, ExpelGroup, StopGroup
     DEF Fail, BulkFails, BulkTimesOut, BulkRejected, Expelled, Crash
<1>6. CASE Environment
  BY <1>1, <1>6, ArriveGroup DEF Environment, IndexLate
<1> QED
  BY <1>1, <1>2, <1>4, <1>5, <1>6 DEF Next, vars
-----------------------------------------------------------------------------
(* The records of a batch *)

LEMMA BatchBounds ==
  ASSUME TypeOK, OffsetsOK, NEW c \in Consumers, NEW p \in Partitions, NEW o \in BatchOffsets(c, p)
  PROVE  /\ p \in held[c]
         /\ o \in Nat /\ done[c][p] < o /\ o <= polled[c][p]
         /\ o \in 1 .. Len(log[p])
<1>1. p \in held[c] /\ o \in (done[c][p] + 1) .. polled[c][p]
  BY DEF BatchOffsets
<1>2. done[c][p] \in Nat /\ polled[c][p] \in Nat /\ Len(log[p]) \in Nat
  BY DEF TypeOK
<1>3. polled[c][p] <= Len(log[p])
  BY <1>1 DEF OffsetsOK
<1> QED
  BY <1>1, <1>2, <1>3

LEMMA BodyMembers ==
  ASSUME NEW c, NEW p \in Partitions, NEW o
  PROVE  <<p, o>> \in Body(c) <=> o \in BatchOffsets(c, p) /\ log[p][o] \in Events
  BY DEF Body, Record

\* A step of one consumer leaves the others' requests and batches alone.
LEMMA Frame ==
  ASSUME TypeOK, NEW c \in Consumers, Handle(c) \/ Fail(c),
         NEW d \in Consumers, d # c
  PROVE  /\ phase'[d] = phase[d] /\ pending'[d] = pending[d]
         /\ held'[d] = held[d] /\ done'[d] = done[d] /\ polled'[d] = polled[d]
         /\ d \in busy' <=> d \in busy
<1> USE DEF TypeOK
<1>1. CASE Poll(c) \/ Send(c) \/ Answered(c)
  BY <1>1 DEF Poll, PollRecords, Send, Answered, requestVars, groupVars, clientVars
<1>2. ASSUME NEW b \in pending[c], Index(c, b)
      PROVE  /\ phase'[d] = phase[d] /\ pending'[d] = pending[d]
             /\ held'[d] = held[d] /\ done'[d] = done[d] /\ polled'[d] = polled[d]
             /\ d \in busy' <=> d \in busy
  BY <1>2 DEF Index, groupVars, clientVars
<1>3. CASE Commit(c) \/ CommitFails(c)
  BY <1>3 DEF Commit, CommitFails, AllowRebalance
<1>4. CASE BulkFails(c) \/ BulkTimesOut(c) \/ BulkRejected(c)
  BY <1>4 DEF BulkFails, BulkTimesOut, BulkRejected, groupVars, clientVars
<1>5. CASE Expelled(c)
  BY <1>5 DEF Expelled, Expel, requestVars
<1>6. CASE Crash(c)
  BY <1>6 DEF Crash, Stop
<1> QED
  BY <1>1, <1>2, <1>3, <1>4, <1>5, <1>6 DEF Handle, Fail

\* Nor does a step of the environment or of the coordinator; the coordinator
\* changes what idle consumers hold.
LEMMA FrameOthers ==
  ASSUME TypeOK, Environment \/ GroupStep \/ UNCHANGED vars
  PROVE  /\ phase' = phase /\ pending' = pending
         /\ busy' = busy
         /\ \A d \in busy : done'[d] = done[d] /\ polled'[d] = polled[d] /\ held'[d] \subseteq held[d]
<1>1. CASE Environment \/ UNCHANGED vars
  BY <1>1 DEF Environment, Arrive, IndexLate, vars, groupVars, clientVars, requestVars
<1>2. CASE GroupStep
  <2>1. phase' = phase /\ pending' = pending
    BY <1>2 DEF GroupStep, requestVars
  <2>2. ASSUME NEW c \in Consumers, Join(c)
        PROVE  /\ busy' = busy
               /\ \A d \in busy : done'[d] = done[d] /\ polled'[d] = polled[d] /\ held'[d] \subseteq held[d]
    BY <2>2 DEF Join, TypeOK
  <2>3. ASSUME NEW p \in Partitions, NEW c \in Consumers, Assign(p, c)
        PROVE  /\ busy' = busy
               /\ \A d \in busy : done'[d] = done[d] /\ polled'[d] = polled[d] /\ held'[d] \subseteq held[d]
    BY <2>3 DEF Assign, TypeOK
  <2>4. ASSUME NEW p \in Partitions, Revoke(p)
        PROVE  /\ busy' = busy
               /\ \A d \in busy : done'[d] = done[d] /\ polled'[d] = polled[d] /\ held'[d] \subseteq held[d]
    BY <2>4 DEF Revoke, TypeOK
  <2> QED
    BY <1>2, <2>1, <2>2, <2>3, <2>4 DEF GroupStep
<1> QED
  BY <1>1, <1>2

-----------------------------------------------------------------------------
(* The items of a request *)

LEMMA ItemsInvariant ==
  ASSUME TypeOK, OffsetsOK, ItemsOK, [Next]_vars
  PROVE  ItemsOK'
<1> DEFINE IsItem(b) == b[2] \in 1 .. Len(log[b[1]]) /\ Record(b) \in Events
<1>1. ASSUME NEW b \in Partitions \X (Nat \ {0}), IsItem(b)
      PROVE  IsItem(b)'
  <2>1. b[1] \in Partitions
    OBVIOUS
  <2>2. /\ Len(log[b[1]]) \in Nat /\ Len(log'[b[1]]) \in Nat
        /\ Len(log[b[1]]) <= Len(log'[b[1]])
        /\ log'[b[1]][b[2]] = log[b[1]][b[2]]
    BY <1>1, <2>1, LogGrows
  <2>3. b[2] \in 1 .. Len(log'[b[1]])
    BY <1>1, <2>2
  <2> QED
    BY <1>1, <2>2, <2>3 DEF Record
<1>2. ASSUME NEW c \in Consumers, NEW b \in Body(c)
      PROVE  b \in Partitions \X (Nat \ {0}) /\ IsItem(b)
  <2>1. PICK p \in Partitions : b \in {p} \X BatchOffsets(c, p)
    BY DEF Body
  <2>2. PICK o \in BatchOffsets(c, p) : b = <<p, o>>
    BY <2>1
  <2>3. o \in 1 .. Len(log[p]) /\ o \in Nat \ {0}
    BY BatchBounds, LogGrows
  <2>4. Record(b) \in Events
    BY DEF Body
  <2> QED
    BY <2>2, <2>3, <2>4
<1>3. ASSUME NEW d \in Consumers, NEW b \in pending'[d]
      PROVE  b \in pending[d] \/ (Send(d) /\ b \in Body(d))
  <2>1. CASE Environment \/ GroupStep \/ UNCHANGED vars
    BY <1>3, <2>1, FrameOthers
  <2>2. ASSUME NEW c \in Consumers, Handle(c) \/ Fail(c), c # d
        PROVE  b \in pending[d]
    BY <1>3, <2>2, Frame
  <2>3. CASE Handle(d) \/ Fail(d)
    BY <1>3, <2>3 DEF TypeOK, Handle, Poll, Send, Index, Answered, Commit, Fail, BulkFails, BulkTimesOut,
       BulkRejected, CommitFails, Expelled, Crash, requestVars
  <2> QED
    BY <2>1, <2>2, <2>3 DEF Next
<1>4. ASSUME NEW d \in Consumers, NEW b \in pending'[d]
      PROVE  IsItem(b)'
  <2>1. CASE b \in pending[d]
    <3>1. b \in Partitions \X (Nat \ {0})
      BY <2>1 DEF TypeOK
    <3>2. IsItem(b)
      BY <2>1 DEF ItemsOK
    <3> QED
      BY <1>1, <3>1, <3>2
  <2>2. CASE b \in Body(d)
    BY <1>1, <1>2, <2>2
  <2> QED
    BY <1>3, <1>4, <2>1, <2>2
<1> QED
  BY <1>4 DEF ItemsOK

-----------------------------------------------------------------------------
(* Every record of a batch is accounted for or in hand *)

\* A record that is in hand stays so when its consumer's request does not move.
LEMMA InHandFrame ==
  ASSUME TypeOK, OffsetsOK, BatchOK, [Next]_vars,
         NEW d \in busy, NEW p \in Partitions, NEW o \in BatchOffsets(d, p),
         phase'[d] = phase[d], pending'[d] = pending[d]
  PROVE  InHand(d, p, o)'
<1>1. d \in Consumers
  BY DEF TypeOK
<1>2. o \in 1 .. Len(log[p])
  BY <1>1, BatchBounds
<1>3. Accounted(p, o) => Accounted(p, o)'
  BY <1>2, AccountedGrows
<1>4. InHand(d, p, o)
  BY DEF BatchOK
<1> QED
  BY <1>3, <1>4 DEF InHand

LEMMA BatchInvariant ==
  ASSUME TypeOK, OffsetsOK, ItemsOK, BatchOK, [Next]_vars
  PROVE  BatchOK'
<1>0. busy \subseteq Consumers /\ busy' \subseteq Consumers
  BY NextType DEF TypeOK
<1>1. CASE Environment \/ GroupStep \/ UNCHANGED vars
  <2>1. /\ phase' = phase /\ pending' = pending /\ busy' = busy
        /\ \A d \in busy : done'[d] = done[d] /\ polled'[d] = polled[d] /\ held'[d] \subseteq held[d]
    BY <1>1, FrameOthers
  <2>2. ASSUME NEW d \in busy, NEW p \in Partitions, NEW o \in BatchOffsets(d, p)'
        PROVE  InHand(d, p, o)'
    <3>1. o \in BatchOffsets(d, p)
      BY <2>1, <2>2 DEF BatchOffsets
    <3> QED
      BY <2>1, <3>1, InHandFrame
  <2> QED
    BY <2>1, <2>2 DEF BatchOK
<1>2. ASSUME NEW c \in Consumers, Handle(c) \/ Fail(c)
      PROVE  BatchOK'
  <2>1. ASSUME NEW d \in busy', d # c, NEW p \in Partitions, NEW o \in BatchOffsets(d, p)'
        PROVE  InHand(d, p, o)'
    <3>1. d \in busy /\ o \in BatchOffsets(d, p)
      BY <1>0, <1>2, <2>1, Frame DEF BatchOffsets
    <3> QED
      BY <1>0, <1>2, <2>1, <3>1, Frame, InHandFrame
  <2>2. ASSUME NEW d \in Consumers \ busy', d # c
        PROVE  phase'[d] = "send"
    BY <1>2, <2>2, Frame DEF BatchOK
  <2>3. CASE Poll(c)
    <3>1. phase'[c] = "send" /\ c \in busy'
      BY <2>3 DEF Poll, PollRecords, requestVars, BatchOK
    <3> QED
      BY <2>1, <2>2, <3>1 DEF BatchOK, InHand
  <2>4. CASE Commit(c) \/ BulkFails(c) \/ BulkTimesOut(c) \/ CommitFails(c) \/ Crash(c)
    <3>1. phase'[c] = "send"
      BY <2>4 DEF Commit, BulkFails, BulkTimesOut, CommitFails, Crash, TypeOK
    <3> QED
      BY <2>1, <2>2, <3>1 DEF BatchOK, InHand
  <2>5. CASE Expelled(c)
    <3>1. phase' = phase /\ pending' = pending /\ UNCHANGED clientVars
      BY <2>5 DEF Expelled, Expel, clientVars, requestVars
    <3>2. ASSUME c \in busy, NEW p \in Partitions, NEW o \in BatchOffsets(c, p)'
          PROVE  InHand(c, p, o)'
      <4>1. o \in BatchOffsets(c, p)
        BY <3>1, <3>2 DEF BatchOffsets, clientVars
      <4> QED
        BY <3>1, <3>2, <4>1, InHandFrame
    <3> QED
      BY <2>1, <2>2, <3>1, <3>2 DEF BatchOK, clientVars
  <2>6. ASSUME c \in busy, UNCHANGED <<groupVars>>,
               \A p \in Partitions : \A o \in BatchOffsets(c, p) : InHand(c, p, o)'
        PROVE  BatchOK'
    <3>1. c \in busy' /\ \A p \in Partitions : BatchOffsets(c, p)' = BatchOffsets(c, p)
      BY <2>6 DEF groupVars, clientVars, BatchOffsets
    <3> QED
      BY <2>1, <2>2, <2>6, <3>1 DEF BatchOK
  <2>7. ASSUME NEW p \in Partitions, NEW o \in BatchOffsets(c, p), c \in busy
        PROVE  /\ InHand(c, p, o)
               /\ log'[p][o] = log[p][o]
               /\ Accounted(p, o) => Accounted(p, o)'
               /\ log[p][o] \notin Events => Accounted(p, o)
               /\ <<p, o>> \in Body(c) <=> log[p][o] \in Events
    <3>1. o \in 1 .. Len(log[p])
      BY BatchBounds
    <3>2. log[p] \in Seq(Events \cup {Unparseable})
      BY DEF TypeOK
    <3>3. log[p][o] \in Events \cup {Unparseable}
      BY <3>1, <3>2
    <3> QED
      BY <2>7, <3>1, <3>3, LogGrows, AccountedGrows, BodyMembers DEF BatchOK, Accounted, Answer
  <2>8. CASE Send(c)
    <3>1. /\ c \in busy /\ UNCHANGED groupVars
          /\ pending'[c] = Body(c)
          /\ phase'[c] = IF Body(c) = {} THEN "commit" ELSE "wait"
      BY <2>8 DEF Send, TypeOK
    <3>2. ASSUME NEW p \in Partitions, NEW o \in BatchOffsets(c, p)
          PROVE  InHand(c, p, o)'
      <4>1. CASE log[p][o] \in Events
        BY <2>7, <3>1, <4>1 DEF InHand
      <4>2. CASE log[p][o] \notin Events
        BY <2>7, <3>1, <4>2 DEF InHand
      <4> QED
        BY <4>1, <4>2
    <3> QED
      BY <2>6, <3>1, <3>2
  <2>9. ASSUME NEW b \in pending[c], Index(c, b)
        PROVE  BatchOK'
    <3>1. /\ phase[c] = "wait" /\ c \in busy /\ UNCHANGED groupVars
          /\ phase'[c] = "wait" /\ pending'[c] = pending[c] \ {b} /\ Execute(b)
      BY <2>9 DEF Index, BatchOK, TypeOK
    <3>2. b \in Partitions \X (Nat \ {0}) /\ Record(b) \in Events
      BY DEF TypeOK, ItemsOK
    <3>3. Record(b) \in refused' \/ document'[Record(b)] # 0
      BY <3>1, <3>2, ExecuteGrows
    <3>4. ASSUME NEW p \in Partitions, NEW o \in BatchOffsets(c, p)
          PROVE  InHand(c, p, o)'
      <4>1. CASE <<p, o>> = b
        <5>1. Record(b) = log'[p][o]
          BY <2>7, <3>1, <4>1 DEF Record
        <5>2. Accounted(p, o)'
          BY <3>2, <3>3, <5>1 DEF Accounted, Answer
        <5> QED
          BY <5>2 DEF InHand
      <4>2. CASE <<p, o>> # b
        BY <2>7, <3>1, <4>2 DEF InHand
      <4> QED
        BY <4>1, <4>2
    <3> QED
      BY <2>6, <3>1, <3>4
  <2>10. CASE Answered(c)
    <3>1. c \in busy /\ UNCHANGED groupVars /\ phase[c] = "wait" /\ pending[c] = {}
      BY <2>10 DEF Answered, NoRetryableItem
    <3>2. ASSUME NEW p \in Partitions, NEW o \in BatchOffsets(c, p)
          PROVE  InHand(c, p, o)'
      BY <2>7, <3>1 DEF InHand
    <3> QED
      BY <2>6, <3>1, <3>2
  <2>11. CASE BulkRejected(c)
    <3>1. c \in busy /\ UNCHANGED groupVars /\ dropped' = dropped \cup Body(c)
      BY <2>11 DEF BulkRejected
    <3>2. ASSUME NEW p \in Partitions, NEW o \in BatchOffsets(c, p)
          PROVE  InHand(c, p, o)'
      <4>1. Accounted(p, o)'
        BY <2>7, <3>1 DEF Accounted
      <4> QED
        BY <4>1 DEF InHand
    <3> QED
      BY <2>6, <3>1, <3>2
  <2> QED
    BY <1>2, <2>3, <2>4, <2>5, <2>8, <2>9, <2>10, <2>11 DEF Handle, Fail
<1> QED
  BY <1>1, <1>2 DEF Next

-----------------------------------------------------------------------------
(* Nothing is lost *)

LEMMA CommitReady ==
  ASSUME TypeOK, OffsetsOK, FinishedOK, BatchOK,
         NEW c \in busy, phase[c] = "commit", NEW p \in held[c], NEW o \in 1 .. polled[c][p]
  PROVE  Accounted(p, o)
<1>1. c \in Consumers /\ p \in Partitions /\ done[c][p] \in Nat /\ polled[c][p] \in Nat
  BY DEF TypeOK
<1>2. CASE o <= done[c][p]
  BY <1>1, <1>2 DEF FinishedOK
<1>3. CASE done[c][p] < o
  <2>1. o \in BatchOffsets(c, p)
    BY <1>1, <1>3 DEF BatchOffsets
  <2>2. InHand(c, p, o)
    BY <1>1, <2>1 DEF BatchOK
  <2> QED
    BY <2>2 DEF InHand
<1> QED
  BY <1>1, <1>2, <1>3

LEMMA FinishedInvariant ==
  ASSUME TypeOK, OffsetsOK, NeverLost, FinishedOK, BatchOK, [Next]_vars
  PROVE  FinishedOK'
<1> SUFFICES ASSUME NEW c \in Consumers, NEW p \in held'[c], NEW o \in 1 .. done'[c][p]
             PROVE  Accounted(p, o)'
  BY DEF FinishedOK
<1>0. p \in Partitions /\ done'[c][p] \in Nat
  BY NextType DEF TypeOK
<1>1. ASSUME p \in held[c], o \in 1 .. done[c][p]
      PROVE  Accounted(p, o)'
  <2>1. Accounted(p, o)
    BY <1>1 DEF FinishedOK
  <2>2. o \in 1 .. Len(log[p])
    BY <1>0, <1>1, LogGrows DEF OffsetsOK, TypeOK
  <2> QED
    BY <1>0, <2>1, <2>2, AccountedGrows
<1>2. ASSUME NEW q \in Partitions, NEW d \in Consumers, Assign(q, d)
      PROVE  Accounted(p, o)'
  <2>1. CASE c = d /\ p = q
    <3>1. done'[c][p] = committed[p]
      BY <1>2, <2>1 DEF Assign, TypeOK
    <3>2. Accounted(p, o)
      BY <1>0, <3>1 DEF NeverLost
    <3>3. o \in 1 .. Len(log[p])
      BY <1>0, <3>1, LogGrows DEF OffsetsOK, TypeOK
    <3> QED
      BY <1>0, <3>2, <3>3, AccountedGrows
  <2>2. CASE ~(c = d /\ p = q)
    <3>1. p \in held[c] /\ done'[c][p] = done[c][p]
      BY <1>0, <1>2, <2>2 DEF Assign, TypeOK
    <3> QED
      BY <1>1, <3>1
  <2> QED
    BY <2>1, <2>2
<1>3. ASSUME NEW d \in Consumers, AllowRebalance(d) /\ d \in busy /\ phase[d] = "commit"
      PROVE  Accounted(p, o)'
  <2>1. held'[c] = held[c]
    BY <1>3 DEF AllowRebalance
  <2>2. CASE c = d
    <3>1. done'[c][p] = polled[c][p] /\ c \in busy /\ phase[c] = "commit"
      BY <1>3, <2>2 DEF AllowRebalance, TypeOK
    <3>2. Accounted(p, o)
      BY <2>1, <3>1, CommitReady
    <3>3. o \in 1 .. Len(log[p])
      BY <1>0, <2>1, <3>1, LogGrows DEF OffsetsOK, TypeOK
    <3> QED
      BY <1>0, <3>2, <3>3, AccountedGrows
  <2>3. CASE c # d
    BY <1>1, <1>3, <2>1, <2>3 DEF AllowRebalance, TypeOK
  <2> QED
    BY <2>2, <2>3
<1>4. ASSUME NEW d \in Consumers, Crash(d)
      PROVE  Accounted(p, o)'
  <2>1. c # d /\ held'[c] = held[c] /\ done'[c] = done[c]
    BY <1>4 DEF Crash, Stop, TypeOK
  <2> QED
    BY <1>1, <2>1
<1>5. ASSUME NEW d \in Consumers, Handle(d) \/ Fail(d), ~Commit(d), ~CommitFails(d), ~Crash(d)
      PROVE  Accounted(p, o)'
  <2>1. UNCHANGED <<held, done>>
    BY <1>5 DEF Handle, Fail, Poll, PollRecords, Send, Index, Answered, BulkFails, BulkTimesOut,
       BulkRejected, Expelled, Expel, groupVars, clientVars
  <2> QED
    BY <1>1, <2>1
<1>6. ASSUME NEW d \in Consumers, Join(d)
      PROVE  Accounted(p, o)'
  BY <1>1, <1>6 DEF Join, TypeOK
<1>7. ASSUME NEW q \in Partitions, Revoke(q)
      PROVE  Accounted(p, o)'
  BY <1>1, <1>7 DEF Revoke, TypeOK
<1>8. CASE Environment \/ UNCHANGED vars
  BY <1>1, <1>8 DEF Environment, Arrive, IndexLate, vars, groupVars, clientVars
<1> QED
  BY <1>2, <1>3, <1>4, <1>5, <1>6, <1>7, <1>8 DEF Next, GroupStep, Commit, CommitFails

LEMMA NeverLostInvariant ==
  ASSUME TypeOK, OwnershipOK, OffsetsOK, NeverLost, FinishedOK, BatchOK, [Next]_vars
  PROVE  NeverLost'
<1> SUFFICES ASSUME NEW p \in Partitions, NEW o \in 1 .. committed'[p]
             PROVE  Accounted(p, o)'
  BY DEF NeverLost
<1>1. ASSUME committed'[p] = committed[p]
      PROVE  Accounted(p, o)'
  <2>1. Accounted(p, o)
    BY <1>1 DEF NeverLost
  <2>2. o \in 1 .. Len(log[p])
    BY <1>1, LogGrows DEF OffsetsOK, TypeOK
  <2> QED
    BY <2>1, <2>2, AccountedGrows
<1>2. ASSUME NEW c \in busy, c \in members, phase[c] = "commit", committed' = OffsetsCommittedBy(c)
      PROVE  Accounted(p, o)'
  <2>1. CASE BatchOffsets(c, p) # {}
    <3>1. committed'[p] = polled[c][p] /\ p \in held[c]
      BY <1>2, <2>1, CommittedOffsets
    <3>2. Accounted(p, o)
      BY <1>2, <3>1, CommitReady
    <3>3. c \in Consumers /\ polled[c][p] \in Nat /\ polled[c][p] <= Len(log[p])
      BY <3>1 DEF OffsetsOK, TypeOK
    <3>4. o \in 1 .. Len(log[p])
      BY <3>1, <3>3, LogGrows
    <3> QED
      BY <3>2, <3>4, AccountedGrows
  <2>2. CASE BatchOffsets(c, p) = {}
    BY <1>1, <1>2, <2>2, CommittedOffsets
  <2> QED
    BY <2>1, <2>2
<1>3. \/ committed' = committed
      \/ \E c \in busy : c \in members /\ phase[c] = "commit" /\ committed' = OffsetsCommittedBy(c)
  BY DEF Next, Environment, Arrive, IndexLate, GroupStep, Join, Assign, Revoke, Handle, Poll, PollRecords,
     Send, Index, Answered, Commit, Fail, BulkFails, BulkTimesOut, BulkRejected, CommitFails, Expelled,
     Expel, Crash, Stop, vars, groupVars, coordinatorVars
<1> QED
  BY <1>1, <1>2, <1>3

LEMMA InitIInv == Init => IInv
<1> SUFFICES ASSUME Init PROVE IInv
  OBVIOUS
<1>1. OwnershipOK /\ OffsetsOK
  BY DEF Init, GroupInit, NoOffsets, OwnershipOK, OffsetsOK
<1>2. NeverLost /\ FinishedOK
  BY DEF Init, GroupInit, NoOffsets, NeverLost, FinishedOK
<1>3. ItemsOK /\ BatchOK
  BY DEF Init, GroupInit, ItemsOK, BatchOK
<1> QED
  BY <1>1, <1>2, <1>3 DEF IInv

LEMMA NextIInv == TypeOK /\ IInv /\ [Next]_vars => IInv'
  BY GroupInvariant, NeverLostInvariant, FinishedInvariant, ItemsInvariant, BatchInvariant DEF IInv

\* The inductive invariant of the persister: after every item of every attempt each
\* record of the batch is accounted for or still in the request, and what Run leaves
\* behind with a failed commit is accounted for.
THEOREM Inductive == Spec => []IInv
<1>1. Init => IInv
  BY InitIInv
<1>2. TypeOK /\ IInv /\ [Next]_vars => IInv'
  BY NextIInv
<1> QED
  BY <1>1, <1>2, TypeCorrect, PTL DEF Spec

\* No committed event is missing from the index unless OpenSearch refused it or the log
\* names it as part of a dropped batch, whichever items, commits and pods fail.
THEOREM NothingIsLost == Spec => []NeverLost
<1>1. IInv => NeverLost
  BY DEF IInv
<1> QED
  BY <1>1, Inductive, PTL

-----------------------------------------------------------------------------
(* The persister implements AtLeastOnce *)

LEMMA SettledIff ==
  ASSUME NEW p, NEW o
  PROVE  <<p, o>> \in Settled <=> p \in Partitions /\ o \in 1 .. Len(log[p]) /\ Accounted(p, o)
  BY DEF Settled

LEMMA SettledPairs ==
  ASSUME NEW b \in Settled
  PROVE  \E p \in Partitions : \E o \in 1 .. Len(log[p]) : b = <<p, o>> /\ Accounted(p, o)
  BY DEF Settled

LEMMA SettledGrows ==
  ASSUME TypeOK, [Next]_vars
  PROVE  Settled \subseteq Settled'
<1> SUFFICES ASSUME NEW b \in Settled PROVE b \in Settled'
  OBVIOUS
<1>1. PICK p \in Partitions : \E o \in 1 .. Len(log[p]) : b = <<p, o>> /\ Accounted(p, o)
  BY SettledPairs
<1>2. PICK o \in 1 .. Len(log[p]) : b = <<p, o>> /\ Accounted(p, o)
  BY <1>1
<1>3. o \in 1 .. Len(log'[p])
  BY LogGrows
<1>4. Accounted(p, o)'
  BY <1>2, AccountedGrows
<1> QED
  BY <1>2, <1>3, <1>4 DEF Settled

LEMMA ArriveRefines ==
  ASSUME TypeOK, TypeOK', [Next]_vars,
         NEW p \in Partitions, NEW r \in Events \cup {Unparseable}, Arrive(p, r)
  PROVE  Promise!Arrive(p)
<1>1. /\ log' = [log EXCEPT ![p] = Append(@, r)]
      /\ storeVars' = storeVars /\ dropped' = dropped /\ committed' = committed
  BY DEF Arrive, coordinatorVars, storeVars
<1>2. \A q \in Partitions : log[q] \in Seq(Events \cup {Unparseable})
  BY DEF TypeOK
<1>3. /\ Len(log[p]) \in Nat /\ Len(log'[p]) = Len(log[p]) + 1
      /\ \A q \in Partitions : q # p => log'[q] = log[q]
  BY <1>1, <1>2 DEF TypeOK
<1>4. Arrived' = [Arrived EXCEPT ![p] = @ + 1]
  BY <1>3 DEF Arrived
<1>5. Settled \subseteq Settled'
  BY SettledGrows
<1>6. ASSUME NEW b \in Settled', b \notin Settled
      PROVE  b = <<p, Arrived[p] + 1>>
  <2>1. PICK q \in Partitions : \E o \in 1 .. Len(log'[q]) : b = <<q, o>> /\ Accounted(q, o)'
    BY <1>6 DEF Settled
  <2>2. PICK o \in 1 .. Len(log'[q]) : b = <<q, o>> /\ Accounted(q, o)'
    BY <2>1
  <2>3. CASE o \in 1 .. Len(log[q])
    <3>1. log'[q][o] = log[q][o]
      BY <2>3, LogGrows
    <3>2. Accounted(q, o)
      BY <1>1, <2>2, <3>1 DEF Accounted, Answer, storeVars
    <3> QED
      BY <1>6, <2>2, <2>3, <3>2 DEF Settled
  <2>4. CASE o \notin 1 .. Len(log[q])
    <3>1. q = p /\ o = Len(log[p]) + 1
      BY <1>3, <2>4
    <3> QED
      BY <2>2, <3>1 DEF Arrived
  <2> QED
    BY <2>3, <2>4
<1>7. Settled' = Settled \/ Settled' = Settled \cup {<<p, Arrived[p] + 1>>}
  BY <1>5, <1>6
<1> QED
  BY <1>1, <1>4, <1>7 DEF Promise!Arrive

\* The steps that neither commit nor append to the topic.
LEMMA SettleRefines ==
  ASSUME TypeOK, [Next]_vars, log' = log, committed' = committed
  PROVE  Promise!Settle
<1>1. Settled \subseteq Settled'
  BY SettledGrows
<1>2. Arrived' = Arrived
  BY DEF Arrived
<1>3. ASSUME NEW b \in Settled'
      PROVE  b[1] \in Partitions /\ b[2] \in 1 .. Arrived[b[1]]
  <2>1. PICK q \in Partitions : \E o \in 1 .. Len(log[q]) : b = <<q, o>>
    BY <1>3 DEF Settled
  <2>2. PICK o \in 1 .. Len(log[q]) : b = <<q, o>>
    BY <2>1
  <2> QED
    BY <2>2 DEF Arrived
<1> QED
  BY <1>1, <1>2, <1>3 DEF Promise!Settle

LEMMA CommitRefines ==
  ASSUME TypeOK, TypeOK', OwnershipOK, OffsetsOK, OffsetsOK', NeverLost', [Next]_vars,
         NEW c \in members, committed' = OffsetsCommittedBy(c),
         log' = log, storeVars' = storeVars, dropped' = dropped
  PROVE  Promise!Commit
<1>1. Arrived' = Arrived /\ Settled' = Settled
  BY DEF Arrived, Settled, Accounted, Answer, storeVars
<1>2. committed' \in [Partitions -> Nat]
  BY DEF TypeOK
<1>3. \A p \in Partitions : committed[p] <= committed'[p]
  BY CommittedOffsets
<1>4. ASSUME NEW p \in Partitions, NEW o \in 1 .. committed'[p]
      PROVE  <<p, o>> \in Settled
  <2>1. Accounted(p, o)
    BY DEF NeverLost, Accounted, Answer, storeVars
  <2>2. committed'[p] <= Len(log[p]) /\ committed'[p] \in Nat /\ Len(log[p]) \in Nat
    BY <1>2 DEF OffsetsOK, TypeOK
  <2>3. o \in 1 .. Len(log[p])
    BY <2>2
  <2> QED
    BY <2>1, <2>3, SettledIff
<1> QED
  BY <1>1, <1>2, <1>3, <1>4 DEF Promise!Commit

\* What a step can be for the abstract specification.
LEMMA StepKinds ==
  ASSUME [Next]_vars
  PROVE  \/ \E p \in Partitions, r \in Events \cup {Unparseable} : Arrive(p, r)
         \/ log' = log /\ committed' = committed
         \/ \E c \in members : /\ committed' = OffsetsCommittedBy(c)
                             /\ log' = log /\ storeVars' = storeVars /\ dropped' = dropped
<1>1. ASSUME NEW c \in Consumers, Commit(c)
      PROVE  /\ c \in members /\ committed' = OffsetsCommittedBy(c)
             /\ log' = log /\ storeVars' = storeVars /\ dropped' = dropped
  BY <1>1 DEF Commit, AllowRebalance
<1>2. ASSUME NEW c \in Consumers, CommitFails(c)
      PROVE  \/ log' = log /\ committed' = committed
             \/ /\ c \in members /\ committed' = OffsetsCommittedBy(c)
                /\ log' = log /\ storeVars' = storeVars /\ dropped' = dropped
  BY <1>2 DEF CommitFails, AllowRebalance
<1>3. ASSUME NEW c \in Consumers, Handle(c), ~Commit(c), ~CommitFails(c)
      PROVE  log' = log /\ committed' = committed
  BY <1>3 DEF Handle, Poll, PollRecords, Send, Index, Answered, groupVars, coordinatorVars
<1>4. ASSUME NEW c \in Consumers, Fail(c), ~CommitFails(c)
      PROVE  log' = log /\ committed' = committed
  BY <1>4 DEF Fail, BulkFails, BulkTimesOut, BulkRejected, Expelled, Expel, Crash, Stop,
     groupVars, coordinatorVars
<1>5. ASSUME GroupStep \/ UNCHANGED vars
      PROVE  log' = log /\ committed' = committed
  BY <1>5 DEF GroupStep, Join, Assign, Revoke, vars, groupVars, coordinatorVars
<1>6. ASSUME Environment
      PROVE  \/ \E p \in Partitions, r \in Events \cup {Unparseable} : Arrive(p, r)
             \/ log' = log /\ committed' = committed
  BY <1>6 DEF Environment, IndexLate, groupVars, coordinatorVars
<1> QED
  BY <1>1, <1>2, <1>3, <1>4, <1>5, <1>6 DEF Next

LEMMA StepRefines ==
  ASSUME TypeOK, TypeOK', IInv, IInv', [Next]_vars
  PROVE  [Promise!Next]_(Promise!vars)
<1>1. ASSUME NEW p \in Partitions, NEW r \in Events \cup {Unparseable}, Arrive(p, r)
      PROVE  Promise!Next
  BY <1>1, ArriveRefines DEF Promise!Next
<1>2. CASE log' = log /\ committed' = committed
  BY <1>2, SettleRefines DEF Promise!Next
<1>3. ASSUME NEW c \in members, committed' = OffsetsCommittedBy(c),
             log' = log, storeVars' = storeVars, dropped' = dropped
      PROVE  Promise!Next
  BY <1>3, CommitRefines DEF Promise!Next, IInv
<1> QED
  BY <1>1, <1>2, <1>3, StepKinds

LEMMA InitRefines == Init => Promise!Init
<1> SUFFICES ASSUME Init PROVE Promise!Init
  OBVIOUS
<1>1. \A p \in Partitions : log[p] = << >> /\ Len(log[p]) = 0
  BY DEF Init, GroupInit
<1>2. Settled = {}
  BY <1>1 DEF Settled
<1>3. Arrived = [p \in Partitions |-> 0]
  BY <1>1 DEF Arrived
<1> QED
  BY <1>2, <1>3 DEF Init, GroupInit, NoOffsets, Promise!Init

\* The persister consumes the canonical topic at least once: a commit covers settled
\* records only and never rewinds the group, although Run goes on after a failed one.
THEOREM Implements == Spec => ImplementsAtLeastOnce
<1>1. Init => Promise!Init
  BY InitRefines
<1>2. TypeOK /\ TypeOK' /\ IInv /\ IInv' /\ [Next]_vars => [Promise!Next]_(Promise!vars)
  BY StepRefines
<1> QED
  BY <1>1, <1>2, TypeCorrect, Inductive, PTL DEF Spec, Promise!Spec, ImplementsAtLeastOnce

-----------------------------------------------------------------------------
(* Documents do not go back: the order in which a request is executed *)

LEMMA PlacesInvariant ==
  ASSUME TypeOK, PlacesOK, [Next]_vars
  PROVE  PlacesOK'
<1> SUFFICES ASSUME NEW p \in Partitions, NEW o \in DOMAIN log'[p], log'[p][o] \in Events
             PROVE  PartitionOf[log'[p][o]] = p
  BY DEF PlacesOK
<1>0. log[p] \in Seq(Events \cup {Unparseable})
  BY DEF TypeOK
<1>1. CASE o \in DOMAIN log[p] /\ log'[p][o] = log[p][o]
  BY <1>1 DEF PlacesOK
<1>2. ASSUME NEW q \in Partitions, NEW r \in Events \cup {Unparseable}, Arrive(q, r)
      PROVE  PartitionOf[log'[p][o]] = p
  <2>1. CASE p # q
    <3>1. log'[p] = log[p]
      BY <1>2, <2>1 DEF Arrive, TypeOK
    <3> QED
      BY <1>1, <3>1
  <2>2. CASE p = q
    <3>1. log'[p] = Append(log[p], r) /\ (r \in Events => PartitionOf[r] = p)
      BY <1>2, <2>2 DEF Arrive, TypeOK
    <3>2. CASE o = Len(log[p]) + 1
      BY <1>0, <3>1, <3>2
    <3>3. CASE o # Len(log[p]) + 1
      <4>1. o \in DOMAIN log[p] /\ log'[p][o] = log[p][o]
        BY <1>0, <3>1, <3>3
      <4> QED
        BY <1>1, <4>1
    <3> QED
      BY <3>2, <3>3
  <2> QED
    BY <2>1, <2>2
<1>3. CASE log' = log
  BY <1>1, <1>3
<1>4. log' = log \/ \E q \in Partitions, r \in Events \cup {Unparseable} : Arrive(q, r)
  BY DEF Next, Environment, IndexLate, GroupStep, Join, Assign, Revoke, Handle, Poll, PollRecords,
     Send, Index, Answered, Commit, AllowRebalance, Fail, BulkFails, BulkTimesOut, BulkRejected,
     CommitFails, Expelled, Expel, Crash, Stop, vars, groupVars
<1> QED
  BY <1>2, <1>3, <1>4

\* A batch is open between PollRecords and AllowRebalance: no rebalance changes it.
LEMMA BatchStays ==
  ASSUME TypeOK, Environment \/ GroupStep \/ UNCHANGED vars, NEW d \in busy
  PROVE  held'[d] = held[d]
<1>1. CASE Environment \/ UNCHANGED vars
  BY <1>1 DEF Environment, Arrive, IndexLate, vars, groupVars, clientVars
<1>2. ASSUME NEW c \in Consumers, Join(c)
      PROVE  held'[d] = held[d]
  BY <1>2 DEF Join, TypeOK
<1>3. ASSUME NEW p \in Partitions, NEW c \in Consumers, Assign(p, c)
      PROVE  held'[d] = held[d]
  BY <1>3 DEF Assign, TypeOK
<1>4. ASSUME NEW p \in Partitions, Revoke(p)
      PROVE  held'[d] = held[d]
  BY <1>4 DEF Revoke, TypeOK
<1> QED
  BY <1>1, <1>2, <1>3, <1>4 DEF GroupStep

\* A record of a batch stays what it is.
LEMMA BatchRecords ==
  ASSUME TypeOK, OffsetsOK, [Next]_vars, NEW c \in Consumers, NEW p \in Partitions,
         NEW o \in BatchOffsets(c, p)
  PROVE  log'[p][o] = log[p][o]
  BY BatchBounds, LogGrows

\* An item of a request is a record of the batch.
LEMMA PendingItems ==
  ASSUME RequestsOK, NEW c \in Consumers, NEW b \in pending[c]
  PROVE  /\ b[1] \in Partitions /\ b[2] \in BatchOffsets(c, b[1]) /\ b = <<b[1], b[2]>>
         /\ Record(b) \in Events /\ phase[c] = "wait"
<1>1. b \in Body(c) /\ phase[c] = "wait"
  BY DEF RequestsOK, RequestOK
<1> QED
  BY <1>1 DEF Body

\* A request that loses items only with later ones of the same document left behind,
\* or none, while its batch stays open.
LEMMA RequestFrame ==
  ASSUME TypeOK, OffsetsOK, RequestsOK, [Next]_vars, NEW c \in Consumers,
         phase'[c] = phase[c], pending'[c] \subseteq pending[c],
         \A b \in pending'[c] : \A a \in pending[c] :
           (a[1] = b[1] /\ b[2] <= a[2] /\ Record(a) = Record(b)) => a \in pending'[c],
         pending[c] # {} => held'[c] = held[c] /\ done'[c] = done[c] /\ polled'[c] = polled[c]
  PROVE  RequestOK(c)'
<1> DEFINE Stays == held'[c] = held[c] /\ done'[c] = done[c] /\ polled'[c] = polled[c]
<1>0. ASSUME NEW b \in pending'[c]
      PROVE  b \in pending[c] /\ Stays
  BY <1>0
<1>1. ASSUME NEW p \in Partitions, Stays
      PROVE  BatchOffsets(c, p)' = BatchOffsets(c, p)
  BY <1>1 DEF BatchOffsets
<1>2. ASSUME NEW b \in pending'[c]
      PROVE  b \in Body(c)'
  <2>1. /\ b[1] \in Partitions /\ b[2] \in BatchOffsets(c, b[1]) /\ b = <<b[1], b[2]>>
        /\ Record(b) \in Events
    BY <1>0, PendingItems
  <2>2. log'[b[1]][b[2]] = log[b[1]][b[2]]
    BY <2>1, BatchRecords
  <2>3. b[2] \in BatchOffsets(c, b[1])'
    BY <1>0, <1>1, <2>1
  <2> QED
    BY <2>1, <2>2, <2>3 DEF Body, Record
<1>3. ASSUME NEW b \in pending'[c], NEW o \in BatchOffsets(c, b[1])',
             b[2] <= o, Record(<<b[1], o>>)' = Record(b)'
      PROVE  <<b[1], o>> \in pending'[c]
  <2>1. b[1] \in Partitions /\ b[2] \in BatchOffsets(c, b[1])
    BY <1>0, PendingItems
  <2>2. o \in BatchOffsets(c, b[1])
    BY <1>0, <1>1, <1>3, <2>1
  <2>3. Record(<<b[1], o>>) = Record(b)
    BY <1>3, <2>1, <2>2, BatchRecords DEF Record
  <2>4. <<b[1], o>> \in pending[c]
    BY <1>0, <1>3, <2>2, <2>3 DEF RequestsOK, RequestOK
  <2> QED
    BY <1>3, <2>3, <2>4
<1>4. pending'[c] # {} => phase'[c] = "wait"
  BY DEF RequestsOK, RequestOK
<1>5. pending'[c] \subseteq Body(c)'
  BY <1>2
<1> QED
  BY <1>3, <1>4, <1>5 DEF RequestOK

LEMMA RequestEmpty ==
  ASSUME NEW c, pending'[c] = {}
  PROVE  RequestOK(c)'
  BY DEF RequestOK

LEMMA RequestInvariant ==
  ASSUME TypeOK, OffsetsOK, BatchOK, PlacesOK, RequestsOK, [Next]_vars, NEW c \in Consumers
  PROVE  RequestOK(c)'
<1>0. pending[c] # {} => c \in busy /\ phase[c] = "wait"
  BY DEF RequestsOK, RequestOK, BatchOK
<1>1. CASE Environment \/ GroupStep \/ UNCHANGED vars
  <2>1. phase' = phase /\ pending' = pending
        /\ \A d \in busy : done'[d] = done[d] /\ polled'[d] = polled[d]
    BY <1>1, FrameOthers
  <2>2. c \in busy => held'[c] = held[c]
    BY <1>1, BatchStays
  <2> QED
    BY <1>0, <2>1, <2>2, RequestFrame
<1>2. ASSUME NEW d \in Consumers, Handle(d) \/ Fail(d), d # c
      PROVE  RequestOK(c)'
  BY <1>0, <1>2, Frame, RequestFrame
<1>3. CASE Answered(c) \/ BulkFails(c) \/ BulkTimesOut(c) \/ BulkRejected(c) \/ Crash(c)
  <2>1. pending'[c] = {}
    BY <1>3 DEF Answered, BulkFails, BulkTimesOut, BulkRejected, Crash, TypeOK
  <2> QED
    BY <2>1, RequestEmpty
<1>4. CASE Commit(c) \/ CommitFails(c)
  <2>1. phase[c] = "commit" /\ pending' = pending
    BY <1>4 DEF Commit, CommitFails
  <2>2. pending'[c] = {}
    BY <1>0, <2>1
  <2> QED
    BY <2>2, RequestEmpty
<1>5. CASE Poll(c)
  <2>1. c \notin busy /\ pending' = pending
    BY <1>5 DEF Poll, PollRecords, requestVars
  <2>2. pending'[c] = {}
    BY <1>0, <2>1
  <2> QED
    BY <2>2, RequestEmpty
<1>6. CASE Expelled(c)
  <2>1. pending' = pending /\ phase' = phase /\ UNCHANGED clientVars
    BY <1>6 DEF Expelled, Expel, requestVars, clientVars
  <2> QED
    BY <2>1, RequestFrame DEF clientVars
<1>7. CASE Send(c)
  <2>1. pending'[c] = Body(c) /\ UNCHANGED groupVars
        /\ phase'[c] = IF Body(c) = {} THEN "commit" ELSE "wait"
    BY <1>7 DEF Send, TypeOK
  <2>2. Body(c)' = Body(c) /\ \A p \in Partitions : BatchOffsets(c, p)' = BatchOffsets(c, p)
    BY <2>1 DEF Body, BatchOffsets, Record, groupVars, clientVars
  <2>3. ASSUME NEW b \in Body(c), NEW o \in BatchOffsets(c, b[1]), Record(<<b[1], o>>)' = Record(b)'
        PROVE  <<b[1], o>> \in Body(c)
    <3>1. b[1] \in Partitions /\ Record(b) \in Events
      BY DEF Body
    <3>2. Record(<<b[1], o>>) \in Events
      BY <2>1, <2>3, <3>1 DEF Record, groupVars
    <3> QED
      BY <3>1, <3>2, BodyMembers DEF Record
  <2>4. \A b \in Body(c) : b[1] \in Partitions
    BY DEF Body
  <2> QED
    BY <2>1, <2>2, <2>3, <2>4 DEF RequestOK
<1>8. ASSUME NEW b \in pending[c], Index(c, b)
      PROVE  RequestOK(c)'
  <2>1. /\ phase' = phase /\ UNCHANGED groupVars
        /\ pending'[c] = pending[c] \ {b} /\ b \in NextItems(pending[c])
    BY <1>8 DEF Index, TypeOK
  <2>2. ASSUME NEW b1 \in pending[c] \ {b}, NEW a \in pending[c],
               a[1] = b1[1], b1[2] <= a[2], Record(a) = Record(b1)
        PROVE  a \in pending[c] \ {b}
    <3>1. a = b => b[2] <= b1[2]
      BY <2>1, <2>2 DEF NextItems
    <3>2. /\ a = <<a[1], a[2]>> /\ b1 = <<b1[1], b1[2]>>
          /\ a[2] \in Nat /\ b1[2] \in Nat
      BY <2>2 DEF TypeOK
    <3> QED
      BY <2>2, <3>1, <3>2
  <2> QED
    BY <2>1, <2>2, RequestFrame DEF groupVars, clientVars
<1> QED
  BY <1>1, <1>2, <1>3, <1>4, <1>5, <1>6, <1>7, <1>8 DEF Next, Handle, Fail

LEMMA CommitsBehindInvariant ==
  ASSUME TypeOK, OwnershipOK, OffsetsOK, CommitsBehind, [Next]_vars
  PROVE  CommitsBehind'
<1> SUFFICES ASSUME NEW c \in members', NEW p \in held'[c]
             PROVE  committed'[p] <= done'[c][p]
  BY DEF CommitsBehind
<1>0. c \in Consumers /\ p \in Partitions
  BY NextType DEF TypeOK
<1>1. ASSUME c \in members, p \in held[c], committed'[p] = committed[p], done'[c][p] = done[c][p]
      PROVE  committed'[p] <= done'[c][p]
  BY <1>1 DEF CommitsBehind
<1>2. ASSUME NEW q \in Partitions, NEW d \in Consumers, Assign(q, d)
      PROVE  committed'[p] <= done'[c][p]
  <2>1. committed' = committed /\ members' = members
    BY <1>2 DEF Assign
  <2>2. CASE c = d /\ p = q
    <3>1. done'[c][p] = committed[p]
      BY <1>0, <1>2, <2>2 DEF Assign, TypeOK
    <3> QED
      BY <1>0, <2>1, <3>1 DEF TypeOK
  <2>3. CASE ~(c = d /\ p = q)
    <3>1. p \in held[c] /\ done'[c][p] = done[c][p]
      BY <1>0, <1>2, <2>3 DEF Assign, TypeOK
    <3> QED
      BY <1>1, <2>1, <3>1
  <2> QED
    BY <2>2, <2>3
<1>3. ASSUME NEW d \in Consumers, AllowRebalance(d),
             committed' = committed \/ (d \in members /\ committed' = OffsetsCommittedBy(d))
      PROVE  committed'[p] <= done'[c][p]
  <2>1. held' = held /\ members' = members
    BY <1>3 DEF AllowRebalance
  <2>2. CASE c = d
    <3>1. done'[c][p] = polled[c][p]
      BY <1>0, <1>3, <2>2 DEF AllowRebalance, TypeOK
    <3>2. committed[p] <= polled[c][p]
      BY <2>1 DEF OwnershipOK
    <3>3. committed' = OffsetsCommittedBy(d) => committed'[p] <= polled[c][p]
      BY <1>0, <2>1, <2>2, CommittedOffsets
    <3> QED
      BY <1>3, <3>1, <3>2, <3>3
  <2>3. CASE c # d
    <3>1. done'[c][p] = done[c][p]
      BY <1>0, <1>3, <2>3 DEF AllowRebalance, TypeOK
    <3>2. d \in members => p \notin held[d]
      BY <1>0, <2>1, <2>3 DEF OwnershipOK
    <3>3. committed'[p] = committed[p]
      BY <1>0, <1>3, <3>2, CommittedOffsets
    <3> QED
      BY <1>1, <2>1, <3>1, <3>3
  <2> QED
    BY <2>2, <2>3
<1>4. ASSUME NEW d \in Consumers, Crash(d)
      PROVE  committed'[p] <= done'[c][p]
  <2>1. c # d /\ members' = members \ {d} /\ committed' = committed
        /\ held'[c] = held[c] /\ done'[c] = done[c]
    BY <1>0, <1>4 DEF Crash, Stop, TypeOK
  <2> QED
    BY <1>1, <2>1
<1>5. ASSUME NEW d \in Consumers, Handle(d) \/ Fail(d), ~Commit(d), ~CommitFails(d), ~Crash(d)
      PROVE  committed'[p] <= done'[c][p]
  <2>1. UNCHANGED <<held, done, committed>> /\ members' \subseteq members
    BY <1>5 DEF Handle, Fail, Poll, PollRecords, Send, Index, Answered, BulkFails, BulkTimesOut,
       BulkRejected, Expelled, Expel, groupVars, clientVars, coordinatorVars
  <2> QED
    BY <1>1, <2>1
<1>6. ASSUME NEW d \in Consumers, Join(d)
      PROVE  committed'[p] <= done'[c][p]
  <2>1. UNCHANGED <<done, committed>> /\ p \in held[c] /\ c # d /\ c \in members
    BY <1>0, <1>6 DEF Join, TypeOK
  <2> QED
    BY <1>1, <2>1
<1>7. ASSUME NEW q \in Partitions, Revoke(q)
      PROVE  committed'[p] <= done'[c][p]
  <2>1. UNCHANGED <<done, committed, members>> /\ p \in held[c]
    BY <1>0, <1>7 DEF Revoke, TypeOK
  <2> QED
    BY <1>1, <2>1
<1>8. CASE Environment \/ UNCHANGED vars
  BY <1>1, <1>8 DEF Environment, Arrive, IndexLate, vars, groupVars, clientVars, coordinatorVars
<1> QED
  BY <1>2, <1>3, <1>4, <1>5, <1>6, <1>7, <1>8 DEF Next, GroupStep, Commit, CommitFails

-----------------------------------------------------------------------------
(* Documents do not go back: while nobody works behind the group's back *)

\* Once a request outlives its client or a consumer is expelled, it stays so.
LEMMA QuietSteps ==
  ASSUME TypeOK, [Next]_vars, Quiet'
  PROVE  /\ Quiet
         /\ \A c \in Consumers : ~BulkTimesOut(c) /\ ~Expelled(c)
         /\ \A i \in DOMAIN orphans : \A b \in orphans[i] : ~IndexLate(i, b)
<1>1. orphans' = << >> /\ expulsions' = 0
  BY DEF Quiet
<1>2. ASSUME NEW c \in Consumers, Append(orphans, pending[c]) = << >>
      PROVE  FALSE
  <2> DEFINE Items == SUBSET (Partitions \X (Nat \ {0}))
  <2>1. orphans \in Seq(Items) /\ pending[c] \in Items
    BY DEF TypeOK
  <2> HIDE DEF Items
  <2>2. Len(Append(orphans, pending[c])) = Len(orphans) + 1 /\ Len(orphans) \in Nat
    BY <2>1
  <2> QED
    BY <1>2, <2>2
<1>3. ASSUME NEW c \in Consumers, BulkTimesOut(c)
      PROVE  FALSE
  BY <1>1, <1>2, <1>3 DEF BulkTimesOut
<1>4. ASSUME NEW c \in Consumers, Expelled(c)
      PROVE  FALSE
  BY <1>1, <1>4 DEF Expelled, TypeOK
<1>5. ASSUME NEW i \in DOMAIN orphans, NEW b \in orphans[i], IndexLate(i, b)
      PROVE  FALSE
  <2>1. DOMAIN orphans' = DOMAIN orphans
    BY <1>5 DEF IndexLate
  <2> QED
    BY <1>1, <2>1
<1>6. ASSUME NEW c \in Consumers, Crash(c)
      PROVE  Quiet
  <2>1. orphans' = orphans
    BY <1>1, <1>2, <1>6 DEF Crash
  <2>2. expulsions' = expulsions
    BY <1>6 DEF Crash, Fault
  <2> QED
    BY <1>1, <2>1, <2>2 DEF Quiet
<1>7. ASSUME NEW c \in Consumers, Handle(c) \/ Fail(c), ~Crash(c)
      PROVE  Quiet
  <2>1. UNCHANGED <<orphans, expulsions>>
    BY <1>3, <1>4, <1>7 DEF Handle, Fail, Poll, Send, Index, Answered, Commit, CommitFails, BulkFails,
       BulkRejected, Fault, requestVars, budgetVars
  <2> QED
    BY <1>1, <2>1 DEF Quiet
<1>8. ASSUME Environment \/ GroupStep \/ UNCHANGED vars
      PROVE  Quiet
  <2>1. UNCHANGED <<requestVars, budgetVars>>
    BY <1>5, <1>8 DEF Environment, Arrive, GroupStep, vars
  <2> QED
    BY <1>1, <2>1 DEF Quiet, requestVars, budgetVars
<1>9. Quiet
  BY <1>6, <1>7, <1>8 DEF Next
<1> QED
  BY <1>3, <1>4, <1>5, <1>9

\* A record's document is kept by every step but the execution of an older copy.
LEMMA CurrentStays ==
  ASSUME TypeOK, OffsetsOK, PlacesOK, RequestsOK, [Next]_vars, Quiet',
         NEW p \in Partitions, NEW o \in 1 .. Len(log[p]), Current(p, o),
         \A c \in Consumers : \A b \in pending[c] :
           (Index(c, b) /\ b[1] = p /\ Record(b) = log[p][o]) => o <= b[2]
  PROVE  Current(p, o)'
<1>1. log'[p][o] = log[p][o]
  BY LogGrows
<1>2. dropped \subseteq dropped'
  BY DEF Next, Environment, Arrive, IndexLate, GroupStep, Handle, Poll, Send, Index, Answered, Commit,
     Fail, BulkFails, BulkTimesOut, BulkRejected, CommitFails, Expelled, Crash, vars
<1>3. CASE UNCHANGED storeVars
  BY <1>1, <1>2, <1>3 DEF Current, storeVars
<1>4. ASSUME NEW c \in Consumers, NEW b \in pending[c], Index(c, b), log[p][o] \in Events \ Unindexable
      PROVE  document'[log[p][o]] >= o \/ document'[log[p][o]] = document[log[p][o]]
  <2>1. /\ b[1] \in Partitions /\ b[2] \in BatchOffsets(c, b[1])
        /\ Record(b) \in Events
    BY PendingItems
  <2>2. b[2] \in 1 .. Len(log[b[1]]) /\ b[2] \in Nat
    BY <2>1, BatchBounds
  <2>3. log[b[1]] \in Seq(Events \cup {Unparseable}) /\ log[p] \in Seq(Events \cup {Unparseable})
    BY <2>1 DEF TypeOK
  <2>4. Record(b) = log[p][o] => b[1] = p
    BY <1>4, <2>1, <2>2, <2>3 DEF PlacesOK, Record
  <2>5. CASE Record(b) = log[p][o]
    <3>1. o <= b[2]
      BY <1>4, <2>4, <2>5
    <3>2. document'[log[p][o]] = b[2]
      BY <1>4, <2>5 DEF Index, Execute, TypeOK
    <3> QED
      BY <2>2, <3>1, <3>2
  <2>6. CASE Record(b) # log[p][o]
    BY <1>4, <2>1, <2>6 DEF Index, Execute, TypeOK
  <2> QED
    BY <2>5, <2>6
<1>5. ASSUME NEW c \in Consumers, NEW b \in pending[c], Index(c, b)
      PROVE  Current(p, o)'
  BY <1>1, <1>2, <1>4, <1>5 DEF Current
<1>6. UNCHANGED storeVars \/ \E c \in Consumers : \E b \in pending[c] : Index(c, b)
  BY QuietSteps DEF Next, Environment, Arrive, GroupStep, Handle, Poll, Send, Answered, Commit, Fail,
     BulkFails, BulkRejected, CommitFails, Crash, vars, storeVars
<1> QED
  BY <1>3, <1>5, <1>6

\* Who executes an item of p is the member that owns p.
LEMMA WriterOwns ==
  ASSUME TypeOK, OffsetsOK, RequestsOK, OwnersAreCurrent, Quiet,
         NEW c \in Consumers, NEW b \in pending[c]
  PROVE  /\ b[1] \in Partitions /\ c \in members /\ b[1] \in held[c]
         /\ done[c][b[1]] \in Nat /\ b[2] \in Nat /\ done[c][b[1]] < b[2]
<1>1. b[1] \in Partitions /\ b[2] \in BatchOffsets(c, b[1])
  BY PendingItems
<1>2. b[1] \in held[c] /\ b[2] \in Nat /\ done[c][b[1]] < b[2]
  BY <1>1, BatchBounds
<1> QED
  BY <1>1, <1>2 DEF OwnersAreCurrent, OwnerIsCurrent, TypeOK

LEMMA OneOwner ==
  ASSUME OwnershipOK, NEW c \in members, NEW d \in members,
         NEW p \in Partitions, p \in held[c], p \in held[d]
  PROVE  c = d
  BY DEF OwnershipOK

LEMMA CommittedStays ==
  ASSUME TypeOK, OffsetsOK, CurrentInv, [Next]_vars, Quiet',
         NEW p \in Partitions, NEW o \in 1 .. committed[p]
  PROVE  Current(p, o)'
<1>1. Quiet
  BY QuietSteps
<1>2. Current(p, o)
  BY <1>1 DEF CurrentInv, DocumentsAreCurrent
<1>3. committed[p] \in Nat /\ o \in 1 .. Len(log[p])
  BY LogGrows DEF OffsetsOK, TypeOK
<1>4. ASSUME NEW d \in Consumers, NEW b \in pending[d], b[1] = p
      PROVE  o <= b[2]
  <2>1. /\ d \in members /\ p \in held[d]
        /\ done[d][p] \in Nat /\ b[2] \in Nat /\ done[d][p] < b[2]
    BY <1>1, <1>4, WriterOwns DEF CurrentInv
  <2>2. committed[p] <= done[d][p]
    BY <2>1 DEF CurrentInv, CommitsBehind
  <2> QED
    BY <1>3, <2>1, <2>2
<1> QED
  BY <1>2, <1>3, <1>4, CurrentStays DEF CurrentInv

LEMMA FinishedStays ==
  ASSUME TypeOK, OwnershipOK, OffsetsOK, CurrentInv, [Next]_vars, Quiet',
         NEW c \in Consumers, NEW p \in held[c], NEW o \in 1 .. done[c][p]
  PROVE  Current(p, o)'
<1>1. Quiet
  BY QuietSteps
<1>2. Current(p, o) /\ c \in members
  BY <1>1 DEF CurrentInv, OwnersAreCurrent, OwnerIsCurrent
<1>3. p \in Partitions /\ done[c][p] \in Nat /\ o \in 1 .. Len(log[p])
  BY LogGrows DEF OffsetsOK, TypeOK
<1>4. ASSUME NEW d \in Consumers, NEW b \in pending[d], b[1] = p
      PROVE  o <= b[2]
  <2>1. /\ d \in members /\ p \in held[d]
        /\ b[2] \in Nat /\ done[d][p] < b[2]
    BY <1>1, <1>4, WriterOwns DEF CurrentInv
  <2>2. d = c
    BY <1>2, <1>3, <2>1, OneOwner
  <2> QED
    BY <1>3, <2>1, <2>2
<1> QED
  BY <1>2, <1>3, <1>4, CurrentStays DEF CurrentInv

\* The copies of an event that are still in the request are later than an executed one.
LEMMA BatchItemStays ==
  ASSUME TypeOK, OwnershipOK, OffsetsOK, CurrentInv, [Next]_vars, Quiet',
         NEW c \in Consumers, NEW p \in Partitions, NEW o \in BatchOffsets(c, p),
         <<p, o>> \notin pending[c], Current(p, o)
  PROVE  Current(p, o)'
<1>1. Quiet
  BY QuietSteps
<1>2. p \in held[c] /\ o \in Nat /\ o \in 1 .. Len(log[p])
  BY BatchBounds
<1>3. c \in members
  BY <1>1, <1>2 DEF CurrentInv, OwnersAreCurrent, OwnerIsCurrent
<1>4. ASSUME NEW d \in Consumers, NEW b \in pending[d], b[1] = p, Record(b) = log[p][o]
      PROVE  o <= b[2]
  <2>1. /\ d \in members /\ p \in held[d] /\ b[2] \in Nat
    BY <1>1, <1>4, WriterOwns DEF CurrentInv
  <2>2. d = c
    BY <1>2, <1>3, <2>1, OneOwner
  <2>3. ~(b[2] <= o)
    BY <1>4, <2>2 DEF CurrentInv, RequestsOK, RequestOK, Record
  <2> QED
    BY <1>2, <2>1, <2>3
<1> QED
  BY <1>2, <1>4, CurrentStays DEF CurrentInv

LEMMA ExecutedIsCurrent ==
  ASSUME TypeOK, OffsetsOK, RequestsOK, [Next]_vars,
         NEW c \in Consumers, NEW b \in pending[c], Index(c, b)
  PROVE  Current(b[1], b[2])'
<1>1. /\ b[1] \in Partitions /\ b[2] \in BatchOffsets(c, b[1])
      /\ Record(b) \in Events
  BY PendingItems
<1>2. b[2] \in Nat /\ log'[b[1]][b[2]] = Record(b)
  BY <1>1, BatchBounds, BatchRecords DEF Record
<1>3. CASE Record(b) \in Unindexable
  BY <1>2, <1>3 DEF Current
<1>4. CASE Record(b) \notin Unindexable
  <2>1. document'[Record(b)] = b[2]
    BY <1>1, <1>4 DEF Index, Execute, TypeOK
  <2> QED
    BY <1>2, <2>1 DEF Current
<1> QED
  BY <1>3, <1>4

\* When the persister goes on to commit, its batch is executed to the end.
LEMMA BatchIsCurrent ==
  ASSUME TypeOK, OwnershipOK, OffsetsOK, CurrentInv, [Next]_vars, Quiet',
         NEW c \in Consumers, phase[c] = "commit", NEW p \in held[c], NEW o \in 1 .. polled[c][p]
  PROVE  Current(p, o)'
<1>1. Quiet
  BY QuietSteps
<1>2. p \in Partitions /\ done[c][p] \in Nat /\ polled[c][p] \in Nat
  BY DEF TypeOK
<1>3. CASE o <= done[c][p]
  <2>1. o \in 1 .. done[c][p]
    BY <1>2, <1>3
  <2> QED
    BY <2>1, FinishedStays
<1>4. CASE done[c][p] < o
  <2>1. o \in BatchOffsets(c, p)
    BY <1>2, <1>4 DEF BatchOffsets
  <2>2. pending[c] = {}
    BY DEF CurrentInv, RequestsOK, RequestOK
  <2>3. Current(p, o)
    BY <1>1, <2>1, <2>2 DEF CurrentInv, OwnersAreCurrent, OwnerIsCurrent
  <2> QED
    BY <1>2, <2>1, <2>2, <2>3, BatchItemStays
<1> QED
  BY <1>2, <1>3, <1>4

-----------------------------------------------------------------------------
(* Documents do not go back: the inductive invariant *)

\* An owner whose request and batch do not move, in a step that executes none of its items.
LEMMA OwnerStays ==
  ASSUME TypeOK, OwnershipOK, OffsetsOK, CurrentInv, [Next]_vars, Quiet',
         NEW c \in Consumers, NEW p \in held[c], c \in members',
         p \in held'[c] /\ done'[c][p] = done[c][p] /\ polled'[c][p] = polled[c][p],
         phase'[c] = phase[c], pending'[c] = pending[c]
  PROVE  OwnerIsCurrent(c, p)'
<1>0. Quiet
  BY QuietSteps
<1>1. ASSUME NEW o \in 1 .. done'[c][p]
      PROVE  Current(p, o)'
  BY FinishedStays
<1>2. ASSUME NEW o \in BatchOffsets(c, p)', phase'[c] # "send", <<p, o>> \notin pending'[c]
      PROVE  Current(p, o)'
  <2>1. o \in BatchOffsets(c, p) /\ p \in Partitions
    BY <1>2 DEF BatchOffsets, TypeOK
  <2>2. Current(p, o)
    BY <1>0, <1>2, <2>1 DEF CurrentInv, OwnersAreCurrent, OwnerIsCurrent
  <2> QED
    BY <1>2, <2>1, <2>2, BatchItemStays
<1> QED
  BY <1>1, <1>2 DEF OwnerIsCurrent

\* An owner that starts its batch over.
LEMMA OwnerRestarts ==
  ASSUME TypeOK, OwnershipOK, OffsetsOK, CurrentInv, [Next]_vars, Quiet',
         NEW c \in Consumers, NEW p \in held[c], c \in members',
         done'[c][p] = done[c][p], phase'[c] = "send"
  PROVE  OwnerIsCurrent(c, p)'
<1>1. ASSUME NEW o \in 1 .. done'[c][p]
      PROVE  Current(p, o)'
  BY FinishedStays
<1> QED
  BY <1>1 DEF OwnerIsCurrent

\* The steps of an owner itself.
LEMMA OwnerHandles ==
  ASSUME TypeOK, OwnershipOK, OffsetsOK, BatchOK, CurrentInv, [Next]_vars, Quiet',
         NEW c \in Consumers, Handle(c) \/ Fail(c), NEW p \in held'[c]
  PROVE  OwnerIsCurrent(c, p)'
<1>0. /\ Quiet /\ ~BulkTimesOut(c) /\ ~Expelled(c)
      /\ p \in Partitions
  BY NextType, QuietSteps DEF TypeOK
<1>1. ~Crash(c)
  BY DEF Crash, Stop, TypeOK
<1>2. members' = members /\ held' = held
  BY <1>0, <1>1 DEF Handle, Fail, Poll, PollRecords, Send, Index, Answered, Commit, CommitFails,
     AllowRebalance, BulkFails, BulkRejected, groupVars, coordinatorVars, clientVars
<1>3. p \in held[c] /\ c \in members'
  BY <1>0, <1>2 DEF CurrentInv, OwnersAreCurrent, OwnerIsCurrent
<1>4. CASE Poll(c) \/ BulkFails(c)
  <2>1. done' = done /\ phase'[c] = "send"
    BY <1>4 DEF Poll, PollRecords, BulkFails, requestVars, groupVars, clientVars, BatchOK, TypeOK
  <2> QED
    BY <1>3, <2>1, OwnerRestarts
<1>5. CASE Commit(c) \/ CommitFails(c)
  <2>1. phase[c] = "commit" /\ done'[c][p] = polled[c][p] /\ phase'[c] = "send"
    BY <1>0, <1>5 DEF Commit, CommitFails, AllowRebalance, TypeOK
  <2>2. ASSUME NEW o \in 1 .. done'[c][p]
        PROVE  Current(p, o)'
    BY <1>3, <2>1, BatchIsCurrent
  <2> QED
    BY <1>3, <2>1, <2>2 DEF OwnerIsCurrent
<1>6. ASSUME UNCHANGED groupVars,
             \A o \in BatchOffsets(c, p) : <<p, o>> \in pending'[c] \/ Current(p, o)'
      PROVE  OwnerIsCurrent(c, p)'
  <2>1. BatchOffsets(c, p)' = BatchOffsets(c, p) /\ done' = done
    BY <1>6 DEF BatchOffsets, groupVars, clientVars
  <2>2. ASSUME NEW o \in 1 .. done[c][p]
        PROVE  Current(p, o)'
    BY <1>3, FinishedStays
  <2> QED
    BY <1>3, <1>6, <2>1, <2>2 DEF OwnerIsCurrent
<1>7. ASSUME NEW o \in BatchOffsets(c, p), log[p][o] \notin Events
      PROVE  Current(p, o)'
  BY <1>0, <1>7, BatchRecords DEF Current
<1>8. CASE Send(c)
  <2>1. pending'[c] = Body(c) /\ UNCHANGED groupVars
    BY <1>8 DEF Send, TypeOK
  <2>2. ASSUME NEW o \in BatchOffsets(c, p), log[p][o] \in Events
        PROVE  <<p, o>> \in Body(c)
    BY <1>0, <2>2, BodyMembers
  <2> QED
    BY <1>6, <1>7, <2>1, <2>2
<1>9. CASE BulkRejected(c)
  <2>1. dropped' = dropped \cup Body(c) /\ UNCHANGED groupVars
    BY <1>9 DEF BulkRejected
  <2>2. ASSUME NEW o \in BatchOffsets(c, p), log[p][o] \in Events
        PROVE  Current(p, o)'
    <3>1. <<p, o>> \in Body(c)
      BY <1>0, <2>2, BodyMembers
    <3> QED
      BY <2>1, <3>1 DEF Current
  <2> QED
    BY <1>6, <1>7, <2>1, <2>2
<1>10. CASE Answered(c)
  <2>1. phase[c] = "wait" /\ pending[c] = {} /\ UNCHANGED groupVars
    BY <1>10 DEF Answered, NoRetryableItem
  <2>2. ASSUME NEW o \in BatchOffsets(c, p)
        PROVE  Current(p, o)'
    <3>1. Current(p, o)
      BY <1>0, <1>3, <2>1 DEF CurrentInv, OwnersAreCurrent, OwnerIsCurrent
    <3> QED
      BY <1>0, <2>1, <3>1, BatchItemStays
  <2> QED
    BY <1>6, <2>1, <2>2
<1>11. ASSUME NEW b \in pending[c], Index(c, b)
       PROVE  OwnerIsCurrent(c, p)'
  <2>1. phase[c] = "wait" /\ pending'[c] = pending[c] \ {b} /\ UNCHANGED groupVars
    BY <1>11 DEF Index, TypeOK
  <2>2. ASSUME NEW o \in BatchOffsets(c, p), <<p, o>> \notin pending'[c]
        PROVE  Current(p, o)'
    <3>1. CASE <<p, o>> = b
      <4>1. Current(b[1], b[2])'
        BY <1>11, ExecutedIsCurrent DEF CurrentInv
      <4>2. b[1] = p /\ b[2] = o
        BY <3>1
      <4> QED
        BY <4>1, <4>2
    <3>2. CASE <<p, o>> # b
      <4>1. <<p, o>> \notin pending[c]
        BY <2>1, <2>2, <3>2
      <4>2. Current(p, o)
        BY <1>0, <1>3, <2>1, <4>1 DEF CurrentInv, OwnersAreCurrent, OwnerIsCurrent
      <4> QED
        BY <1>0, <4>1, <4>2, BatchItemStays
    <3> QED
      BY <3>1, <3>2
  <2> QED
    BY <1>6, <2>1, <2>2
<1> QED
  BY <1>0, <1>1, <1>4, <1>5, <1>8, <1>9, <1>10, <1>11 DEF Handle, Fail

\* The steps of the coordinator.
LEMMA OwnerRebalanced ==
  ASSUME TypeOK, OwnershipOK, OffsetsOK, BatchOK, CurrentInv, [Next]_vars, Quiet',
         GroupStep, NEW c \in Consumers, NEW p \in held'[c]
  PROVE  OwnerIsCurrent(c, p)'
<1>0. Quiet /\ p \in Partitions /\ UNCHANGED requestVars
  BY NextType, QuietSteps DEF TypeOK, GroupStep
<1>1. ASSUME p \in held[c], members \subseteq members',
             done'[c][p] = done[c][p], polled'[c][p] = polled[c][p]
      PROVE  OwnerIsCurrent(c, p)'
  <2>1. c \in members'
    BY <1>0, <1>1 DEF CurrentInv, OwnersAreCurrent, OwnerIsCurrent
  <2> QED
    BY <1>0, <1>1, <2>1, OwnerStays DEF requestVars
<1>2. ASSUME NEW d \in Consumers, Join(d)
      PROVE  OwnerIsCurrent(c, p)'
  BY <1>1, <1>2 DEF Join, TypeOK
<1>3. ASSUME NEW q \in Partitions, Revoke(q)
      PROVE  OwnerIsCurrent(c, p)'
  BY <1>1, <1>3 DEF Revoke, TypeOK
<1>4. ASSUME NEW q \in Partitions, NEW d \in Consumers, Assign(q, d)
      PROVE  OwnerIsCurrent(c, p)'
  <2>1. members' = members /\ d \in members
    BY <1>4 DEF Assign
  <2>2. CASE c = d /\ p = q
    <3>1. done'[c][p] = committed[p] /\ polled'[c][p] = committed[p] /\ committed[p] \in Nat
      BY <1>0, <1>4, <2>2 DEF Assign, TypeOK
    <3>2. BatchOffsets(c, p)' = {}
      BY <3>1 DEF BatchOffsets
    <3>3. ASSUME NEW o \in 1 .. done'[c][p]
          PROVE  Current(p, o)'
      BY <1>0, <3>1, CommittedStays
    <3> QED
      BY <2>1, <2>2, <3>2, <3>3 DEF OwnerIsCurrent
  <2>3. CASE ~(c = d /\ p = q)
    <3>1. p \in held[c] /\ done'[c][p] = done[c][p] /\ polled'[c][p] = polled[c][p]
      BY <1>0, <1>4, <2>3 DEF Assign, TypeOK
    <3> QED
      BY <1>1, <2>1, <3>1
  <2> QED
    BY <2>2, <2>3
<1> QED
  BY <1>2, <1>3, <1>4 DEF GroupStep

LEMMA OwnersInvariant ==
  ASSUME TypeOK, OwnershipOK, OffsetsOK, BatchOK, CurrentInv, [Next]_vars
  PROVE  OwnersAreCurrent'
<1> SUFFICES ASSUME Quiet', NEW c \in Consumers, NEW p \in held'[c]
             PROVE  OwnerIsCurrent(c, p)'
  BY DEF OwnersAreCurrent
<1>0. Quiet /\ \A d \in Consumers : ~Expelled(d)
  BY QuietSteps
<1>1. CASE Environment \/ UNCHANGED vars
  <2>1. UNCHANGED <<coordinatorVars, clientVars, phase, pending>>
    BY <1>1 DEF Environment, Arrive, IndexLate, vars, groupVars, requestVars
  <2>2. c \in members' /\ p \in held[c]
    BY <1>0, <2>1 DEF CurrentInv, OwnersAreCurrent, OwnerIsCurrent, coordinatorVars, clientVars
  <2> QED
    BY <2>1, <2>2, OwnerStays DEF clientVars
<1>2. ASSUME NEW d \in Consumers, Handle(d) \/ Fail(d), d # c
      PROVE  OwnerIsCurrent(c, p)'
  <2>1. members \ {d} \subseteq members'
    BY <1>0, <1>2 DEF Handle, Fail, Poll, PollRecords, Send, Index, Answered, Commit, CommitFails,
       AllowRebalance, BulkFails, BulkTimesOut, BulkRejected, Crash, Stop, groupVars, coordinatorVars
  <2>2. /\ phase'[c] = phase[c] /\ pending'[c] = pending[c]
        /\ held'[c] = held[c] /\ done'[c] = done[c] /\ polled'[c] = polled[c]
    BY <1>2, Frame
  <2>3. c \in members' /\ p \in held[c]
    BY <1>0, <1>2, <2>1, <2>2 DEF CurrentInv, OwnersAreCurrent, OwnerIsCurrent
  <2> QED
    BY <2>2, <2>3, OwnerStays
<1>3. CASE Handle(c) \/ Fail(c)
  BY <1>3, OwnerHandles
<1>4. CASE GroupStep
  BY <1>4, OwnerRebalanced
<1> QED
  BY <1>1, <1>2, <1>3, <1>4 DEF Next

LEMMA DocumentsInvariant ==
  ASSUME TypeOK, OwnershipOK, OffsetsOK, CurrentInv, [Next]_vars
  PROVE  DocumentsAreCurrent'
<1> SUFFICES ASSUME Quiet', NEW p \in Partitions, NEW o \in 1 .. committed'[p]
             PROVE  Current(p, o)'
  BY DEF DocumentsAreCurrent
<1>1. CASE committed'[p] = committed[p]
  BY <1>1, CommittedStays
<1>2. ASSUME NEW c \in members, phase[c] = "commit", committed' = OffsetsCommittedBy(c)
      PROVE  Current(p, o)'
  <2>1. CASE BatchOffsets(c, p) # {}
    <3>1. committed'[p] = polled[c][p] /\ p \in held[c] /\ c \in Consumers
      BY <1>2, <2>1, CommittedOffsets DEF TypeOK
    <3> QED
      BY <1>2, <3>1, BatchIsCurrent
  <2>2. CASE BatchOffsets(c, p) = {}
    BY <1>1, <1>2, <2>2, CommittedOffsets
  <2> QED
    BY <2>1, <2>2
<1>3. \/ committed' = committed
      \/ \E c \in members : phase[c] = "commit" /\ committed' = OffsetsCommittedBy(c)
  BY DEF Next, Environment, Arrive, IndexLate, GroupStep, Join, Assign, Revoke, Handle, Poll, PollRecords,
     Send, Index, Answered, Commit, Fail, BulkFails, BulkTimesOut, BulkRejected, CommitFails, Expelled,
     Expel, Crash, Stop, vars, groupVars, coordinatorVars
<1> QED
  BY <1>1, <1>2, <1>3

LEMMA InitCurrent == Init => CurrentInv
<1> SUFFICES ASSUME Init PROVE CurrentInv
  OBVIOUS
<1>1. PlacesOK /\ RequestsOK
  BY DEF Init, GroupInit, PlacesOK, RequestsOK, RequestOK
<1>2. CommitsBehind /\ OwnersAreCurrent
  BY DEF Init, GroupInit, CommitsBehind, OwnersAreCurrent
<1>3. DocumentsAreCurrent
  BY DEF Init, GroupInit, NoOffsets, DocumentsAreCurrent
<1> QED
  BY <1>1, <1>2, <1>3 DEF CurrentInv

LEMMA NextCurrent == TypeOK /\ IInv /\ CurrentInv /\ [Next]_vars => CurrentInv'
<1> SUFFICES ASSUME TypeOK, IInv, CurrentInv, [Next]_vars PROVE CurrentInv'
  OBVIOUS
<1>1. PlacesOK'
  BY PlacesInvariant DEF CurrentInv
<1>2. RequestsOK'
  BY RequestInvariant DEF CurrentInv, IInv, RequestsOK
<1>3. CommitsBehind'
  BY CommitsBehindInvariant DEF CurrentInv, IInv
<1>4. OwnersAreCurrent'
  BY OwnersInvariant DEF IInv
<1>5. DocumentsAreCurrent'
  BY DocumentsInvariant DEF IInv
<1> QED
  BY <1>1, <1>2, <1>3, <1>4, <1>5 DEF CurrentInv

\* The inductive invariant about documents: a request holds the items of its batch from
\* some copy of a document on, its consumer writes only behind the committed offset, and
\* only a partition's owner writes while nobody works behind the group's back.
THEOREM CurrentInductive == Spec => []CurrentInv
<1>1. Init => CurrentInv
  BY InitCurrent
<1>2. TypeOK /\ IInv /\ CurrentInv /\ [Next]_vars => CurrentInv'
  BY NextCurrent
<1> QED
  BY <1>1, <1>2, TypeCorrect, Inductive, PTL DEF Spec

\* Redelivery is idempotent (persist.go:25-26): batches that are written again after
\* failed items, failed commits, crashes and rebalances leave no document older than a
\* committed copy of it, unless a request outlived its client or a consumer was expelled.
THEOREM DocumentsStayCurrent == Spec => []DocumentsAreCurrent
<1>1. CurrentInv => DocumentsAreCurrent
  BY DEF CurrentInv
<1> QED
  BY <1>1, CurrentInductive, PTL
=============================================================================
