---------------------------- MODULE PushPathProofs ----------------------------
(***************************************************************************)
(* Theorems of PushPath, for any number of routers, browsers, partitions   *)
(* and events and any sizes of the buffers: its state is well typed and no *)
(* event vanishes without a cause.                                         *)
(***************************************************************************)
EXTENDS PushPath, SequenceTheorems, TLAPS

-----------------------------------------------------------------------------
(* Sequences *)

LEMMA AppendElements ==
  ASSUME NEW S, NEW s \in Seq(S), NEW x \in S
  PROVE  /\ Append(s, x) \in Seq(S)
         /\ Elements(Append(s, x)) = Elements(s) \cup {x}
  <1>1. Append(s, x) \in Seq(S) /\ Len(Append(s, x)) = Len(s) + 1
    OBVIOUS
  <1>2. DOMAIN Append(s, x) = DOMAIN s \cup {Len(s) + 1}
    OBVIOUS
  <1>3. \A i \in DOMAIN s : Append(s, x)[i] = s[i]
    OBVIOUS
  <1>4. Append(s, x)[Len(s) + 1] = x
    OBVIOUS
  <1> QED BY <1>1, <1>2, <1>3, <1>4 DEF Elements

LEMMA TailElements ==
  ASSUME NEW S, NEW s \in Seq(S), s # << >>
  PROVE  /\ Head(s) \in S
         /\ Tail(s) \in Seq(S)
         /\ Elements(s) = Elements(Tail(s)) \cup {Head(s)}
  <1>1. Head(s) \in S /\ Tail(s) \in Seq(S) /\ Len(s) \in Nat \ {0}
    OBVIOUS
  <1>2. DOMAIN s = 1 .. Len(s) /\ DOMAIN Tail(s) = 1 .. Len(s) - 1
    OBVIOUS
  <1>3. \A i \in 1 .. Len(s) - 1 : Tail(s)[i] = s[i + 1]
    OBVIOUS
  <1>4. \A i \in DOMAIN s : i = 1 \/ (i - 1 \in DOMAIN Tail(s) /\ s[i] = Tail(s)[i - 1])
    BY <1>1, <1>2, <1>3
  <1>5. Elements(s) \subseteq Elements(Tail(s)) \cup {Head(s)}
    <2> SUFFICES ASSUME NEW i \in DOMAIN s
                 PROVE  s[i] \in Elements(Tail(s)) \cup {Head(s)}
      BY DEF Elements
    <2>1. CASE i = 1
      BY <1>1, <2>1
    <2>2. CASE i # 1
      BY <1>4, <2>2 DEF Elements
    <2> QED BY <2>1, <2>2
  <1>6. \A i \in DOMAIN Tail(s) : i + 1 \in DOMAIN s /\ s[i + 1] = Tail(s)[i]
    BY <1>1, <1>2, <1>3
  <1>7. Head(s) = s[1] /\ 1 \in DOMAIN s
    BY <1>1, <1>2
  <1>8. Elements(Tail(s)) \cup {Head(s)} \subseteq Elements(s)
    BY <1>6, <1>7 DEF Elements
  <1> QED BY <1>1, <1>5, <1>8

\* Taking the first element out, as Dispatch does.
LEMMA WithoutFirst ==
  ASSUME NEW S, NEW s \in Seq(S), 1 \in DOMAIN s
  PROVE  /\ s # << >>
         /\ SubSeq(s, 1, 1 - 1) \o SubSeq(s, 1 + 1, Len(s)) = Tail(s)
         /\ s[1] = Head(s)
  <1>1. Len(s) \in Nat \ {0} /\ s # << >> /\ s[1] = Head(s)
    OBVIOUS
  <1>2. SubSeq(s, 1, 1 - 1) = << >>
    OBVIOUS
  <1>3. SubSeq(s, 1 + 1, Len(s)) = Tail(s)
    BY <1>1
  <1>4. Tail(s) \in Seq(S)
    BY <1>1
  <1>5. << >> \o Tail(s) = Tail(s)
    BY <1>4
  <1> QED BY <1>1, <1>2, <1>3, <1>5

-----------------------------------------------------------------------------
(* Types *)

\* Advance keeps types, and marks an offset that it owns.
LEMMA AdvanceType ==
  ASSUME TypeOK, NEW r \in Routers, batch[r] # << >>, Advance(r)
  PROVE  /\ Head(batch[r]) \in Records
         /\ batch' \in [Routers -> Seq(Records)]
         /\ marked' \in [Partitions -> Nat]
  <1>1. Head(batch[r]) \in Records /\ Tail(batch[r]) \in Seq(Records)
    BY TailElements DEF TypeOK
  <1> QED BY <1>1 DEF TypeOK, Advance, Records

LEMMA LoseType ==
  ASSUME TypeOK, NEW lost, Lose(lost)
  PROVE  due' \in [Clients -> SUBSET Records]
  BY DEF TypeOK, Lose

LEMMA EnvironmentType ==
  ASSUME TypeOK, Environment
  PROVE  TypeOK'
  <1> USE PushAssumption
  <1>1. ASSUME NEW e \in Events, Publish(e)
        PROVE  TypeOK'
    <2> DEFINE p == PartitionOf[VinOf[e]]
    <2>1. p \in Partitions /\ topic[p] \in Seq(Events) /\ Len(topic[p]) \in Nat
      BY DEF TypeOK
    <2>2. <<p, Len(topic[p]) + 1>> \in Records
      BY <2>1 DEF Records
    <2>3. Append(topic[p], e) \in Seq(Events)
      BY <2>1
    <2>4. topic' \in [Partitions -> Seq(Events)]
      BY <1>1, <2>1, <2>3 DEF TypeOK, Publish
    <2>5. due' \in [Clients -> SUBSET Records]
      BY <1>1, <2>2 DEF TypeOK, Publish
    <2> QED BY <1>1, <2>4, <2>5 DEF TypeOK, Publish, groupVars, streamVars, clientVars
  <1>2. ASSUME NEW p \in Partitions, Age(p)
        PROVE  TypeOK'
    <2>1. aged' = [aged EXCEPT ![p] = aged[p] + 1]
      BY <1>2 DEF Age
    <2>2. aged' \in [Partitions -> Nat]
      BY <2>1 DEF TypeOK
    <2> QED BY <1>2, <2>2 DEF TypeOK, Age, groupVars, streamVars, clientVars
  <1>3. ASSUME NEW p \in Partitions, AutoCommit(p)
        PROVE  TypeOK'
    BY <1>3 DEF TypeOK, AutoCommit, streamVars, clientVars
  <1>4. ASSUME NEW p \in Partitions, NEW r \in Routers, Moved(p, r)
        PROVE  TypeOK'
    <2>1. Resume(p) \in Nat
      BY DEF TypeOK, Resume
    <2>2. owner' \in [Partitions -> Routers]
      BY <1>4 DEF TypeOK, Moved
    <2>3. next' \in [Partitions -> Nat] /\ marked' \in [Partitions -> Nat]
      BY <1>4, <2>1 DEF TypeOK, Moved
    <2>4. due' \in [Clients -> SUBSET Records]
      BY <1>4 DEF TypeOK, Moved
    <2>5. moves' \in 0 .. MaxMoves
      BY <1>4 DEF TypeOK, Moved
    <2> QED BY <1>4, <2>2, <2>3, <2>4, <2>5 DEF TypeOK, Moved, streamVars, clientVars
  <1>5. ASSUME NEW r \in Routers, Open(r)
        PROVE  TypeOK'
    BY <1>5 DEF TypeOK, Open, groupVars, clientVars
  <1>6. ASSUME NEW r \in Routers, StreamEnds(r)
        PROVE  /\ up' \subseteq Routers
               /\ interest' \in [Routers -> SUBSET Tags]
               /\ out' \in [Routers -> Seq(Records)]
               /\ wire' \in [Routers -> Seq(Records)]
               /\ due' \in [Clients -> SUBSET Records]
    BY <1>6 DEF TypeOK, StreamEnds
  <1>7. ASSUME NEW r \in Routers, Break(r)
        PROVE  TypeOK'
    BY <1>6, <1>7 DEF TypeOK, Break, groupVars, clientVars
  <1>8. ASSUME NEW r \in Routers, RouterStops(r)
        PROVE  TypeOK'
    <2>1. \A p \in Partitions : Resume(p) \in Nat
      BY DEF TypeOK, Resume
    <2>2. next' \in [Partitions -> Nat] /\ marked' \in [Partitions -> Nat]
      BY <1>8, <2>1 DEF TypeOK, RouterStops
    <2>3. batch' \in [Routers -> Seq(Records)] /\ moves' \in 0 .. MaxMoves
      BY <1>8 DEF TypeOK, RouterStops
    <2>4. StreamEnds(r)
      BY <1>8 DEF RouterStops
    <2> QED BY <1>6, <1>8, <2>2, <2>3, <2>4 DEF TypeOK, RouterStops, clientVars
  <1>9. ASSUME NEW r \in Routers, NEW i \in Interests, SetInterest(r, i)
        PROVE  TypeOK'
    <2>1. interest' \in [Routers -> SUBSET Tags]
      BY <1>9 DEF TypeOK, SetInterest
    <2>2. due' \in [Clients -> SUBSET Records]
      BY <1>9 DEF TypeOK, SetInterest
    <2> QED BY <1>9, <2>1, <2>2 DEF TypeOK, SetInterest, groupVars, clientVars
  <1>10. ASSUME NEW k \in Clients, NEW s \in Scopes, Connect(k, s)
         PROVE  TypeOK'
    BY <1>10 DEF TypeOK, Connect, groupVars, streamVars
  <1>11. ASSUME NEW k \in Clients, NEW s \in Scopes, UpdateScope(k, s)
         PROVE  TypeOK'
    <2>1. scope' \in [Clients -> SUBSET Tags]
      BY <1>11 DEF TypeOK, UpdateScope
    <2>2. due' \in [Clients -> SUBSET Records]
      BY <1>11 DEF TypeOK, UpdateScope
    <2> QED BY <1>11, <2>1, <2>2 DEF TypeOK, UpdateScope, groupVars, streamVars
  <1>12. ASSUME NEW k \in Clients, Disconnect(k)
         PROVE  TypeOK'
    BY <1>12 DEF TypeOK, Disconnect, groupVars, streamVars
  <1> QED BY <1>1, <1>2, <1>3, <1>4, <1>5, <1>7, <1>8, <1>9, <1>10, <1>11, <1>12 DEF Environment

\* What a received event is: the first in the stream.
LEMMA ReceivedFirst ==
  ASSUME TypeOK, NEW r \in Routers, NEW i \in DOMAIN wire[r], Dispatch(r, i)
  PROVE  /\ i = 1 /\ wire[r] # << >>
         /\ wire[r][i] = Head(wire[r]) /\ Head(wire[r]) \in Records
         /\ wire' = [wire EXCEPT ![r] = Tail(wire[r])]
         /\ Tail(wire[r]) \in Seq(Records)
  <1>1. wire[r] \in Seq(Records) /\ i = 1
    BY DEF TypeOK, Dispatch, Received
  <1>2. wire' = [wire EXCEPT ![r] = SubSeq(@, 1, 1 - 1) \o SubSeq(@, 1 + 1, Len(@))]
    BY <1>1 DEF Dispatch
  <1>3. /\ wire[r] # << >> /\ wire[r][1] = Head(wire[r])
        /\ SubSeq(wire[r], 1, 1 - 1) \o SubSeq(wire[r], 1 + 1, Len(wire[r])) = Tail(wire[r])
    BY <1>1, WithoutFirst
  <1> QED BY <1>1, <1>2, <1>3, TailElements

LEMMA RouterType ==
  ASSUME TypeOK, NEW r \in Routers, Consume(r) \/ SendEvent(r) \/ Receive(r)
  PROVE  TypeOK'
  <1>1. ASSUME NEW p \in Partitions, Poll(r, p)
        PROVE  TypeOK'
    <2>1. PICK end \in next[p] + 1 .. Len(topic[p]) :
            /\ batch' = [batch EXCEPT ![r] = [i \in 1 .. end - next[p] |-> <<p, next[p] + i>>]]
            /\ next' = [next EXCEPT ![p] = end]
      BY <1>1 DEF Poll
    <2>2. next[p] \in Nat /\ Len(topic[p]) \in Nat /\ end \in Nat /\ end - next[p] \in Nat
      BY <2>1 DEF TypeOK
    <2>3. \A i \in 1 .. end - next[p] : <<p, next[p] + i>> \in Records
      BY <2>2 DEF Records
    <2>4. [i \in 1 .. end - next[p] |-> <<p, next[p] + i>>] \in Seq(Records)
      BY <2>2, <2>3, SeqDef
    <2> QED BY <1>1, <2>1, <2>2, <2>4 DEF TypeOK, Poll, streamVars, clientVars
  <1>2. CASE Skip(r)
    BY <1>2, AdvanceType, LoseType DEF TypeOK, Skip, streamVars, clientVars
  <1>3. CASE Route(r)
    <2> DEFINE x == Head(batch[r])
    <2>1. /\ x \in Records /\ batch' \in [Routers -> Seq(Records)]
          /\ marked' \in [Partitions -> Nat]
      BY <1>3, AdvanceType DEF Route
    <2>2. out' \in [Routers -> Seq(Records)]
      <3>1. Append(out[r], x) \in Seq(Records)
        BY <2>1 DEF TypeOK
      <3> QED BY <1>3, <3>1 DEF TypeOK, Route
    <2>3. due' \in [Clients -> SUBSET Records]
      BY <1>3, LoseType DEF TypeOK, Route
    <2>4. dropped' \in [Clients -> SUBSET Records]
      <3>1. \/ dropped' = dropped
            \/ dropped' = [k \in Clients |->
                             IF Matches(scope[k], x) THEN dropped[k] \cup {x} ELSE dropped[k]]
        BY <1>3 DEF Route
      <3>2. dropped \in [Clients -> SUBSET Records] /\ x \in Records
        BY <2>1 DEF TypeOK
      <3> HIDE DEF x
      <3>3. \A k \in Clients : dropped[k] \cup {x} \in SUBSET Records
        BY <3>2
      <3> QED BY <3>1, <3>2, <3>3
    <2> QED BY <1>3, <2>1, <2>2, <2>3, <2>4 DEF TypeOK, Route, clientVars
  <1>4. CASE SendEvent(r)
    <2>1. Head(out[r]) \in Records /\ Tail(out[r]) \in Seq(Records)
      BY <1>4, TailElements DEF TypeOK, SendEvent
    <2>2. Append(wire[r], Head(out[r])) \in Seq(Records)
      BY <2>1 DEF TypeOK
    <2> QED BY <1>4, <2>1, <2>2 DEF TypeOK, SendEvent, groupVars, clientVars
  <1>5. ASSUME NEW i \in DOMAIN wire[r], Dispatch(r, i)
        PROVE  TypeOK'
    <2>1. /\ wire[r][i] \in Records
          /\ wire' \in [Routers -> Seq(Records)]
      <3>1. /\ wire[r][i] \in Records /\ Tail(wire[r]) \in Seq(Records)
            /\ wire' = [wire EXCEPT ![r] = Tail(wire[r])]
        BY <1>5, ReceivedFirst
      <3> QED BY <3>1 DEF TypeOK
    <2>2. \A k \in Clients : Append(queue[k], wire[r][i]) \in Seq(Records)
      BY <2>1 DEF TypeOK
    <2>3. queue' \in [Clients -> Seq(Records)]
      BY <1>5, <2>2 DEF TypeOK, Dispatch
    <2>4. due' \in [Clients -> SUBSET Records] /\ dropped' \in [Clients -> SUBSET Records]
      BY <1>5, <2>1 DEF TypeOK, Dispatch
    <2> QED BY <1>5, <2>1, <2>3, <2>4 DEF TypeOK, Dispatch, groupVars
  <1> QED BY <1>1, <1>2, <1>3, <1>4, <1>5 DEF Consume, Receive

LEMMA ShowType ==
  ASSUME TypeOK, NEW k \in Clients, Show(k)
  PROVE  TypeOK'
  <1>1. Head(queue[k]) \in Records /\ Tail(queue[k]) \in Seq(Records)
    BY TailElements DEF TypeOK, Show
  <1>2. Append(shown[k], Head(queue[k])) \in Seq(Records)
    BY <1>1 DEF TypeOK
  <1> QED BY <1>1, <1>2 DEF TypeOK, Show, groupVars, streamVars

LEMMA StutterType ==
  ASSUME TypeOK, UNCHANGED vars
  PROVE  TypeOK'
  BY DEF TypeOK, vars, groupVars, streamVars, clientVars

LEMMA InitType == Init => TypeOK
  BY PushAssumption DEF Init, TypeOK

LEMMA NextType == TypeOK /\ [Next]_vars => TypeOK'
  BY EnvironmentType, RouterType, ShowType, StutterType DEF Next

\* The state of the path is well typed in every behaviour.
THEOREM TypeCorrect == Spec => []TypeOK
  BY InitType, NextType, PTL DEF Spec

-----------------------------------------------------------------------------
(* Steps by what they leave alone *)

\* What touches neither the topic nor the consumers.
Aside ==
  \/ \E p \in Partitions : Age(p)
  \/ \E r \in Routers : Open(r) \/ Break(r) \/ SendEvent(r) \/ Receive(r)
  \/ \E r \in Routers, i \in Interests : SetInterest(r, i)
  \/ \E k \in Clients, s \in Scopes : Connect(k, s) \/ UpdateScope(k, s)
  \/ \E k \in Clients : Disconnect(k) \/ Show(k)
  \/ UNCHANGED vars

LEMMA AsideSame ==
  ASSUME Aside
  PROVE  UNCHANGED <<topic, next, marked, committed, owner, batch>>
  BY DEF Aside, Age, Open, Break, SendEvent, Receive, Dispatch, SetInterest, Connect,
         UpdateScope, Disconnect, Show, groupVars, vars

LEMMA StepKinds ==
  ASSUME [Next]_vars
  PROVE  \/ Aside
         \/ \E e \in Events : Publish(e)
         \/ \E p \in Partitions : AutoCommit(p)
         \/ \E p \in Partitions, r \in Routers : Moved(p, r) \/ Poll(r, p)
         \/ \E r \in Routers : RouterStops(r) \/ Skip(r) \/ Route(r)
  BY DEF Next, Environment, Consume, Aside

-----------------------------------------------------------------------------
(* Offsets and batches *)

LEMMA PublishGrows ==
  ASSUME TypeOK, NEW e \in Events, Publish(e)
  PROVE  /\ PartitionOf[VinOf[e]] \in Partitions
         /\ topic'[PartitionOf[VinOf[e]]] = Append(topic[PartitionOf[VinOf[e]]], e)
         /\ \A p \in Partitions : p # PartitionOf[VinOf[e]] => topic'[p] = topic[p]
         /\ \A p \in Partitions : DOMAIN topic[p] \subseteq DOMAIN topic'[p]
                                  /\ Len(topic[p]) <= Len(topic'[p])
         /\ \A p \in Partitions : \A o \in DOMAIN topic[p] : topic'[p][o] = topic[p][o]
  <1> DEFINE v == PartitionOf[VinOf[e]]
  <1>1. v \in Partitions /\ topic[v] \in Seq(Events)
    BY PushAssumption DEF TypeOK
  <1>2. topic' = [topic EXCEPT ![v] = Append(topic[v], e)]
    BY DEF Publish
  <1>3. topic'[v] = Append(topic[v], e) /\ \A p \in Partitions : p # v => topic'[p] = topic[p]
    BY <1>1, <1>2 DEF TypeOK
  <1> HIDE DEF v
  <1>4. /\ DOMAIN topic[v] \subseteq DOMAIN Append(topic[v], e)
        /\ Len(topic[v]) <= Len(Append(topic[v], e))
        /\ \A o \in DOMAIN topic[v] : Append(topic[v], e)[o] = topic[v][o]
    BY <1>1
  <1>5. \A p \in Partitions : Len(topic[p]) \in Nat
    BY DEF TypeOK
  <1>6. \A p \in Partitions : /\ DOMAIN topic[p] \subseteq DOMAIN topic'[p]
                              /\ Len(topic[p]) <= Len(topic'[p])
                              /\ \A o \in DOMAIN topic[p] : topic'[p][o] = topic[p][o]
    BY <1>3, <1>4, <1>5
  <1> QED BY <1>1, <1>3, <1>6 DEF v

LEMMA ResumeBounds ==
  ASSUME TypeOK, OffsetsOK, NEW p \in Partitions
  PROVE  Resume(p) \in Nat /\ committed[p] <= Resume(p) /\ Resume(p) <= Len(topic[p])
  <1>1. /\ committed[p] \in Nat /\ marked[p] \in Nat /\ next[p] \in Nat /\ Len(topic[p]) \in Nat
        /\ committed[p] <= marked[p] /\ marked[p] <= next[p] /\ next[p] <= Len(topic[p])
    BY DEF TypeOK, OffsetsOK
  <1> QED BY <1>1 DEF Resume

\* Advance marks nothing but what has been polled.
LEMMA AdvanceMarks ==
  ASSUME TypeOK, NEW r \in Routers, batch[r] # << >>, Advance(r)
  PROVE  /\ Head(batch[r]) \in Records
         /\ \A p \in Partitions :
              \/ marked'[p] = marked[p]
              \/ /\ p = Head(batch[r])[1] /\ owner[p] = r
                 /\ marked'[p] = Head(batch[r])[2] /\ next[p] = Head(batch[r])[2]
  <1>1. Head(batch[r]) \in Records
    BY AdvanceType
  <1>2. PICK x \in Records : x = Head(batch[r])
    BY <1>1
  <1>3. marked' = IF owner[x[1]] = r /\ next[x[1]] = x[2]
                  THEN [marked EXCEPT ![x[1]] = x[2]] ELSE marked
    BY <1>2 DEF Advance
  <1>4. marked \in [Partitions -> Nat] /\ x[1] \in Partitions
    BY DEF TypeOK, Records
  <1> QED BY <1>1, <1>2, <1>3, <1>4

LEMMA OffsetsStep ==
  ASSUME TypeOK, OffsetsOK, [Next]_vars
  PROVE  OffsetsOK'
  <1>0. \A p \in Partitions :
          /\ committed[p] \in Nat /\ marked[p] \in Nat /\ next[p] \in Nat /\ Len(topic[p]) \in Nat
          /\ committed[p] <= marked[p] /\ marked[p] <= next[p] /\ next[p] <= Len(topic[p])
    BY DEF TypeOK, OffsetsOK
  <1>1. CASE Aside
    BY <1>1, AsideSame DEF OffsetsOK
  <1>2. ASSUME NEW e \in Events, Publish(e)
        PROVE  OffsetsOK'
    <2>1. \A p \in Partitions : Len(topic[p]) <= Len(topic'[p]) /\ Len(topic'[p]) \in Nat
      <3>1. TypeOK'
        BY <1>2, NextType DEF Next, Environment
      <3>2. \A p \in Partitions : Len(topic'[p]) \in Nat
        BY <3>1 DEF TypeOK
      <3> QED BY <1>2, <3>2, PublishGrows
    <2>2. UNCHANGED <<next, marked, committed>>
      BY <1>2 DEF Publish, groupVars
    <2> QED BY <1>0, <2>1, <2>2 DEF OffsetsOK
  <1>3. ASSUME NEW p \in Partitions, AutoCommit(p)
        PROVE  OffsetsOK'
    BY <1>0, <1>3 DEF AutoCommit, OffsetsOK, TypeOK
  <1>4. ASSUME NEW p \in Partitions, NEW r \in Routers, Moved(p, r)
        PROVE  OffsetsOK'
    <2>1. Resume(p) \in Nat /\ committed[p] <= Resume(p) /\ Resume(p) <= Len(topic[p])
      BY ResumeBounds
    <2>2. /\ next' = [next EXCEPT ![p] = Resume(p)]
          /\ marked' = [marked EXCEPT ![p] = committed[p]]
          /\ UNCHANGED <<topic, committed>>
      BY <1>4 DEF Moved
    <2> QED BY <1>0, <2>1, <2>2 DEF OffsetsOK, TypeOK
  <1>5. ASSUME NEW p \in Partitions, NEW r \in Routers, Poll(r, p)
        PROVE  OffsetsOK'
    <2>1. PICK end \in next[p] + 1 .. Len(topic[p]) : next' = [next EXCEPT ![p] = end]
      BY <1>5 DEF Poll
    <2>2. UNCHANGED <<topic, marked, committed>>
      BY <1>5 DEF Poll
    <2> QED BY <1>0, <2>1, <2>2 DEF OffsetsOK, TypeOK
  <1>6. ASSUME NEW r \in Routers, RouterStops(r)
        PROVE  OffsetsOK'
    <2>1. \A p \in Partitions :
            Resume(p) \in Nat /\ committed[p] <= Resume(p) /\ Resume(p) <= Len(topic[p])
      BY ResumeBounds
    <2>2. /\ next' = [p \in Partitions |-> IF owner[p] = r THEN Resume(p) ELSE next[p]]
          /\ marked' = [p \in Partitions |-> IF owner[p] = r THEN committed[p] ELSE marked[p]]
          /\ UNCHANGED <<topic, committed>>
      BY <1>6 DEF RouterStops
    <2> QED BY <1>0, <2>1, <2>2 DEF OffsetsOK
  <1>7. ASSUME NEW r \in Routers, Skip(r) \/ Route(r)
        PROVE  OffsetsOK'
    <2>1. batch[r] # << >> /\ Advance(r) /\ UNCHANGED <<topic, next, committed>>
      BY <1>7 DEF Skip, Route
    <2>2. \A p \in Partitions : marked'[p] = marked[p] \/ marked'[p] = next[p]
      BY <2>1, AdvanceMarks
    <2> QED BY <1>0, <2>1, <2>2 DEF OffsetsOK
  <1> QED BY <1>1, <1>2, <1>3, <1>4, <1>5, <1>6, <1>7, StepKinds

\* The place of a record that remains in a batch.
LEMMA TailPlaces ==
  ASSUME NEW S, NEW s \in Seq(S), s # << >>
  PROVE  /\ 1 \in DOMAIN s /\ s[1] = Head(s)
         /\ \A i \in DOMAIN Tail(s) : i \in Nat \ {0} /\ i + 1 \in DOMAIN s /\ Tail(s)[i] = s[i + 1]
  <1>1. Len(s) \in Nat \ {0} /\ DOMAIN s = 1 .. Len(s) /\ DOMAIN Tail(s) = 1 .. Len(s) - 1
    OBVIOUS
  <1>2. \A i \in 1 .. Len(s) - 1 : Tail(s)[i] = s[i + 1]
    OBVIOUS
  <1> QED BY <1>1, <1>2

LEMMA BatchStep ==
  ASSUME TypeOK, BatchOK, [Next]_vars
  PROVE  BatchOK'
  <1>0. \A q \in Routers : Sorted(batch[q])
    BY DEF BatchOK
  <1>1. (\A q \in Routers : Sorted(batch'[q])) => BatchOK'
    BY DEF BatchOK, Sorted
  <1>2. CASE batch' = batch
    BY <1>2 DEF BatchOK, Sorted
  <1>3. ASSUME NEW p \in Partitions, NEW r \in Routers, Poll(r, p)
        PROVE  BatchOK'
    <2>1. PICK end \in next[p] + 1 .. Len(topic[p]) :
            batch' = [batch EXCEPT ![r] = [i \in 1 .. end - next[p] |-> <<p, next[p] + i>>]]
      BY <1>3 DEF Poll
    <2>2. next[p] \in Nat /\ end - next[p] \in Nat
      BY <2>1 DEF TypeOK
    <2>3. Sorted([i \in 1 .. end - next[p] |-> <<p, next[p] + i>>])
      BY <2>2 DEF Sorted
    <2>4. \A q \in Routers : q # r => batch'[q] = batch[q]
      BY <2>1 DEF TypeOK
    <2>5. batch'[r] = [i \in 1 .. end - next[p] |-> <<p, next[p] + i>>]
      BY <2>1 DEF TypeOK
    <2> QED BY <1>0, <1>1, <2>3, <2>4, <2>5
  <1>4. ASSUME NEW r \in Routers, RouterStops(r)
        PROVE  BatchOK'
    <2>1. \A q \in Routers : batch'[q] = batch[q] \/ batch'[q] = << >>
      BY <1>4 DEF RouterStops, TypeOK
    <2>2. Sorted(<< >>)
      BY DEF Sorted
    <2> QED BY <1>0, <1>1, <2>1, <2>2
  <1>5. ASSUME NEW r \in Routers, Skip(r) \/ Route(r)
        PROVE  BatchOK'
    <2>1. batch[r] # << >> /\ batch' = [batch EXCEPT ![r] = Tail(batch[r])]
      BY <1>5 DEF Skip, Route, Advance
    <2>2. batch'[r] = Tail(batch[r]) /\ \A q \in Routers : q # r => batch'[q] = batch[q]
      BY <2>1 DEF TypeOK
    <2>3. \A i \in DOMAIN Tail(batch[r]) :
            i \in Nat /\ i + 1 \in DOMAIN batch[r] /\ Tail(batch[r])[i] = batch[r][i + 1]
      BY <2>1, TailPlaces DEF TypeOK
    <2>4. Sorted(batch[r])
      BY <1>0
    <2>5. Sorted(Tail(batch[r]))
      BY <2>3, <2>4 DEF Sorted
    <2> QED BY <1>0, <1>1, <2>2, <2>5
  <1>6. (\/ Aside \/ (\E e \in Events : Publish(e)) \/ (\E p \in Partitions : AutoCommit(p))
         \/ (\E p \in Partitions, r \in Routers : Moved(p, r))) => batch' = batch
    BY AsideSame DEF Publish, AutoCommit, Moved
  <1> QED BY <1>2, <1>3, <1>4, <1>5, <1>6, StepKinds

-----------------------------------------------------------------------------
(* What is due *)

LEMMA DueStep ==
  ASSUME TypeOK, DueOK, [Next]_vars
  PROVE  DueOK'
  <1>1. CASE /\ UNCHANGED <<topic, clients, scope>>
             /\ \A k \in Clients : due'[k] \subseteq due[k]
    BY <1>1 DEF DueOK
  <1>2. ASSUME NEW e \in Events, Publish(e)
        PROVE  DueOK'
    <2> DEFINE p == PartitionOf[VinOf[e]]
               x == <<p, Len(topic[p]) + 1>>
    <2>1. UNCHANGED <<clients, scope>>
      BY <1>2 DEF Publish, clientVars
    <2>2. \A k \in Clients :
            /\ due'[k] \subseteq due[k] \cup {x}
            /\ scope[k] = {} => due'[k] = due[k]
      BY <1>2 DEF Publish
    <2>3. p \in Partitions /\ topic[p] \in Seq(Events) /\ topic'[p] = Append(topic[p], e)
      BY <1>2, PublishGrows DEF TypeOK
    <2>4. x[2] \in DOMAIN topic'[x[1]]
      BY <2>3
    <2>5. \A k \in Clients : \A y \in due[k] : y[1] \in Partitions
      BY DEF TypeOK, Records
    <2>6. \A k \in Clients : \A y \in due[k] : y[2] \in DOMAIN topic'[y[1]]
      BY <1>2, <2>5, PublishGrows DEF DueOK
    <2> HIDE DEF x
    <2> QED BY <2>1, <2>2, <2>4, <2>6 DEF DueOK
  <1>3. ASSUME NEW k \in Clients, NEW s \in Scopes, Connect(k, s) \/ UpdateScope(k, s)
        PROVE  DueOK'
    <2>1. /\ topic' = topic /\ k \in clients' /\ clients' = clients \cup {k}
          /\ \A c \in Clients : c # k => scope'[c] = scope[c]
          /\ \A c \in Clients : due'[c] \subseteq due[c]
      BY <1>3 DEF Connect, UpdateScope, TypeOK
    <2> QED BY <2>1 DEF DueOK
  <1>4. ASSUME NEW k \in Clients, Disconnect(k)
        PROVE  DueOK'
    <2>1. /\ topic' = topic /\ clients' = clients \ {k}
          /\ scope'[k] = {} /\ due'[k] = {}
          /\ \A c \in Clients : c # k => scope'[c] = scope[c] /\ due'[c] = due[c]
      BY <1>4 DEF Disconnect, TypeOK
    <2> QED BY <2>1 DEF DueOK
  <1>5. ASSUME NEW r \in Routers,
               \/ Break(r) \/ RouterStops(r) \/ Skip(r) \/ Route(r) \/ Open(r) \/ SendEvent(r)
               \/ Receive(r) \/ \E i \in Interests : SetInterest(r, i)
               \/ \E p \in Partitions : Poll(r, p) \/ Moved(p, r)
        PROVE  DueOK'
    <2>1. UNCHANGED <<topic, clients, scope>>
      BY <1>5 DEF Break, RouterStops, Skip, Route, Open, SendEvent, Receive, Dispatch, SetInterest,
                  Poll, Moved, clientVars
    <2>2. \A k \in Clients : due'[k] \subseteq due[k]
      BY <1>5 DEF Break, RouterStops, StreamEnds, Skip, Route, Lose, Open, SendEvent, Receive,
                  Dispatch, SetInterest, Poll, Moved
    <2> QED BY <1>1, <2>1, <2>2
  <1>6. CASE \/ \E p \in Partitions : Age(p) \/ AutoCommit(p)
             \/ \E k \in Clients : Show(k)
             \/ UNCHANGED vars
    <2>1. UNCHANGED <<topic, clients, scope, due>>
      BY <1>6 DEF Age, AutoCommit, Show, clientVars, vars
    <2> QED BY <1>1, <2>1
  <1> QED BY <1>2, <1>3, <1>4, <1>5, <1>6 DEF Next, Environment, Consume

-----------------------------------------------------------------------------
(* What is due still comes *)

\* StillComes speaks of these variables only.
LEMMA SameView ==
  ASSUME UNCHANGED <<topic, next, marked, owner, batch, scope, interest, queue, shown, out, wire>>,
         NEW k, NEW x, StillComes(k, x)
  PROVE  StillComes(k, x)'
  BY DEF StillComes, Got, PastHub, Awaited, Ahead, Matches, EventAt, Elements

\* What a client must get and has not got, its scope allows.
LEMMA GotOrAllowed ==
  ASSUME NEW k, NEW x, StillComes(k, x)
  PROVE  x \in Got(k) \/ Matches(scope[k], x)
  BY DEF StillComes, Awaited

\* Streams, scopes and queues may do what they do to events past the hub as long as
\* these stay past the hub and the consumers are left alone.
LEMMA PastHubKept ==
  ASSUME UNCHANGED <<topic, next, marked, owner, batch, interest>>,
         NEW k \in Clients, NEW x, StillComes(k, x), scope'[k] = scope[k],
         Got(k) \subseteq Got(k)',
         x \in PastHub(k, Routers) => x \in PastHub(k, Routers)' \/ ~ Matches(scope[k], x)
  PROVE  StillComes(k, x)'
  <1>1. CASE x \in Got(k)
    BY <1>1 DEF StillComes
  <1>2. CASE Matches(scope[k], x) /\ x \in PastHub(k, Routers)
    <2>1. Matches(scope[k], x)'
      BY <1>2 DEF Matches, EventAt
    <2> QED BY <1>2, <2>1 DEF StillComes
  <1>3. CASE Awaited(k, x) /\ x[2] > marked[x[1]]
    BY <1>3 DEF StillComes, Awaited, Ahead, Matches, EventAt, Elements
  <1> QED BY <1>1, <1>2, <1>3 DEF StillComes

LEMMA PublishCovers ==
  ASSUME IInv, NEW e \in Events, Publish(e)
  PROVE  Covered'
  <1> DEFINE p == PartitionOf[VinOf[e]]
  <1>0. PICK new \in Records : new = <<p, Len(topic[p]) + 1>>
    <2>1. p \in Partitions /\ Len(topic[p]) \in Nat
      <3>1. TypeOK
        BY DEF IInv
      <3>2. p \in Partitions
        BY <3>1, PublishGrows
      <3>3. \A q \in Partitions : Len(topic[q]) \in Nat
        BY <3>1 DEF TypeOK
      <3> QED BY <3>2, <3>3
    <2>2. <<p, Len(topic[p]) + 1>> \in Records
      BY <2>1 DEF Records
    <2> QED BY <2>2
  <1>1. SUFFICES ASSUME NEW k \in Clients, NEW x \in due'[k]
                 PROVE  StillComes(k, x)'
    BY DEF Covered
  <1>2. /\ UNCHANGED <<next, marked, owner, batch, scope, interest, queue, shown, out, wire>>
        /\ x \in due[k]
           \/ (x = new /\ scope[k] \cap TagsOf[e] # {}
               /\ \A r \in Routers : interest[r] \cap TagsOf[e] # {})
    BY <1>0, <1>1 DEF Publish, groupVars, streamVars, clientVars
  <1>3. CASE x \in due[k]
    <2>1. x[1] \in Partitions /\ x[2] \in DOMAIN topic[x[1]]
      BY <1>3 DEF IInv, TypeOK, DueOK, Records
    <2>2. EventAt(x)' = EventAt(x)
      BY <2>1, PublishGrows DEF IInv, EventAt
    <2>3. StillComes(k, x)
      BY <1>3 DEF IInv, Covered
    <2> QED BY <1>2, <2>2, <2>3 DEF StillComes, Got, PastHub, Awaited, Ahead, Matches, Elements
  <1>4. CASE x = new /\ x \notin due[k]
    <2>1. /\ p \in Partitions /\ topic[p] \in Seq(Events)
          /\ topic'[p] = Append(topic[p], e)
      BY PublishGrows DEF IInv, TypeOK
    <2>2. x[1] = p /\ x[2] = Len(topic[p]) + 1
      BY <1>0, <1>4
    <2>3. EventAt(x)' = e
      BY <2>1, <2>2 DEF EventAt
    <2>4. x[2] > next[x[1]] /\ x[2] > marked[x[1]]
      BY <2>1, <2>2 DEF IInv, TypeOK, OffsetsOK
    <2>5. Ahead(x)'
      BY <1>2, <2>4 DEF Ahead
    <2>6. Matches(scope[k], x)' /\ \A r \in Routers : Matches(interest[r], x)'
      BY <1>2, <1>4, <2>3 DEF Matches
    <2> QED BY <1>2, <2>4, <2>5, <2>6 DEF StillComes, Awaited
  <1> QED BY <1>2, <1>3, <1>4

LEMMA MovedCovers ==
  ASSUME IInv, NEW p \in Partitions, NEW r \in Routers, Moved(p, r)
  PROVE  Covered'
  <1>1. SUFFICES ASSUME NEW k \in Clients, NEW x \in due'[k]
                 PROVE  StillComes(k, x)'
    BY DEF Covered
  <1>2. /\ UNCHANGED <<topic, batch, scope, interest, queue, shown, out, wire>>
        /\ owner' = [owner EXCEPT ![p] = r]
        /\ next' = [next EXCEPT ![p] = Resume(p)]
        /\ marked' = [marked EXCEPT ![p] = committed[p]]
    BY DEF Moved, streamVars, clientVars
  <1>3. x \in due[k] /\ (committed[p] = 0 /\ x[1] = p => x \in PastHub(k, Routers))
    BY <1>1 DEF Moved
  <1>4. x[1] \in Partitions /\ x[2] \in Nat
    <2>1. x \in Records
      BY <1>3 DEF IInv, TypeOK
    <2> QED BY <2>1 DEF Records
  <1>5. StillComes(k, x)
    BY <1>3 DEF IInv, Covered
  <1>6. CASE x \in Got(k)
    BY <1>2, <1>6 DEF StillComes, Got, Elements
  <1>7. CASE Matches(scope[k], x) /\ x \in PastHub(k, Routers)
    BY <1>2, <1>7 DEF StillComes, PastHub, Got, Elements, Matches, EventAt
  <1>8. CASE Awaited(k, x) /\ x[2] > marked[x[1]] /\ x \notin PastHub(k, Routers)
    <2>1. Ahead(x)' /\ x[2] > marked'[x[1]]
      <3>1. CASE x[1] = p
        <4>1. committed[p] # 0 /\ committed[p] \in Nat /\ marked[p] \in Nat /\ committed[p] <= marked[p]
          BY <1>3, <1>8, <3>1 DEF IInv, TypeOK, OffsetsOK
        <4>2. next'[p] = committed[p] /\ marked'[p] = committed[p]
          BY <1>2, <4>1 DEF IInv, TypeOK, Resume
        <4>3. x[2] > committed[p]
          BY <1>4, <1>8, <3>1, <4>1
        <4> QED BY <3>1, <4>2, <4>3 DEF Ahead
      <3>2. CASE x[1] # p
        <4>1. /\ owner'[x[1]] = owner[x[1]] /\ next'[x[1]] = next[x[1]]
              /\ marked'[x[1]] = marked[x[1]]
          BY <1>2, <1>4, <3>2 DEF IInv, TypeOK
        <4> QED BY <1>2, <1>8, <4>1 DEF Awaited, Ahead, Elements
      <3> QED BY <3>1, <3>2
    <2> QED BY <1>2, <1>8, <2>1 DEF StillComes, Awaited, Matches, EventAt
  <1> QED BY <1>5, <1>6, <1>7, <1>8 DEF StillComes, Awaited

\* After the end of a stream only what is past another hub, or with the client, is due.
LEMMA EndedCovers ==
  ASSUME IInv, NEW r \in Routers, StreamEnds(r), UNCHANGED <<topic, scope, queue, shown>>
  PROVE  Covered'
  <1>1. SUFFICES ASSUME NEW k \in Clients, NEW x \in due'[k]
                 PROVE  StillComes(k, x)'
    BY DEF Covered
  <1>2. x \in due[k] /\ x \in PastHub(k, Routers \ {r})
    BY <1>1 DEF StreamEnds
  <1>3. x \in Got(k) \/ Matches(scope[k], x)
    BY <1>2, GotOrAllowed DEF IInv, Covered
  <1>4. Got(k)' = Got(k)
    BY DEF Got, Elements
  <1>5. \A q \in Routers \ {r} : out'[q] = out[q] /\ wire'[q] = wire[q]
    BY DEF StreamEnds, IInv, TypeOK
  <1>6. x \in PastHub(k, Routers)'
    <2>1. CASE x \in Got(k)
      BY <1>4, <2>1 DEF PastHub
    <2>2. ASSUME NEW q \in Routers \ {r}, x \in Elements(out[q]) \cup Elements(wire[q])
          PROVE  x \in PastHub(k, Routers)'
      <3>1. x \in (Elements(out[q]) \cup Elements(wire[q]))'
        BY <1>5, <2>2 DEF Elements
      <3> QED BY <3>1 DEF PastHub
    <2> QED BY <1>2, <2>1, <2>2 DEF PastHub
  <1>7. Matches(scope[k], x) => Matches(scope[k], x)'
    BY DEF Matches, EventAt
  <1> QED BY <1>3, <1>4, <1>6, <1>7 DEF StillComes

\* What is ahead of a router is ahead in the next batch or behind it.
LEMMA PollCovers ==
  ASSUME IInv, NEW p \in Partitions, NEW r \in Routers, Poll(r, p)
  PROVE  Covered'
  <1>1. SUFFICES ASSUME NEW k \in Clients, NEW x \in due'[k]
                 PROVE  StillComes(k, x)'
    BY DEF Covered
  <1>2. /\ UNCHANGED <<topic, owner, marked, scope, interest, queue, shown, out, wire, due>>
        /\ owner[p] = r /\ batch[r] = << >>
    BY DEF Poll, streamVars, clientVars
  <1>3. PICK end \in next[p] + 1 .. Len(topic[p]) :
          /\ batch' = [batch EXCEPT ![r] = [i \in 1 .. end - next[p] |-> <<p, next[p] + i>>]]
          /\ next' = [next EXCEPT ![p] = end]
    BY DEF Poll
  <1>4. x \in Records /\ x \in due[k] /\ next[p] \in Nat /\ end \in Nat
    BY <1>1, <1>2, <1>3 DEF IInv, TypeOK
  <1>5. StillComes(k, x)
    BY <1>4 DEF IInv, Covered
  <1>6. Ahead(x) => Ahead(x)'
    <2>1. CASE x[1] = p
      <3>1. Elements(batch[owner[p]]) = {}
        BY <1>2 DEF Elements
      <3>2. batch'[r] = [i \in 1 .. end - next[p] |-> <<p, next[p] + i>>] /\ next'[p] = end
        BY <1>3 DEF IInv, TypeOK
      <3>3. x = <<p, x[2]>> /\ x[2] \in Nat
        BY <1>4, <2>1 DEF Records
      <3>4. ASSUME x[2] > next[p], ~ (x[2] > end)
            PROVE  x \in Elements(batch'[r])
        <4>1. x[2] - next[p] \in DOMAIN batch'[r]
          BY <1>4, <3>2, <3>3, <3>4
        <4>2. batch'[r][x[2] - next[p]] = x
          BY <1>4, <3>2, <3>3, <4>1
        <4> QED BY <4>1, <4>2 DEF Elements
      <3>5. Ahead(x) => x[2] > next[p]
        BY <2>1, <3>1 DEF Ahead
      <3>6. x[2] > end \/ x \in Elements(batch'[r]) => Ahead(x)'
        BY <1>2, <2>1, <3>2 DEF Ahead, Elements
      <3> QED BY <3>4, <3>5, <3>6
    <2>2. CASE x[1] # p
      <3>1. next'[x[1]] = next[x[1]]
        BY <1>3, <1>4, <2>2 DEF IInv, TypeOK, Records
      <3>2. x \in Elements(batch[owner[x[1]]]) => owner[x[1]] # r
        BY <1>2 DEF Elements
      <3>3. owner[x[1]] # r => batch'[owner[x[1]]] = batch[owner[x[1]]]
        BY <1>3, <1>4 DEF IInv, TypeOK, Records
      <3> QED BY <1>2, <3>1, <3>2, <3>3 DEF Ahead, Elements
    <2> QED BY <2>1, <2>2
  <1> QED BY <1>2, <1>5, <1>6 DEF StillComes, Got, PastHub, Awaited, Matches, EventAt, Elements

\* When a router is done with its record, the others of its batch are ahead still.
LEMMA AdvanceKeeps ==
  ASSUME IInv, NEW r \in Routers, batch[r] # << >>, Advance(r), UNCHANGED <<owner, next>>,
         NEW x \in Records, x # Head(batch[r]), Ahead(x), x[2] > marked[x[1]]
  PROVE  Ahead(x)' /\ x[2] > marked'[x[1]]
  <1>1. /\ batch[r] \in Seq(Records) /\ batch' = [batch EXCEPT ![r] = Tail(batch[r])]
        /\ x[1] \in Partitions /\ x[2] \in Nat
    BY DEF IInv, TypeOK, Advance, Records
  <1>2. /\ Elements(batch[r]) = Elements(Tail(batch[r])) \cup {Head(batch[r])}
        /\ Head(batch[r]) \in Records
    BY <1>1, TailElements
  <1>3. batch'[r] = Tail(batch[r]) /\ \A q \in Routers : q # r => batch'[q] = batch[q]
    BY <1>1 DEF IInv, TypeOK
  <1>4. owner[x[1]] \in Routers /\ next[x[1]] \in Nat
    BY <1>1 DEF IInv, TypeOK
  <1>5. x[2] > next[x[1]] \/ x \in Elements(batch'[owner[x[1]]])
    BY <1>2, <1>3, <1>4 DEF Ahead
  <1>6. Ahead(x)'
    BY <1>5 DEF Ahead, Elements
  <1>7. x[2] > marked'[x[1]]
    <2>1. CASE marked'[x[1]] = marked[x[1]]
      BY <2>1
    <2>2. CASE /\ x[1] = Head(batch[r])[1] /\ owner[x[1]] = r
               /\ marked'[x[1]] = Head(batch[r])[2] /\ next[x[1]] = Head(batch[r])[2]
      <3>1. CASE x[2] > next[x[1]]
        BY <2>2, <3>1
      <3>2. CASE x \in Elements(Tail(batch[r]))
        <4>1. PICK i \in DOMAIN Tail(batch[r]) : x = Tail(batch[r])[i]
          BY <3>2 DEF Elements
        <4>2. /\ 1 \in DOMAIN batch[r] /\ batch[r][1] = Head(batch[r])
              /\ i \in Nat \ {0} /\ i + 1 \in DOMAIN batch[r] /\ x = batch[r][i + 1]
          BY <1>1, <4>1, TailPlaces
        <4>3. 1 < i + 1 /\ batch[r][1][1] = batch[r][i + 1][1]
          BY <2>2, <4>2
        <4>4. batch[r][1][2] < batch[r][i + 1][2]
          BY <4>2, <4>3 DEF IInv, BatchOK, Sorted
        <4> QED BY <1>1, <1>2, <2>2, <4>2, <4>4 DEF Records
      <3> QED BY <1>3, <1>5, <2>2, <3>1, <3>2
    <2> QED BY <1>1, <2>1, <2>2, AdvanceMarks DEF IInv
  <1> QED BY <1>6, <1>7

LEMMA SkipCovers ==
  ASSUME IInv, NEW r \in Routers, Skip(r)
  PROVE  Covered'
  <1>1. SUFFICES ASSUME NEW k \in Clients, NEW x \in due'[k]
                 PROVE  StillComes(k, x)'
    BY DEF Covered
  <1>2. /\ UNCHANGED <<topic, owner, next, scope, interest, queue, shown, out, wire>>
        /\ batch[r] # << >> /\ Advance(r)
        /\ x \in due[k] /\ x # Head(batch[r])
    BY <1>1 DEF Skip, Lose, streamVars, clientVars
  <1>3. x \in Records /\ StillComes(k, x)
    BY <1>2 DEF IInv, TypeOK, Covered
  <1>4. Ahead(x) /\ x[2] > marked[x[1]] => Ahead(x)' /\ x[2] > marked'[x[1]]
    BY <1>2, <1>3, AdvanceKeeps
  <1> QED BY <1>2, <1>3, <1>4 DEF StillComes, Got, PastHub, Awaited, Matches, EventAt, Elements

LEMMA RouteCovers ==
  ASSUME IInv, NEW r \in Routers, Route(r)
  PROVE  Covered'
  <1>1. SUFFICES ASSUME NEW k \in Clients, NEW x \in due'[k]
                 PROVE  StillComes(k, x)'
    BY DEF Covered
  <1>2. /\ UNCHANGED <<topic, owner, next, scope, interest, queue, shown, wire>>
        /\ batch[r] # << >> /\ Advance(r)
    BY DEF Route, clientVars
  <1>3. PICK y \in Records : y = Head(batch[r])
    BY <1>2, AdvanceType DEF IInv
  <1>4. \/ ~ Matches(interest[r], y) /\ UNCHANGED <<out, due>>
        \/ Matches(interest[r], y) /\ out' = [out EXCEPT ![r] = Append(out[r], y)] /\ due' = due
        \/ Matches(interest[r], y) /\ out' = out /\ Lose({y})
    BY <1>3 DEF Route
  <1>5. x \in due[k]
    BY <1>1, <1>4 DEF Lose
  <1>6. x \in Records /\ StillComes(k, x)
    BY <1>5 DEF IInv, TypeOK, Covered
  <1>7. /\ Elements(out[r]) \subseteq Elements(out'[r])
        /\ \A q \in Routers : q # r => out'[q] = out[q]
        /\ out' # out => y \in Elements(out'[r])
    <2>1. /\ Elements(Append(out[r], y)) = Elements(out[r]) \cup {y}
          /\ out \in [Routers -> Seq(Records)]
      BY AppendElements DEF IInv, TypeOK
    <2> QED BY <1>4, <2>1
  <1>8. PastHub(k, Routers) \subseteq PastHub(k, Routers)' /\ Got(k)' = Got(k)
    <2>1. Got(k)' = Got(k)
      BY <1>2 DEF Got, Elements
    <2>2. \A q \in Routers : Elements(out[q]) \subseteq Elements(out'[q])
      BY <1>7
    <2> QED BY <1>2, <2>1, <2>2 DEF PastHub, Elements
  <1>9. Matches(scope[k], x) => Matches(scope[k], x)'
    BY <1>2 DEF Matches, EventAt
  <1>10. CASE x \in Got(k) \/ (Matches(scope[k], x) /\ x \in PastHub(k, Routers))
    BY <1>8, <1>9, <1>10 DEF StillComes
  <1>11. CASE Awaited(k, x) /\ x[2] > marked[x[1]] /\ x = y
    <2>1. Matches(interest[r], y) /\ Matches(scope[k], x)
      BY <1>11 DEF Awaited
    <2>2. out' = [out EXCEPT ![r] = Append(out[r], y)]
      BY <1>1, <1>4, <1>11, <2>1 DEF Lose
    <2>3. y \in Elements(out'[r])
      BY <2>2, AppendElements DEF IInv, TypeOK
    <2>4. x \in PastHub(k, Routers)'
      BY <1>11, <2>3 DEF PastHub, Elements
    <2> QED BY <1>9, <2>1, <2>4 DEF StillComes
  <1>12. CASE Awaited(k, x) /\ x[2] > marked[x[1]] /\ x # y
    <2>1. Ahead(x)' /\ x[2] > marked'[x[1]]
      BY <1>2, <1>3, <1>6, <1>12, AdvanceKeeps DEF Awaited
    <2>2. interest' = interest
      BY DEF Route
    <2> QED BY <1>2, <1>12, <2>1, <2>2 DEF StillComes, Awaited, Matches, EventAt
  <1> QED BY <1>6, <1>10, <1>11, <1>12 DEF StillComes

LEMMA SendCovers ==
  ASSUME IInv, NEW r \in Routers, SendEvent(r)
  PROVE  Covered'
  <1>1. SUFFICES ASSUME NEW k \in Clients, NEW x \in due'[k]
                 PROVE  StillComes(k, x)'
    BY DEF Covered
  <1>2. UNCHANGED <<topic, next, marked, owner, batch, interest, scope, queue, shown, due>>
    BY DEF SendEvent, groupVars, clientVars
  <1>3. PICK y \in Records : y = Head(out[r])
    BY TailElements DEF SendEvent, IInv, TypeOK
  <1>4. /\ Elements(Append(wire[r], y)) = Elements(wire[r]) \cup {y}
        /\ Elements(out[r]) = Elements(Tail(out[r])) \cup {y}
    BY <1>3, AppendElements, TailElements DEF SendEvent, IInv, TypeOK
  <1>5. /\ wire'[r] = Append(wire[r], y) /\ out'[r] = Tail(out[r])
        /\ \A q \in Routers : q # r => wire'[q] = wire[q] /\ out'[q] = out[q]
    BY <1>3 DEF SendEvent, IInv, TypeOK
  <1>6. \A q \in Routers : Elements(out[q]) \cup Elements(wire[q])
                             \subseteq Elements(out'[q]) \cup Elements(wire'[q])
    BY <1>4, <1>5
  <1>7. Got(k)' = Got(k)
    BY <1>2 DEF Got, Elements
  <1>8. PastHub(k, Routers) \subseteq PastHub(k, Routers)'
    BY <1>6, <1>7 DEF PastHub, Elements
  <1>9. StillComes(k, x)
    BY <1>1, <1>2 DEF IInv, Covered
  <1> QED BY <1>2, <1>7, <1>8, <1>9, PastHubKept

LEMMA DispatchCovers ==
  ASSUME IInv, NEW r \in Routers, NEW i \in DOMAIN wire[r], Dispatch(r, i)
  PROVE  Covered'
  <1>1. SUFFICES ASSUME NEW k \in Clients, NEW x \in due'[k]
                 PROVE  StillComes(k, x)'
    BY DEF Covered
  <1>2. UNCHANGED <<topic, next, marked, owner, batch, interest, scope, shown, out>>
    BY DEF Dispatch, groupVars
  <1>3. PICK y \in Records : y = wire[r][i]
    BY ReceivedFirst DEF IInv
  <1>4. /\ wire' = [wire EXCEPT ![r] = Tail(wire[r])]
        /\ Elements(wire[r]) = Elements(Tail(wire[r])) \cup {y}
    <2>1. wire[r] \in Seq(Records) /\ wire[r] # << >> /\ y = Head(wire[r])
      BY <1>3, ReceivedFirst DEF IInv, TypeOK
    <2>2. wire' = [wire EXCEPT ![r] = Tail(wire[r])]
      BY ReceivedFirst DEF IInv
    <2> QED BY <2>1, <2>2, TailElements
  <1>5. /\ queue'[k] = IF k \in Recipients(y) /\ ~ Full(k) THEN Append(queue[k], y) ELSE queue[k]
        /\ x \in due[k] /\ ~ (k \in Recipients(y) /\ Full(k) /\ x = y)
    BY <1>1, <1>3 DEF Dispatch
  <1>6. Elements(Append(queue[k], y)) = Elements(queue[k]) \cup {y}
    BY AppendElements DEF IInv, TypeOK
  <1>7. Got(k) \subseteq Got(k)'
    BY <1>2, <1>5, <1>6 DEF Got, Elements
  <1>8. k \in clients
    BY <1>5 DEF IInv, DueOK
  <1>9. x = y /\ Matches(scope[k], x) => x \in Got(k)'
    <2>1. x = y /\ Matches(scope[k], x) => queue'[k] = Append(queue[k], y)
      BY <1>5, <1>8 DEF Recipients
    <2> QED BY <1>6, <2>1 DEF Got, Elements
  <1>10. x \in PastHub(k, Routers) => x \in PastHub(k, Routers)' \/ ~ Matches(scope[k], x)
    <2>1. ASSUME NEW q \in Routers, x \in Elements(wire[q]), x # y
          PROVE  x \in Elements(wire'[q])
      <3>1. wire'[r] = Tail(wire[r]) /\ \A s \in Routers : s # r => wire'[s] = wire[s]
        BY <1>4 DEF IInv, TypeOK
      <3> QED BY <1>4, <2>1, <3>1
    <2>2. CASE x = y
      BY <1>9, <2>2 DEF PastHub
    <2>3. CASE x # y
      <3>1. ASSUME NEW q \in Routers, x \in Elements(out[q]) \cup Elements(wire[q])
            PROVE  x \in PastHub(k, Routers)'
        <4>1. x \in Elements(out'[q]) \cup Elements(wire'[q])
          BY <1>2, <2>1, <2>3, <3>1
        <4> QED BY <4>1 DEF PastHub, Elements
      <3>2. x \in Got(k) => x \in PastHub(k, Routers)'
        BY <1>7 DEF PastHub
      <3> QED BY <3>1, <3>2 DEF PastHub
    <2> QED BY <2>2, <2>3
  <1>11. StillComes(k, x)
    BY <1>5 DEF IInv, Covered
  <1> QED BY <1>2, <1>7, <1>10, <1>11, PastHubKept

LEMMA ShowCovers ==
  ASSUME IInv, NEW c \in Clients, Show(c)
  PROVE  Covered'
  <1>1. SUFFICES ASSUME NEW k \in Clients, NEW x \in due'[k]
                 PROVE  StillComes(k, x)'
    BY DEF Covered
  <1>2. UNCHANGED <<topic, next, marked, owner, batch, interest, scope, out, wire, due>>
    BY DEF Show, groupVars, streamVars
  <1>3. PICK y \in Records : y = Head(queue[c])
    BY TailElements DEF Show, IInv, TypeOK
  <1>4. /\ Elements(Append(shown[c], y)) = Elements(shown[c]) \cup {y}
        /\ Elements(queue[c]) = Elements(Tail(queue[c])) \cup {y}
    BY <1>3, AppendElements, TailElements DEF Show, IInv, TypeOK
  <1>5. /\ shown'[c] = Append(shown[c], y) /\ queue'[c] = Tail(queue[c])
        /\ \A d \in Clients : d # c => shown'[d] = shown[d] /\ queue'[d] = queue[d]
    BY <1>3 DEF Show, IInv, TypeOK
  <1>6. Got(k) \subseteq Got(k)'
    <2>1. Got(k)' = Elements(shown'[k]) \cup Elements(queue'[k])
      BY DEF Got, Elements
    <2>2. CASE k = c
      BY <1>4, <1>5, <2>1, <2>2 DEF Got
    <2>3. CASE k # c
      BY <1>5, <2>1, <2>3 DEF Got
    <2> QED BY <2>2, <2>3
  <1>7. PastHub(k, Routers) \subseteq PastHub(k, Routers)'
    BY <1>2, <1>6 DEF PastHub, Elements
  <1>8. StillComes(k, x)
    BY <1>1, <1>2 DEF IInv, Covered
  <1> QED BY <1>2, <1>6, <1>7, <1>8, PastHubKept

LEMMA InterestCovers ==
  ASSUME IInv, NEW r \in Routers, NEW i \in Interests, SetInterest(r, i)
  PROVE  Covered'
  <1>1. SUFFICES ASSUME NEW k \in Clients, NEW x \in due'[k]
                 PROVE  StillComes(k, x)'
    BY DEF Covered
  <1>2. /\ UNCHANGED <<topic, next, marked, owner, batch, scope, queue, shown, out, wire>>
        /\ interest' = [interest EXCEPT ![r] = i]
        /\ x \in due[k] /\ (Matches(i, x) \/ x \in PastHub(k, Routers))
    BY <1>1 DEF SetInterest, groupVars, clientVars
  <1>3. StillComes(k, x)
    BY <1>2 DEF IInv, Covered
  <1>4. PastHub(k, Routers)' = PastHub(k, Routers) /\ Got(k)' = Got(k)
    BY <1>2 DEF PastHub, Got, Elements
  <1>5. Matches(scope[k], x) => Matches(scope[k], x)'
    BY <1>2 DEF Matches, EventAt
  <1>6. CASE x \in Got(k) \/ x \in PastHub(k, Routers)
    BY <1>3, <1>4, <1>5, <1>6, GotOrAllowed DEF StillComes
  <1>7. CASE Awaited(k, x) /\ x[2] > marked[x[1]] /\ Matches(i, x)
    <2>1. \A q \in Routers : Matches(interest[q], x)'
      BY <1>2, <1>7 DEF Awaited, Matches, EventAt, IInv, TypeOK
    <2>2. Ahead(x)'
      BY <1>2, <1>7 DEF Awaited, Ahead, Elements
    <2> QED BY <1>2, <1>5, <1>7, <2>1, <2>2 DEF StillComes, Awaited
  <1> QED BY <1>2, <1>3, <1>6, <1>7 DEF StillComes

LEMMA ClientCovers ==
  ASSUME IInv, NEW c \in Clients,
         Disconnect(c) \/ \E s \in Scopes : Connect(c, s) \/ UpdateScope(c, s)
  PROVE  Covered'
  <1>1. SUFFICES ASSUME NEW k \in Clients, NEW x \in due'[k]
                 PROVE  StillComes(k, x)'
    BY DEF Covered
  <1>2. UNCHANGED <<topic, next, marked, owner, batch, interest, out, wire>>
    BY DEF Disconnect, Connect, UpdateScope, groupVars, streamVars
  <1>3. CASE k # c
    <2>1. /\ scope'[k] = scope[k] /\ queue'[k] = queue[k] /\ shown'[k] = shown[k]
          /\ x \in due[k]
      BY <1>1, <1>3 DEF Disconnect, Connect, UpdateScope, IInv, TypeOK
    <2>2. Got(k)' = Got(k) /\ PastHub(k, Routers)' = PastHub(k, Routers)
      BY <1>2, <2>1 DEF Got, PastHub, Elements
    <2>3. StillComes(k, x)
      BY <2>1 DEF IInv, Covered
    <2> QED BY <1>2, <2>1, <2>2, <2>3, PastHubKept
  <1>4. CASE k = c /\ Disconnect(c)
    BY <1>1, <1>4 DEF Disconnect, IInv, TypeOK
  <1>5. ASSUME NEW s \in Scopes, k = c, Connect(c, s)
        PROVE  StillComes(k, x)'
    BY <1>1, <1>5 DEF Connect, IInv, DueOK
  <1>6. ASSUME NEW s \in Scopes, k = c, UpdateScope(c, s)
        PROVE  StillComes(k, x)'
    <2>1. /\ x \in due[k] /\ (Matches(s, x) \/ x \in Got(k))
          /\ scope'[k] = s /\ UNCHANGED <<queue, shown>>
      BY <1>1, <1>6 DEF UpdateScope, IInv, TypeOK
    <2>2. Got(k)' = Got(k) /\ PastHub(k, Routers)' = PastHub(k, Routers)
      BY <1>2, <2>1 DEF Got, PastHub, Elements
    <2>3. StillComes(k, x)
      BY <2>1 DEF IInv, Covered
    <2>4. Matches(s, x) => Matches(scope[k], x)'
      BY <1>2, <2>1 DEF Matches, EventAt
    <2>5. Awaited(k, x) /\ Matches(s, x) => Awaited(k, x)'
      BY <1>2, <2>4 DEF Awaited, Ahead, Matches, EventAt, Elements
    <2> QED BY <1>2, <2>1, <2>2, <2>3, <2>4, <2>5 DEF StillComes
  <1> QED BY <1>3, <1>4, <1>5, <1>6

\* Ageing, autocommit and a new stream do not concern what is due.
LEMMA QuietCovers ==
  ASSUME IInv,
         \/ \E p \in Partitions : Age(p) \/ AutoCommit(p)
         \/ \E r \in Routers : Open(r)
         \/ UNCHANGED vars
  PROVE  Covered'
  <1>1. /\ UNCHANGED <<topic, next, marked, owner, batch, scope, interest, queue, shown, out, wire>>
        /\ due' = due
    BY DEF Age, AutoCommit, Open, vars, groupVars, streamVars, clientVars
  <1> QED BY <1>1, SameView DEF IInv, Covered

LEMMA CoveredStep ==
  ASSUME IInv, [Next]_vars
  PROVE  Covered'
  <1>1. ASSUME NEW r \in Routers, Break(r) \/ RouterStops(r)
        PROVE  Covered'
    <2>1. StreamEnds(r) /\ UNCHANGED <<topic, scope, queue, shown>>
      BY <1>1 DEF Break, RouterStops, clientVars
    <2> QED BY <2>1, EndedCovers
  <1> QED BY <1>1, PublishCovers, MovedCovers, PollCovers, SkipCovers, RouteCovers, SendCovers,
             DispatchCovers, ShowCovers, InterestCovers, ClientCovers, QuietCovers
          DEF Next, Environment, Consume, Receive

-----------------------------------------------------------------------------
(* A router's line *)

LEMMA NothingElements == Elements(<< >>) = {} /\ Sorted(<< >>)
  BY DEF Elements, Sorted

\* What remains of a sorted sequence is sorted and behind its head.
LEMMA TailSorted ==
  ASSUME NEW s \in Seq(Records), s # << >>, Sorted(s)
  PROVE  Sorted(Tail(s)) /\ Before({Head(s)}, Elements(Tail(s)))
  <1>1. /\ 1 \in DOMAIN s /\ s[1] = Head(s)
        /\ \A i \in DOMAIN Tail(s) : i \in Nat \ {0} /\ i + 1 \in DOMAIN s /\ Tail(s)[i] = s[i + 1]
    BY TailPlaces
  <1>2. Sorted(Tail(s))
    BY <1>1 DEF Sorted
  <1>3. ASSUME NEW y \in Elements(Tail(s)), Head(s)[1] = y[1]
        PROVE  Head(s)[2] < y[2]
    <2>1. PICK i \in DOMAIN Tail(s) : y = Tail(s)[i]
      BY DEF Elements
    <2>2. 1 < i + 1 /\ i + 1 \in DOMAIN s /\ y = s[i + 1]
      BY <1>1, <2>1
    <2> QED BY <1>1, <1>3, <2>2 DEF Sorted
  <1> QED BY <1>2, <1>3 DEF Before

\* A sorted sequence may be continued with what is behind it.
LEMMA AppendSorted ==
  ASSUME NEW s \in Seq(Records), NEW x \in Records, Sorted(s), Before(Elements(s), {x})
  PROVE  Sorted(Append(s, x))
  <1>1. /\ DOMAIN Append(s, x) = DOMAIN s \cup {Len(s) + 1} /\ DOMAIN s = 1 .. Len(s)
        /\ Len(s) \in Nat
        /\ \A i \in DOMAIN s : Append(s, x)[i] = s[i]
        /\ Append(s, x)[Len(s) + 1] = x
    OBVIOUS
  <1>2. SUFFICES ASSUME NEW i \in DOMAIN Append(s, x), NEW j \in DOMAIN Append(s, x), i < j,
                        Append(s, x)[i][1] = Append(s, x)[j][1]
                 PROVE  Append(s, x)[i][2] < Append(s, x)[j][2]
    BY DEF Sorted
  <1>3. i \in DOMAIN s
    BY <1>1, <1>2
  <1>4. CASE j \in DOMAIN s
    BY <1>1, <1>2, <1>3, <1>4 DEF Sorted
  <1>5. CASE j = Len(s) + 1
    BY <1>1, <1>2, <1>3, <1>5 DEF Before, Elements
  <1> QED BY <1>1, <1>4, <1>5

LEMMA LineRoute ==
  ASSUME NEW b \in Seq(Records), NEW o \in Seq(Records), NEW w \in Seq(Records),
         InLine(b, o, w), b # << >>
  PROVE  InLine(Tail(b), o, w) /\ InLine(Tail(b), Append(o, Head(b)), w)
  <1>1. /\ Head(b) \in Records /\ Tail(b) \in Seq(Records)
        /\ Elements(b) = Elements(Tail(b)) \cup {Head(b)}
    BY TailElements
  <1>2. Elements(Append(o, Head(b))) = Elements(o) \cup {Head(b)}
    BY <1>1, AppendElements
  <1>3. Sorted(Tail(b)) /\ Before({Head(b)}, Elements(Tail(b)))
    BY TailSorted DEF InLine
  <1>4. Before(Elements(o), {Head(b)})
    BY <1>1 DEF InLine, Before
  <1>5. Sorted(Append(o, Head(b)))
    BY <1>1, <1>4, AppendSorted DEF InLine
  <1> QED BY <1>1, <1>2, <1>3, <1>5 DEF InLine, Before

LEMMA LineSend ==
  ASSUME NEW b \in Seq(Records), NEW o \in Seq(Records), NEW w \in Seq(Records),
         InLine(b, o, w), o # << >>
  PROVE  InLine(b, Tail(o), Append(w, Head(o)))
  <1>1. /\ Head(o) \in Records /\ Tail(o) \in Seq(Records)
        /\ Elements(o) = Elements(Tail(o)) \cup {Head(o)}
    BY TailElements
  <1>2. Elements(Append(w, Head(o))) = Elements(w) \cup {Head(o)}
    BY <1>1, AppendElements
  <1>3. Sorted(Tail(o)) /\ Before({Head(o)}, Elements(Tail(o)))
    BY TailSorted DEF InLine
  <1>4. Before(Elements(w), {Head(o)})
    BY <1>1 DEF InLine, Before
  <1>5. Sorted(Append(w, Head(o)))
    BY <1>1, <1>4, AppendSorted DEF InLine
  <1> QED BY <1>1, <1>2, <1>3, <1>5 DEF InLine, Before

LEMMA LineReceive ==
  ASSUME NEW b \in Seq(Records), NEW o \in Seq(Records), NEW w \in Seq(Records),
         InLine(b, o, w), w # << >>
  PROVE  /\ InLine(b, o, Tail(w))
         /\ Before({Head(w)}, Elements(b) \cup Elements(o) \cup Elements(Tail(w)))
  <1>1. Elements(w) = Elements(Tail(w)) \cup {Head(w)}
    BY TailElements
  <1>2. Sorted(Tail(w)) /\ Before({Head(w)}, Elements(Tail(w)))
    BY TailSorted DEF InLine
  <1> QED BY <1>1, <1>2 DEF InLine, Before

-----------------------------------------------------------------------------
(* Where records go *)

LEMMA HeldPrime ==
  ASSUME NEW r
  PROVE  Held(r)' = Elements(batch'[r]) \cup Elements(out'[r]) \cup Elements(wire'[r])
  BY DEF Held, Elements

LEMMA GotPrime ==
  ASSUME NEW k
  PROVE  Got(k)' = Elements(shown'[k]) \cup Elements(queue'[k])
  BY DEF Got, Elements

\* The queues of r after each of its steps; those of other routers are left alone.
Others(r) ==
  \A q \in Routers : q # r => batch'[q] = batch[q] /\ out'[q] = out[q] /\ wire'[q] = wire[q]

LEMMA PollLine ==
  ASSUME TypeOK, NEW p \in Partitions, NEW r \in Routers, Poll(r, p)
  PROVE  /\ Others(r) /\ owner[p] = r /\ batch[r] = << >>
         /\ out'[r] = out[r] /\ wire'[r] = wire[r]
         /\ Sorted(batch'[r])
         /\ next[p] <= next'[p] /\ next'[p] <= Len(topic[p])
         /\ \A q \in Partitions : q # p => next'[q] = next[q]
         /\ \A x \in Elements(batch'[r]) : x[1] = p /\ next[p] < x[2] /\ x[2] <= next'[p]
  <1>1. PICK end \in next[p] + 1 .. Len(topic[p]) :
          /\ batch' = [batch EXCEPT ![r] = [i \in 1 .. end - next[p] |-> <<p, next[p] + i>>]]
          /\ next' = [next EXCEPT ![p] = end]
    BY DEF Poll
  <1>2. next[p] \in Nat /\ Len(topic[p]) \in Nat /\ end \in Nat /\ end - next[p] \in Nat
    BY <1>1 DEF TypeOK
  <1>3. /\ batch'[r] = [i \in 1 .. end - next[p] |-> <<p, next[p] + i>>]
        /\ \A q \in Routers : q # r => batch'[q] = batch[q]
        /\ next'[p] = end /\ \A q \in Partitions : q # p => next'[q] = next[q]
    BY <1>1 DEF TypeOK
  <1>4. Sorted(batch'[r])
    BY <1>2, <1>3 DEF Sorted
  <1>5. \A x \in Elements(batch'[r]) : x[1] = p /\ next[p] < x[2] /\ x[2] <= end
    BY <1>2, <1>3 DEF Elements
  <1>6. owner[p] = r /\ batch[r] = << >> /\ out' = out /\ wire' = wire
    BY DEF Poll, streamVars
  <1> QED BY <1>1, <1>2, <1>3, <1>4, <1>5, <1>6 DEF Others

LEMMA AdvanceLine ==
  ASSUME TypeOK, NEW r \in Routers, Skip(r) \/ Route(r)
  PROVE  /\ Others(r) /\ UNCHANGED <<topic, owner, next, moves, queue, shown>>
         /\ batch[r] # << >> /\ batch'[r] = Tail(batch[r]) /\ wire'[r] = wire[r]
         /\ out'[r] = out[r] \/ out'[r] = Append(out[r], Head(batch[r]))
  <1>1. /\ batch[r] # << >> /\ batch' = [batch EXCEPT ![r] = Tail(batch[r])] /\ wire' = wire
        /\ UNCHANGED <<topic, owner, next, moves, queue, shown>>
    BY DEF Skip, Route, Advance, streamVars, clientVars
  <1>2. out' = out \/ out' = [out EXCEPT ![r] = Append(out[r], Head(batch[r]))]
    BY DEF Skip, Route, streamVars
  <1> QED BY <1>1, <1>2 DEF TypeOK, Others

LEMMA SendLine ==
  ASSUME TypeOK, NEW r \in Routers, SendEvent(r)
  PROVE  /\ Others(r) /\ UNCHANGED <<topic, owner, next, moves, queue, shown>>
         /\ out[r] # << >> /\ batch'[r] = batch[r]
         /\ out'[r] = Tail(out[r]) /\ wire'[r] = Append(wire[r], Head(out[r]))
  <1>1. /\ out[r] # << >> /\ batch' = batch
        /\ UNCHANGED <<topic, owner, next, moves, queue, shown>>
        /\ out' = [out EXCEPT ![r] = Tail(out[r])]
        /\ wire' = [wire EXCEPT ![r] = Append(wire[r], Head(out[r]))]
    BY DEF SendEvent, groupVars, clientVars
  <1> QED BY <1>1 DEF TypeOK, Others

LEMMA ReceiveLine ==
  ASSUME TypeOK, NEW r \in Routers, Receive(r)
  PROVE  /\ Others(r) /\ UNCHANGED <<topic, owner, next, moves>>
         /\ wire[r] # << >> /\ batch'[r] = batch[r] /\ out'[r] = out[r]
         /\ wire'[r] = Tail(wire[r])
         /\ \A k \in Clients : Got(k)' \subseteq Got(k) \cup {Head(wire[r])}
  <1>1. PICK i \in DOMAIN wire[r] : Dispatch(r, i)
    BY DEF Receive
  <1>2. /\ wire[r] # << >> /\ wire[r][i] = Head(wire[r]) /\ Head(wire[r]) \in Records
        /\ wire' = [wire EXCEPT ![r] = Tail(wire[r])]
    BY <1>1, ReceivedFirst
  <1>3. UNCHANGED <<topic, owner, next, moves, batch, out, shown>>
    BY <1>1 DEF Dispatch, groupVars
  <1>4. ASSUME NEW k \in Clients
        PROVE  Got(k)' \subseteq Got(k) \cup {Head(wire[r])}
    <2>1. PICK y \in Records : y = Head(wire[r])
      BY <1>2
    <2>2. queue'[k] = Append(queue[k], y) \/ queue'[k] = queue[k]
      BY <1>1, <1>2, <2>1 DEF Dispatch
    <2>3. Elements(Append(queue[k], y)) = Elements(queue[k]) \cup {y}
      BY AppendElements DEF TypeOK
    <2>4. Elements(queue'[k]) \subseteq Elements(queue[k]) \cup {y}
      BY <2>2, <2>3
    <2> QED BY <1>3, <2>1, <2>4, GotPrime DEF Got
  <1> QED BY <1>2, <1>3, <1>4 DEF TypeOK, Others

\* Steps other than those of the consumers and the streams.
LEMMA RestLine ==
  ASSUME TypeOK, Environment \/ (\E k \in Clients : Show(k)) \/ UNCHANGED vars
  PROVE  /\ \A r \in Routers :
              /\ batch'[r] = batch[r] \/ batch'[r] = << >>
              /\ out'[r] = out[r] \/ out'[r] = << >>
              /\ wire'[r] = wire[r] \/ wire'[r] = << >>
         /\ \A k \in Clients : Got(k)' \subseteq Got(k)
         /\ UNCHANGED <<owner, next>> \/ moves' > 0
         /\ moves' = 0 => moves = 0
  <1>0. moves \in Nat
    BY PushAssumption DEF TypeOK
  <1>1. CASE Environment \/ UNCHANGED vars
    <2>1. \A r \in Routers :
              /\ batch'[r] = batch[r] \/ batch'[r] = << >>
              /\ out'[r] = out[r] \/ out'[r] = << >>
              /\ wire'[r] = wire[r] \/ wire'[r] = << >>
      BY <1>1 DEF Environment, Publish, Age, AutoCommit, Moved, Open, Break, RouterStops, StreamEnds,
                  SetInterest, Connect, UpdateScope, Disconnect, streamVars, vars, TypeOK
    <2>2. \A k \in Clients : /\ shown'[k] = shown[k] \/ shown'[k] = << >>
                             /\ queue'[k] = queue[k] \/ queue'[k] = << >>
      BY <1>1 DEF Environment, Publish, Age, AutoCommit, Moved, Open, Break, RouterStops, StreamEnds,
                  SetInterest, Connect, UpdateScope, Disconnect, clientVars, vars, TypeOK
    <2>3. \A k \in Clients : Got(k)' \subseteq Got(k)
      BY <2>2, GotPrime, NothingElements DEF Got
    <2>4. (UNCHANGED <<owner, next, moves>>) \/ moves' = moves + 1
      BY <1>1 DEF Environment, Publish, Age, AutoCommit, Moved, Open, Break, RouterStops,
                  SetInterest, Connect, UpdateScope, Disconnect, groupVars, vars
    <2> QED BY <1>0, <2>1, <2>3, <2>4
  <1>2. ASSUME NEW c \in Clients, Show(c)
        PROVE  /\ UNCHANGED <<batch, out, wire, owner, next, moves>>
               /\ \A k \in Clients : Got(k)' \subseteq Got(k)
    <2>1. UNCHANGED <<batch, out, wire, owner, next, moves>>
      BY <1>2 DEF Show, groupVars, streamVars
    <2>2. PICK y \in Records : y = Head(queue[c])
      BY <1>2, TailElements DEF Show, TypeOK
    <2>3. /\ Elements(Append(shown[c], y)) = Elements(shown[c]) \cup {y}
          /\ Elements(queue[c]) = Elements(Tail(queue[c])) \cup {y}
      BY <1>2, <2>2, AppendElements, TailElements DEF Show, TypeOK
    <2>4. /\ shown'[c] = Append(shown[c], y) /\ queue'[c] = Tail(queue[c])
          /\ \A d \in Clients : d # c => shown'[d] = shown[d] /\ queue'[d] = queue[d]
      BY <1>2, <2>2 DEF Show, TypeOK
    <2>5. ASSUME NEW k \in Clients
          PROVE  Got(k)' \subseteq Got(k)
      <3>1. CASE k = c
        BY <2>3, <2>4, <3>1, GotPrime DEF Got
      <3>2. CASE k # c
        BY <2>4, <3>2, GotPrime DEF Got
      <3> QED BY <3>1, <3>2
    <2> QED BY <2>1, <2>5
  <1> QED BY <1>1, <1>2

\* What a router holds after a step it held before, or has polled.
LEMMA HeldStep ==
  ASSUME TypeOK, [Next]_vars, NEW r \in Routers, NEW x \in Held(r)'
  PROVE  \/ x \in Held(r)
         \/ \E p \in Partitions :
              /\ Poll(r, p) /\ x[1] = p /\ owner[p] = r
              /\ next[p] < x[2] /\ x[2] <= next'[p] /\ next'[p] <= Len(topic[p])
  <1>1. x \in Elements(batch'[r]) \cup Elements(out'[r]) \cup Elements(wire'[r])
    BY HeldPrime
  <1>2. CASE Environment \/ (\E k \in Clients : Show(k)) \/ UNCHANGED vars
    BY <1>1, <1>2, RestLine, NothingElements DEF Held
  <1>3. ASSUME NEW q \in Routers, q # r, Consume(q) \/ SendEvent(q) \/ Receive(q)
        PROVE  x \in Held(r)
    <2>1. Others(q)
      BY <1>3, PollLine, AdvanceLine, SendLine, ReceiveLine DEF Consume
    <2> QED BY <1>1, <1>3, <2>1 DEF Others, Held
  <1>4. ASSUME NEW p \in Partitions, Poll(r, p)
        PROVE  \/ x \in Held(r)
               \/ /\ x[1] = p /\ owner[p] = r
                  /\ next[p] < x[2] /\ x[2] <= next'[p] /\ next'[p] <= Len(topic[p])
    BY <1>1, <1>4, PollLine DEF Held
  <1>5. CASE Skip(r) \/ Route(r)
    <2>1. /\ batch[r] # << >> /\ batch'[r] = Tail(batch[r]) /\ wire'[r] = wire[r]
          /\ out'[r] = out[r] \/ out'[r] = Append(out[r], Head(batch[r]))
      BY <1>5, AdvanceLine
    <2>2. batch[r] \in Seq(Records) /\ out[r] \in Seq(Records)
      BY DEF TypeOK
    <2>3. /\ Elements(batch[r]) = Elements(Tail(batch[r])) \cup {Head(batch[r])}
          /\ Head(batch[r]) \in Records
      BY <2>1, <2>2, TailElements
    <2>4. Elements(Append(out[r], Head(batch[r]))) = Elements(out[r]) \cup {Head(batch[r])}
      BY <2>2, <2>3, AppendElements
    <2> QED BY <1>1, <2>1, <2>3, <2>4 DEF Held
  <1>6. CASE SendEvent(r)
    <2>1. /\ out[r] # << >> /\ batch'[r] = batch[r]
          /\ out'[r] = Tail(out[r]) /\ wire'[r] = Append(wire[r], Head(out[r]))
      BY <1>6, SendLine
    <2>2. wire[r] \in Seq(Records) /\ out[r] \in Seq(Records)
      BY DEF TypeOK
    <2>3. Elements(out[r]) = Elements(Tail(out[r])) \cup {Head(out[r])} /\ Head(out[r]) \in Records
      BY <2>1, <2>2, TailElements
    <2>4. Elements(Append(wire[r], Head(out[r]))) = Elements(wire[r]) \cup {Head(out[r])}
      BY <2>2, <2>3, AppendElements
    <2> QED BY <1>1, <2>1, <2>3, <2>4 DEF Held
  <1>7. CASE Receive(r)
    <2>1. /\ wire[r] # << >> /\ batch'[r] = batch[r] /\ out'[r] = out[r]
          /\ wire'[r] = Tail(wire[r])
      BY <1>7, ReceiveLine
    <2>2. wire[r] \in Seq(Records)
      BY DEF TypeOK
    <2>3. Elements(wire[r]) = Elements(Tail(wire[r])) \cup {Head(wire[r])}
      BY <2>1, <2>2, TailElements
    <2> QED BY <1>1, <2>1, <2>3 DEF Held
  <1> QED BY <1>2, <1>3, <1>4, <1>5, <1>6, <1>7 DEF Next, Consume

\* Records that a router holds are well typed.
LEMMA HeldType ==
  ASSUME TypeOK, NEW r \in Routers
  PROVE  Held(r) \subseteq Records
  <1>1. \A s \in Seq(Records) : Elements(s) \subseteq Records
    BY DEF Elements
  <1> QED BY <1>1 DEF TypeOK, Held

LEMMA GotType ==
  ASSUME TypeOK, NEW k \in Clients
  PROVE  Got(k) \subseteq Records
  <1>1. \A s \in Seq(Records) : Elements(s) \subseteq Records
    BY DEF Elements
  <1> QED BY <1>1 DEF TypeOK, Got

LEMMA TopicGrows ==
  ASSUME TypeOK, [Next]_vars, NEW p \in Partitions
  PROVE  Len(topic[p]) <= Len(topic'[p]) /\ Len(topic[p]) \in Nat /\ Len(topic'[p]) \in Nat
  <1>1. TypeOK'
    BY NextType
  <1>2. Len(topic[p]) \in Nat /\ Len(topic'[p]) \in Nat
    <2>1. topic[p] \in Seq(Events)
      BY DEF TypeOK
    <2>2. topic'[p] \in Seq(Events)
      BY <1>1 DEF TypeOK
    <2> QED BY <2>1, <2>2
  <1>3. topic' = topic \/ \E e \in Events : Publish(e)
    BY AsideSame, StepKinds DEF AutoCommit, Moved, Poll, RouterStops, Skip, Route
  <1> QED BY <1>2, <1>3, PublishGrows

LEMMA HeldOKStep ==
  ASSUME TypeOK, HeldOK, [Next]_vars
  PROVE  HeldOK'
  <1>1. SUFFICES ASSUME NEW r \in Routers, NEW x \in Held(r)'
                 PROVE  x[2] <= Len(topic'[x[1]])
    BY DEF HeldOK
  <1>2. x \in Records
    <2>1. TypeOK'
      BY NextType
    <2>2. \A s \in Seq(Records) : Elements(s) \subseteq Records
      BY DEF Elements
    <2> QED BY <1>1, <2>1, <2>2, HeldPrime DEF TypeOK
  <1>3. x[1] \in Partitions /\ x[2] \in Nat
    BY <1>2 DEF Records
  <1>4. x[2] <= Len(topic[x[1]])
    <2>1. CASE x \in Held(r)
      BY <2>1 DEF HeldOK
    <2>2. CASE x \notin Held(r)
      <3>1. next'[x[1]] \in Nat
        BY <1>3, NextType DEF TypeOK
      <3>2. x[2] <= next'[x[1]] /\ next'[x[1]] <= Len(topic[x[1]])
        BY <2>2, HeldStep
      <3> QED BY <1>3, <3>1, <3>2, TopicGrows
    <2> QED BY <2>1, <2>2
  <1> QED BY <1>3, <1>4, TopicGrows

\* OrderOK, seen from the next state.
LEMMA OrderFrom ==
  ASSUME NEW S, S = Clients,
         \A r \in Routers :
           /\ InLine(batch'[r], out'[r], wire'[r])
           /\ \A x \in Held(r)' : owner'[x[1]] = r /\ x[2] <= next'[x[1]],
         \A k \in Clients :
           /\ \A x \in Got(k)' : x[2] <= next'[x[1]]
           /\ \A r \in Routers : \A x \in Got(k)', y \in Held(r)' : x[1] = y[1] => x[2] < y[2]
  PROVE  OrderOK'
  BY DEF OrderOK, InLine, Sorted, Before, Elements, Got, Held

LEMMA OrderPoll ==
  ASSUME TypeOK, OrderOK, moves = 0, NEW p \in Partitions, NEW r \in Routers, Poll(r, p)
  PROVE  OrderOK'
  <1>1. /\ Others(r) /\ owner[p] = r /\ batch[r] = << >>
        /\ out'[r] = out[r] /\ wire'[r] = wire[r] /\ Sorted(batch'[r])
        /\ next[p] <= next'[p]
        /\ \A q \in Partitions : q # p => next'[q] = next[q]
        /\ \A x \in Elements(batch'[r]) : x[1] = p /\ next[p] < x[2] /\ x[2] <= next'[p]
    BY PollLine
  <1>2. UNCHANGED <<owner, shown, queue>>
    BY DEF Poll, clientVars
  <1>3. \A k \in Clients : Got(k)' = Got(k)
    BY <1>2, GotPrime DEF Got
  <1>4. \A q \in Partitions : next[q] \in Nat /\ next'[q] \in Nat /\ next[q] <= next'[q]
    <2>1. TypeOK'
      BY NextType DEF Next, Consume
    <2>2. \A q \in Partitions : next[q] \in Nat
      BY DEF TypeOK
    <2>3. \A q \in Partitions : next'[q] \in Nat
      BY <2>1 DEF TypeOK
    <2> QED BY <1>1, <2>2, <2>3
  <1>5. \A q \in Routers : \A x \in Held(q) :
          x[1] \in Partitions /\ x[2] \in Nat /\ owner[x[1]] = q /\ x[2] <= next[x[1]]
    BY HeldType DEF OrderOK, Records
  <1>6. \A k \in Clients : \A x \in Got(k) :
          x[1] \in Partitions /\ x[2] \in Nat /\ x[2] <= next[x[1]]
    BY GotType DEF OrderOK, Records
  <1>7. Held(r)' \subseteq Held(r) \cup Elements(batch'[r])
    BY <1>1, HeldPrime DEF Held
  <1>8. \A q \in Routers : q # r => Held(q)' = Held(q)
    BY <1>1, HeldPrime DEF Others, Held
  <1>9. TypeOK' /\ \A x \in Elements(batch'[r]) : x[2] \in Nat
    <2>1. TypeOK'
      BY NextType DEF Next, Consume
    <2>2. batch'[r] \in Seq(Records)
      BY <2>1 DEF TypeOK
    <2>3. Elements(batch'[r]) \subseteq Records
      BY <2>2 DEF Elements
    <2> QED BY <2>1, <2>3 DEF Records
  <1>10. InLine(batch'[r], out'[r], wire'[r])
    <2>1. Sorted(out[r]) /\ Sorted(wire[r]) /\ Before(Elements(wire[r]), Elements(out[r]))
      BY DEF OrderOK, InLine
    <2>2. Before(Elements(wire[r]) \cup Elements(out[r]), Elements(batch'[r]))
      BY <1>1, <1>4, <1>5, <1>9 DEF Before, Held
    <2> QED BY <1>1, <2>1, <2>2 DEF InLine
  <1>11. ASSUME NEW q \in Routers
         PROVE  /\ InLine(batch'[q], out'[q], wire'[q])
                /\ \A x \in Held(q)' : owner'[x[1]] = q /\ x[2] <= next'[x[1]]
    <2>1. CASE q = r
      BY <1>1, <1>2, <1>4, <1>5, <1>7, <1>10, <2>1
    <2>2. CASE q # r
      <3>1. InLine(batch'[q], out'[q], wire'[q])
        BY <1>1, <2>2 DEF Others, OrderOK
      <3> QED BY <1>2, <1>4, <1>5, <1>8, <2>2, <3>1
    <2> QED BY <2>1, <2>2
  <1>12. ASSUME NEW k \in Clients
         PROVE  /\ \A x \in Got(k)' : x[2] <= next'[x[1]]
                /\ \A q \in Routers : \A x \in Got(k)', y \in Held(q)' : x[1] = y[1] => x[2] < y[2]
    <2>1. \A x \in Got(k)' : x[2] <= next'[x[1]]
      BY <1>3, <1>4, <1>6
    <2>2. ASSUME NEW q \in Routers, NEW x \in Got(k)', NEW y \in Held(q)', x[1] = y[1]
          PROVE  x[2] < y[2]
      <3>1. CASE y \in Held(q)
        BY <1>3, <2>2, <3>1 DEF OrderOK, Before
      <3>2. CASE q = r /\ y \in Elements(batch'[r])
        BY <1>1, <1>3, <1>4, <1>6, <1>9, <2>2, <3>2
      <3> QED BY <1>7, <1>8, <3>1, <3>2
    <2> QED BY <2>1, <2>2
  <1> QED BY <1>11, <1>12, OrderFrom

\* A step of r within its line: what it holds stays in order and none of it is new.
LEMMA OrderWithin ==
  ASSUME OrderOK, moves = 0, NEW r \in Routers, Others(r), UNCHANGED <<owner, next>>,
         InLine(batch'[r], out'[r], wire'[r]), Held(r)' \subseteq Held(r),
         \A k \in Clients : Got(k)' \subseteq Got(k)
  PROVE  OrderOK'
  <1>1. \A q \in Routers : Held(q)' \subseteq Held(q)
    BY HeldPrime DEF Others, Held
  <1>2. \A q \in Routers : InLine(batch'[q], out'[q], wire'[q])
    BY DEF Others, OrderOK
  <1>3. \A q \in Routers : \A x \in Held(q)' : owner'[x[1]] = q /\ x[2] <= next'[x[1]]
    BY <1>1 DEF OrderOK
  <1>4. \A k \in Clients : \A x \in Got(k)' : x[2] <= next'[x[1]]
    BY DEF OrderOK
  <1>5. \A k \in Clients, q \in Routers :
          \A x \in Got(k)', y \in Held(q)' : x[1] = y[1] => x[2] < y[2]
    BY <1>1 DEF OrderOK, Before
  <1> QED BY <1>2, <1>3, <1>4, <1>5, OrderFrom

\* Dispatch hands over the first event, which is behind nothing but what clients have.
LEMMA OrderReceive ==
  ASSUME TypeOK, OrderOK, moves = 0, NEW r \in Routers, Receive(r)
  PROVE  OrderOK'
  <1>1. /\ Others(r) /\ UNCHANGED <<owner, next>>
        /\ wire[r] # << >> /\ batch'[r] = batch[r] /\ out'[r] = out[r] /\ wire'[r] = Tail(wire[r])
        /\ \A k \in Clients : Got(k)' \subseteq Got(k) \cup {Head(wire[r])}
    BY ReceiveLine
  <1>2. batch[r] \in Seq(Records) /\ out[r] \in Seq(Records) /\ wire[r] \in Seq(Records)
    BY DEF TypeOK
  <1>3. PICK h \in Records : h = Head(wire[r])
    BY <1>1, <1>2, TailElements
  <1>4. Elements(wire[r]) = Elements(Tail(wire[r])) \cup {h}
    BY <1>1, <1>2, <1>3, TailElements
  <1>5. /\ InLine(batch'[r], out'[r], wire'[r])
        /\ Before({h}, Elements(batch[r]) \cup Elements(out[r]) \cup Elements(Tail(wire[r])))
    BY <1>1, <1>2, <1>3, LineReceive DEF OrderOK
  <1>6. Held(r)' = Elements(batch[r]) \cup Elements(out[r]) \cup Elements(Tail(wire[r]))
    BY <1>1, HeldPrime
  <1>7. Held(r)' \subseteq Held(r) /\ h \in Held(r)
    BY <1>4, <1>6 DEF Held
  <1>8. \A q \in Routers : q # r => Held(q)' = Held(q)
    BY <1>1, HeldPrime DEF Others, Held
  <1>9. \A q \in Routers : /\ InLine(batch'[q], out'[q], wire'[q])
                           /\ \A x \in Held(q)' : owner'[x[1]] = q /\ x[2] <= next'[x[1]]
    <2>1. \A q \in Routers : InLine(batch'[q], out'[q], wire'[q])
      BY <1>1, <1>5 DEF Others, OrderOK
    <2> QED BY <1>1, <1>7, <1>8, <2>1 DEF OrderOK
  <1>10. \A k \in Clients : \A x \in Got(k)' : x[2] <= next'[x[1]]
    BY <1>1, <1>3, <1>7 DEF OrderOK
  <1>11. ASSUME NEW k \in Clients, NEW q \in Routers, NEW x \in Got(k)', NEW y \in Held(q)',
                x[1] = y[1]
         PROVE  x[2] < y[2]
    <2>1. CASE x \in Got(k)
      BY <1>7, <1>8, <1>11, <2>1 DEF OrderOK, Before
    <2>2. CASE x = h
      <3>1. owner[x[1]] = r /\ owner[y[1]] = q
        BY <1>7, <1>8, <2>2 DEF OrderOK
      <3>2. q = r
        BY <1>11, <3>1
      <3> QED BY <1>5, <1>6, <1>11, <2>2, <3>2 DEF Before
    <2> QED BY <1>1, <1>3, <2>1, <2>2
  <1> QED BY <1>9, <1>10, <1>11, OrderFrom

LEMMA OrderStep ==
  ASSUME TypeOK, OrderOK, [Next]_vars
  PROVE  OrderOK'
  <1>1. CASE Environment \/ (\E k \in Clients : Show(k)) \/ UNCHANGED vars
    <2>1. CASE moves' = 0
      <3>1. /\ \A r \in Routers :
                 /\ batch'[r] = batch[r] \/ batch'[r] = << >>
                 /\ out'[r] = out[r] \/ out'[r] = << >>
                 /\ wire'[r] = wire[r] \/ wire'[r] = << >>
            /\ \A k \in Clients : Got(k)' \subseteq Got(k)
            /\ UNCHANGED <<owner, next>> /\ moves = 0
        BY <1>1, <2>1, RestLine
      <3>2. \A r \in Routers : Held(r)' \subseteq Held(r)
        BY <3>1, HeldPrime, NothingElements DEF Held
      <3>3. \A r \in Routers : InLine(batch'[r], out'[r], wire'[r])
        BY <3>1, NothingElements DEF OrderOK, InLine, Before
      <3>4. \A r \in Routers : \A x \in Held(r)' : owner'[x[1]] = r /\ x[2] <= next'[x[1]]
        BY <3>1, <3>2 DEF OrderOK
      <3>5. \A k \in Clients : \A x \in Got(k)' : x[2] <= next'[x[1]]
        BY <3>1 DEF OrderOK
      <3>6. \A k \in Clients, r \in Routers :
              \A x \in Got(k)', y \in Held(r)' : x[1] = y[1] => x[2] < y[2]
        BY <3>1, <3>2 DEF OrderOK, Before
      <3> QED BY <3>3, <3>4, <3>5, <3>6, OrderFrom
    <2>2. CASE moves' # 0
      BY <2>2 DEF OrderOK
    <2> QED BY <2>1, <2>2
  <1>2. ASSUME NEW r \in Routers, Consume(r) \/ SendEvent(r) \/ Receive(r), moves # 0
        PROVE  OrderOK'
    <2>1. moves' = moves
      BY <1>2 DEF Consume, Poll, Skip, Route, SendEvent, Receive, Dispatch
    <2> QED BY <1>2, <2>1 DEF OrderOK
  <1>3. ASSUME NEW r \in Routers, Skip(r) \/ Route(r), moves = 0
        PROVE  OrderOK'
    <2>1. /\ Others(r) /\ UNCHANGED <<owner, next, queue, shown>>
          /\ batch[r] # << >> /\ batch'[r] = Tail(batch[r]) /\ wire'[r] = wire[r]
          /\ out'[r] = out[r] \/ out'[r] = Append(out[r], Head(batch[r]))
      BY <1>3, AdvanceLine
    <2>2. batch[r] \in Seq(Records) /\ out[r] \in Seq(Records) /\ wire[r] \in Seq(Records)
      BY DEF TypeOK
    <2>3. InLine(batch'[r], out'[r], wire'[r])
      BY <1>3, <2>1, <2>2, LineRoute DEF OrderOK
    <2>4. Held(r)' \subseteq Held(r)
      <3>1. /\ Elements(batch[r]) = Elements(Tail(batch[r])) \cup {Head(batch[r])}
            /\ Head(batch[r]) \in Records
        BY <2>1, <2>2, TailElements
      <3>2. Elements(Append(out[r], Head(batch[r]))) = Elements(out[r]) \cup {Head(batch[r])}
        BY <2>2, <3>1, AppendElements
      <3> QED BY <2>1, <3>1, <3>2, HeldPrime DEF Held
    <2>5. \A k \in Clients : Got(k)' \subseteq Got(k)
      BY <2>1, GotPrime DEF Got
    <2> QED BY <1>3, <2>1, <2>3, <2>4, <2>5, OrderWithin
  <1>4. ASSUME NEW r \in Routers, SendEvent(r), moves = 0
        PROVE  OrderOK'
    <2>1. /\ Others(r) /\ UNCHANGED <<owner, next, queue, shown>>
          /\ out[r] # << >> /\ batch'[r] = batch[r]
          /\ out'[r] = Tail(out[r]) /\ wire'[r] = Append(wire[r], Head(out[r]))
      BY <1>4, SendLine
    <2>2. batch[r] \in Seq(Records) /\ out[r] \in Seq(Records) /\ wire[r] \in Seq(Records)
      BY DEF TypeOK
    <2>3. InLine(batch'[r], out'[r], wire'[r])
      BY <1>4, <2>1, <2>2, LineSend DEF OrderOK
    <2>4. Held(r)' \subseteq Held(r)
      <3>1. Elements(out[r]) = Elements(Tail(out[r])) \cup {Head(out[r])} /\ Head(out[r]) \in Records
        BY <2>1, <2>2, TailElements
      <3>2. Elements(Append(wire[r], Head(out[r]))) = Elements(wire[r]) \cup {Head(out[r])}
        BY <2>2, <3>1, AppendElements
      <3> QED BY <2>1, <3>1, <3>2, HeldPrime DEF Held
    <2>5. \A k \in Clients : Got(k)' \subseteq Got(k)
      BY <2>1, GotPrime DEF Got
    <2> QED BY <1>4, <2>1, <2>3, <2>4, <2>5, OrderWithin
  <1> QED BY <1>1, <1>2, <1>3, <1>4, OrderPoll, OrderReceive DEF Next, Consume

-----------------------------------------------------------------------------
(* Theorems *)

LEMMA InitOK == Init => IInv
  <1> SUFFICES ASSUME Init PROVE IInv
    OBVIOUS
  <1>1. TypeOK
    BY InitType
  <1>2. OffsetsOK
    <2>1. Len(<< >>) = 0
      OBVIOUS
    <2>2. \A p \in Partitions :
            topic[p] = << >> /\ next[p] = 0 /\ marked[p] = 0 /\ committed[p] = 0
      BY DEF Init
    <2>3. \A p \in Partitions : Len(topic[p]) = 0
      BY <2>1, <2>2
    <2>4. 0 <= 0
      OBVIOUS
    <2> QED BY <2>2, <2>3, <2>4, Zenon DEF OffsetsOK
  <1>3. BatchOK
    BY NothingElements DEF Init, BatchOK
  <1>4. DueOK
    BY DEF Init, DueOK
  <1>5. Covered
    BY DEF Init, Covered
  <1>6. /\ \A r \in Routers : Held(r) = {} /\ InLine(batch[r], out[r], wire[r])
        /\ \A k \in Clients : Got(k) = {}
    BY NothingElements DEF Init, Held, Got, InLine, Before
  <1>7. HeldOK /\ OrderOK
    BY <1>6 DEF HeldOK, OrderOK, Before
  <1> QED BY <1>1, <1>2, <1>3, <1>4, <1>5, <1>7 DEF IInv

LEMMA NextOK == IInv /\ [Next]_vars => IInv'
  <1> SUFFICES ASSUME IInv, [Next]_vars PROVE IInv'
    OBVIOUS
  <1>1. TypeOK' /\ OffsetsOK' /\ BatchOK' /\ DueOK'
    BY NextType, OffsetsStep, BatchStep, DueStep DEF IInv
  <1>2. Covered'
    BY CoveredStep
  <1>3. HeldOK' /\ OrderOK'
    BY HeldOKStep, OrderStep DEF IInv
  <1> QED BY <1>1, <1>2, <1>3 DEF IInv

\* In every behaviour of the path what is due to a client is with it, past a hub or ahead.
THEOREM Inductive == Spec => []IInv
  BY InitOK, NextOK, PTL DEF Spec

(***************************************************************************)
(* An event that none of the causes of loss has hit is with the browser,   *)
(* past the hub or still ahead, for any number of routers and rebalances   *)
(* (push.go:31-54, hub.go:97-116, server.go:55-69, broker.go:94-107).      *)
(***************************************************************************)
THEOREM NothingIsLost == Spec => []NothingVanishes
  <1>1. IInv => NothingVanishes
    BY DEF IInv, Covered, StillComes, NothingVanishes
  <1> QED BY <1>1, Inductive, PTL

-----------------------------------------------------------------------------
(* Refinement *)

\* A queue grows at its end; showing its head leaves the whole as it is.
LEMMA Concatenated ==
  ASSUME NEW S, NEW s \in Seq(S), NEW t \in Seq(S)
  PROVE  /\ \A x \in S : s \o Append(t, x) = Append(s \o t, x)
         /\ t # << >> => Append(s, Head(t)) \o Tail(t) = s \o t
         /\ \A i \in DOMAIN (s \o t) : (s \o t)[i] \in Elements(s) \cup Elements(t)
  <1>1. ASSUME NEW x \in S
        PROVE  s \o Append(t, x) = Append(s \o t, x)
    OBVIOUS
  <1>2. ASSUME t # << >>
        PROVE  Append(s, Head(t)) \o Tail(t) = s \o t
    BY <1>2
  <1>3. ASSUME NEW i \in DOMAIN (s \o t)
        PROVE  (s \o t)[i] \in Elements(s) \cup Elements(t)
    <2>1. i \in 1 .. Len(s) + Len(t) /\ Len(s) \in Nat /\ Len(t) \in Nat
      OBVIOUS
    <2>2. CASE i <= Len(s)
      <3>1. i \in DOMAIN s /\ (s \o t)[i] = s[i]
        BY <2>1, <2>2
      <3> QED BY <3>1 DEF Elements
    <2>3. CASE i > Len(s)
      <3>1. i - Len(s) \in DOMAIN t /\ (s \o t)[i] = t[i - Len(s)]
        BY <2>1, <2>3
      <3> QED BY <3>1 DEF Elements
    <2> QED BY <2>1, <2>2, <2>3
  <1> QED BY <1>1, <1>2, <1>3

\* The queues alone decide on the feed.
LEMMA FeedSame ==
  ASSUME UNCHANGED <<queue, shown>>
  PROVE  Feed' = Feed
  BY DEF Feed

LEMMA EnvironmentRefines ==
  ASSUME TypeOK, Environment
  PROVE  Promise!Next \/ UNCHANGED Promise!vars
  <1> USE PushAssumption
  <1>1. ASSUME NEW e \in Events, Publish(e)
        PROVE  Promise!Next
    <2>1. PartitionOf[VinOf[e]] \in Partitions
      OBVIOUS
    <2>2. Promise!Publish(PartitionOf[VinOf[e]], e)
      BY <1>1, FeedSame DEF Publish, clientVars, Promise!Publish
    <2> QED BY <2>1, <2>2 DEF Promise!Next
  <1>2. ASSUME NEW p \in Partitions, Age(p) \/ AutoCommit(p)
        PROVE  UNCHANGED Promise!vars
    BY <1>2, FeedSame DEF Age, AutoCommit, clientVars, Promise!vars
  <1>3. ASSUME \/ \E p \in Partitions, r \in Routers : Moved(p, r)
               \/ \E r \in Routers : RouterStops(r)
        PROVE  Promise!Next
    <2>1. moves' > 0 /\ UNCHANGED <<topic, scope, queue, shown>>
      BY <1>3 DEF TypeOK, Moved, RouterStops, clientVars
    <2>2. Promise!Disturb
      BY <2>1, FeedSame DEF Promise!Disturb
    <2> QED BY <2>2 DEF Promise!Next
  <1>4. ASSUME NEW r \in Routers, Open(r) \/ Break(r) \/ \E i \in Interests : SetInterest(r, i)
        PROVE  UNCHANGED Promise!vars
    BY <1>4, FeedSame DEF Open, Break, SetInterest, clientVars, Promise!vars
  <1>5. ASSUME NEW k \in Clients, NEW s \in Scopes, Connect(k, s) \/ UpdateScope(k, s)
        PROVE  Promise!Next
    <2>1. Promise!Rescope(k, s)
      BY <1>5, FeedSame DEF Connect, UpdateScope, Promise!Rescope
    <2>2. s \in SUBSET Tags
      OBVIOUS
    <2> QED BY <2>1, <2>2 DEF Promise!Next
  <1>6. ASSUME NEW k \in Clients, Disconnect(k)
        PROVE  Promise!Next
    <2>1. << >> \o << >> = << >>
      OBVIOUS
    <2>2. /\ queue' = [queue EXCEPT ![k] = << >>] /\ shown' = [shown EXCEPT ![k] = << >>]
          /\ scope' = [scope EXCEPT ![k] = {}] /\ UNCHANGED <<topic, moves>>
      BY <1>6 DEF Disconnect
    <2>3. Feed' = [Feed EXCEPT ![k] = << >>]
      BY <2>1, <2>2 DEF Feed, TypeOK
    <2>4. Promise!Reset(k, {})
      BY <2>2, <2>3 DEF Promise!Reset
    <2> QED BY <2>4 DEF Promise!Next
  <1> QED BY <1>1, <1>2, <1>3, <1>4, <1>5, <1>6 DEF Environment

\* What the broker dispatches is picked for the recipients that have room.
LEMMA DispatchRefines ==
  ASSUME IInv, NEW r \in Routers, NEW i \in DOMAIN wire[r], Dispatch(r, i)
  PROVE  Promise!Next
  <1>1. TypeOK /\ HeldOK /\ OrderOK
    BY DEF IInv
  <1>2. /\ wire[r] # << >> /\ wire[r][i] = Head(wire[r]) /\ Head(wire[r]) \in Records
    BY <1>1, ReceivedFirst
  <1>3. PICK x \in Records : x = wire[r][i]
    BY <1>2
  <1>4. /\ x = <<x[1], x[2]>> /\ x[1] \in Partitions /\ x[2] \in Nat \ {0}
    BY <1>3 DEF Records
  <1>5. x \in Held(r)
    BY <1>3 DEF Held, Elements
  <1>6. x[2] \in DOMAIN topic[x[1]]
    <2>1. topic[x[1]] \in Seq(Events) /\ x[2] <= Len(topic[x[1]])
      BY <1>1, <1>4, <1>5 DEF TypeOK, HeldOK
    <2> QED BY <1>4, <2>1
  <1> DEFINE chosen == {k \in Recipients(x) : ~ Full(k)}
  <1>7. chosen \in SUBSET Clients
    BY <1>1 DEF TypeOK, Recipients
  <1>8. /\ queue' = [k \in Clients |->
                       IF k \in Recipients(x) /\ ~ Full(k) THEN Append(queue[k], x) ELSE queue[k]]
        /\ UNCHANGED <<topic, scope, shown, moves>>
    BY <1>3 DEF Dispatch
  <1>9. Feed' = [k \in Clients |-> IF k \in chosen THEN Append(Feed[k], x) ELSE Feed[k]]
    <2>1. \A k \in Clients : shown[k] \in Seq(Records) /\ queue[k] \in Seq(Records)
      BY <1>1 DEF TypeOK
    <2>2. \A k \in Clients : shown[k] \o Append(queue[k], x) = Append(shown[k] \o queue[k], x)
      <3> TAKE k \in Clients
      <3>1. shown[k] \in Seq(Records) /\ queue[k] \in Seq(Records) /\ x \in Records
        BY <2>1
      <3> DEFINE s == shown[k]
      <3> DEFINE t == queue[k]
      <3>2. s \in Seq(Records) /\ t \in Seq(Records)
        BY <3>1
      <3> HIDE DEF s, t
      <3>3. s \o Append(t, x) = Append(s \o t, x)
        BY <3>1, <3>2, Concatenated
      <3> QED BY <3>3 DEF s, t
    <2> QED BY <1>8, <2>2 DEF Feed
  <1>10. ASSUME NEW k \in chosen
         PROVE  Promise!Allowed(k, x) /\ Promise!InOrder(k, x)
    <2>1. Promise!Allowed(k, x)
      BY DEF Recipients, Matches, EventAt, Promise!Allowed
    <2>2. k \in Clients
      BY <1>7
    <2>3. CASE moves = 0
      <3>1. \A y \in Got(k) : y[1] = x[1] => y[2] < x[2]
        BY <1>1, <1>5, <2>2, <2>3 DEF OrderOK, Before
      <3>2. \A j \in DOMAIN Feed[k] : Feed[k][j] \in Got(k)
        <4>1. shown[k] \in Seq(Records) /\ queue[k] \in Seq(Records)
          BY <1>1, <2>2 DEF TypeOK
        <4>2. \A j \in DOMAIN (shown[k] \o queue[k]) : (shown[k] \o queue[k])[j] \in Got(k)
          BY <4>1, Concatenated DEF Got
        <4> QED BY <2>2, <4>2 DEF Feed
      <3> QED BY <2>1, <3>1, <3>2 DEF Promise!InOrder
    <2>4. CASE moves # 0
      <3>1. moves > 0
        BY <1>1, <2>4 DEF TypeOK
      <3> QED BY <2>1, <3>1 DEF Promise!InOrder
    <2> QED BY <2>3, <2>4
  <1>11. Promise!Pick(x, chosen)
    BY <1>8, <1>9, <1>10 DEF Promise!Pick
  <1>12. Promise!Pick(<<x[1], x[2]>>, chosen)
    BY <1>4, <1>11
  <1> QED BY <1>4, <1>6, <1>7, <1>12 DEF Promise!Next

LEMMA StepRefines ==
  ASSUME IInv, [Next]_vars
  PROVE  [Promise!Next]_(Promise!vars)
  <1>1. CASE Environment
    BY <1>1, EnvironmentRefines DEF IInv
  <1>2. ASSUME NEW r \in Routers, Consume(r) \/ SendEvent(r)
        PROVE  UNCHANGED Promise!vars
    BY <1>2, FeedSame DEF Consume, Poll, Skip, Route, SendEvent, clientVars, Promise!vars
  <1>3. ASSUME NEW r \in Routers, Receive(r)
        PROVE  Promise!Next
    BY <1>3, DispatchRefines DEF Receive
  <1>4. ASSUME NEW k \in Clients, Show(k)
        PROVE  UNCHANGED Promise!vars
    <2>1. shown[k] \in Seq(Records) /\ queue[k] \in Seq(Records)
      BY DEF IInv, TypeOK
    <2>2. /\ shown' = [shown EXCEPT ![k] = Append(shown[k], Head(queue[k]))]
          /\ queue' = [queue EXCEPT ![k] = Tail(queue[k])]
          /\ queue[k] # << >> /\ UNCHANGED <<topic, scope, moves>>
      BY <1>4 DEF Show
    <2>3. Append(shown[k], Head(queue[k])) \o Tail(queue[k]) = shown[k] \o queue[k]
      BY <2>1, <2>2, Concatenated
    <2>4. \A c \in Clients : shown'[c] \o queue'[c] = shown[c] \o queue[c]
      BY <2>2, <2>3 DEF IInv, TypeOK
    <2>5. Feed' = Feed
      BY <2>4 DEF Feed
    <2> QED BY <2>2, <2>5 DEF Promise!vars
  <1>5. CASE UNCHANGED vars
    BY <1>5, FeedSame DEF vars, clientVars, Promise!vars
  <1> QED BY <1>1, <1>2, <1>3, <1>4, <1>5 DEF Next

LEMMA InitRefines == Init => Promise!Init
  <1> SUFFICES ASSUME Init PROVE Promise!Init
    OBVIOUS
  <1>1. << >> \o << >> = << >>
    OBVIOUS
  <1>2. Feed = [k \in Clients |-> << >>]
    BY <1>1 DEF Init, Feed
  <1>3. topic = [p \in Partitions |-> << >>] /\ scope = [k \in Clients |-> {}] /\ moves = 0
    BY DEF Init
  <1> QED BY <1>2, <1>3 DEF Promise!Init

(***************************************************************************)
(* What a browser gets is a selection of what its scope allows and, while  *)
(* no partition moves, has each event once and the events of a partition   *)
(* in order - whatever streams break, buffers overflow and scopes change   *)
(* (broker.go:66-67, 94-107).                                              *)
(***************************************************************************)
THEOREM Implements == Spec => ImplementsLiveFeed
  <1>1. IInv /\ [Next]_vars => [Promise!Next]_(Promise!vars)
    BY StepRefines
  <1> QED BY <1>1, InitRefines, Inductive, PTL DEF Spec, ImplementsLiveFeed, Promise!Spec
=============================================================================
