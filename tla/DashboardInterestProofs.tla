----------------------- MODULE DashboardInterestProofs -----------------------
(***************************************************************************)
(* Proofs about DashboardInterest, for every number of clients and routers *)
(* and every bound: the type invariant and that no wakeup is lost.         *)
(***************************************************************************)
EXTENDS DashboardInterest, TLAPS, SequenceTheorems

\* Interests that the code makes are canonical.
LEMMA Canonical ==
  ASSUME TypeOK PROVE Union \in Interests
<1>1. UNION {scope[k] : k \in clients} \subseteq Tags
  <2>1. ASSUME NEW k \in clients, NEW t \in scope[k] PROVE t \in Tags
    <3>1. scope[k] \in Scopes \cup {{}}
      BY DEF TypeOK
    <3> QED BY <2>1, <3>1, InterestAssumption
  <2> QED BY <2>1
<1>2. CASE All \in UNION {scope[k] : k \in clients}
  BY <1>2 DEF Union, Interests
<1>3. CASE All \notin UNION {scope[k] : k \in clients}
  BY <1>1, <1>3 DEF Union, Interests
<1> QED BY <1>2, <1>3

LEMMA NoneIsAnInterest == {} \in Interests
  BY DEF Interests

LEMMA UpdateAppliesInterest ==
  ASSUME NEW i \in Interests
  PROVE  Update(i) \in Messages /\ Applied(Update(i)) = i
  BY DEF Messages, Update, Applied

LEMMA AppliedType ==
  ASSUME NEW m \in Messages PROVE Applied(m) \in Interests
<1>1. CASE m = Hello
  BY <1>1, NoneIsAnInterest DEF Hello, Applied
<1>2. ASSUME NEW i \in Interests, m = Update(i) PROVE Applied(m) \in Interests
  BY <1>2, UpdateAppliesInterest
<1> QED BY <1>1, <1>2 DEF Messages

\* The last message of a pipe is the last one until it is the one received.
LEMMA LastOfTail ==
  ASSUME NEW S, NEW s \in Seq(S), s # << >>
  PROVE  /\ Tail(s) = << >> => Head(s) = s[Len(s)]
         /\ Tail(s) # << >> => Tail(s)[Len(Tail(s))] = s[Len(s)]
<1>1. Len(s) \in Nat \ {0}
  BY EmptySeq
<1>2. Head(s) = s[1]
  OBVIOUS
<1>3. Tail(s) \in Seq(S) /\ Len(Tail(s)) = Len(s) - 1
  BY HeadTailProperties
<1>4. \A i \in 1..Len(Tail(s)) : Tail(s)[i] = s[i + 1]
  BY HeadTailProperties
<1>5. CASE Tail(s) = << >>
  <2>1. Len(Tail(s)) = 0
    BY <1>5, EmptySeq, Zenon
  <2>2. Len(s) - 1 = 0
    BY <1>3, <2>1, Zenon
  <2>3. Len(s) = 1
    BY <1>1, <2>2
  <2> QED BY <1>2, <1>5, <2>3, Zenon
<1>6. CASE Tail(s) # << >>
  <2>1. Len(Tail(s)) \in Nat \ {0}
    BY <1>3, <1>6, EmptySeq
  <2>2. Len(s) - 1 \in 1..Len(Tail(s)) /\ (Len(s) - 1) + 1 = Len(s)
    BY <1>1, <1>3, <2>1
  <2> QED BY <1>3, <1>4, <1>6, <2>2, Zenon
<1> QED BY <1>5, <1>6

THEOREM InitIInv == Init => IInv
<1> SUFFICES ASSUME Init PROVE IInv
  OBVIOUS
<1>1. TypeOK
  BY InterestAssumption, NoneIsAnInterest DEF Init, TypeOK, Workers
<1>2. Answered
  BY DEF Init, Answered, Workers
<1>3. ASSUME NEW r \in Routers PROVE link[r] = "down"
  BY DEF Init
<1> QED BY <1>1, <1>2, <1>3 DEF IInv, CurrentIsFresh, NoLostWakeup

\* Every step keeps the types.
LEMMA TypeStep ==
  ASSUME TypeOK, Answered, [Next]_vars PROVE TypeOK'
<1> USE InterestAssumption
<1>1. ASSUME NEW u \in Users, NEW s \in Scopes, Grant(u, s) PROVE TypeOK'
  BY <1>1 DEF Grant, TypeOK, Workers, brokerVars, streamVars, boundVars
<1>2. ASSUME NEW k \in Clients, Connect(k) PROVE TypeOK'
  BY <1>2 DEF Connect, TypeOK, Workers, brokerVars, streamVars, boundVars
<1>3. ASSUME NEW k \in Clients, Register(k) PROVE TypeOK'
  BY <1>3 DEF Register, TypeOK, Workers, brokerVars, streamVars, boundVars
<1>4. ASSUME NEW k \in Clients, Unregister(k) PROVE TypeOK'
  BY <1>4 DEF Unregister, TypeOK, Workers, brokerVars, streamVars, boundVars
<1>5. ASSUME NEW w \in Workers, Compute(w) PROVE TypeOK'
  <2>1. union' \in [Workers -> Interests]
    BY <1>5, Canonical DEF Compute, TypeOK, Workers
  <2> QED BY <1>5, <2>1 DEF Compute, TypeOK, Workers, brokerVars, streamVars, boundVars
<1>6. ASSUME NEW w \in Workers, Publish(w) PROVE TypeOK'
  <2>1. bus' \in Interests
    BY <1>6 DEF Publish, TypeOK
  <2>2. union' \in [Workers -> Interests]
    BY <1>6, NoneIsAnInterest DEF Publish, TypeOK
  <2>3. signal' \in [Routers -> BOOLEAN]
    BY <1>6 DEF Publish, TypeOK
  <2> QED BY <1>6, <2>1, <2>2, <2>3 DEF Publish, TypeOK, Workers, brokerVars, streamVars, boundVars
<1>7. ASSUME Tick PROVE TypeOK'
  BY <1>7 DEF Tick, TypeOK, Workers, brokerVars, streamVars, boundVars
<1>8. ASSUME NEW u \in Users, Ask(u) PROVE TypeOK'
  BY <1>8 DEF Ask, TypeOK, Workers, brokerVars, streamVars, boundVars
<1>9. ASSUME NEW u \in Users, AskFails(u) PROVE TypeOK'
  BY <1>9 DEF AskFails, TypeOK, Workers, brokerVars, streamVars, boundVars
<1>10. ASSUME UpdateScope PROVE TypeOK'
  <2>1. answer \in Users \X Scopes
    BY <1>10 DEF UpdateScope, TypeOK, Answered
  <2>2. answer[2] \in Scopes
    BY <2>1
  <2>3. scope' \in [Clients -> Scopes \cup {{}}]
    BY <1>10, <2>2 DEF UpdateScope, TypeOK
  <2> QED BY <1>10, <2>3 DEF UpdateScope, TypeOK, Workers, brokerVars, streamVars, boundVars
<1>11. ASSUME NEW r \in Routers, Open(r) PROVE TypeOK'
  BY <1>11 DEF Open, TypeOK, Workers, brokerVars, streamVars, boundVars
<1>12. ASSUME NEW r \in Routers, SendHello(r) PROVE TypeOK'
  <2>0. Hello \in Messages /\ pipe[r] \in Seq(Messages)
    BY DEF TypeOK, Messages
  <2>1. Append(pipe[r], Hello) \in Seq(Messages)
    BY <2>0
  <2>2. pipe' \in [Routers -> Seq(Messages)]
    BY <1>12, <2>1 DEF SendHello, TypeOK
  <2> QED BY <1>12, <2>2 DEF SendHello, TypeOK, Workers, brokerVars, streamVars, boundVars
<1>13. ASSUME NEW r \in Routers, Current(r) PROVE TypeOK'
  BY <1>13 DEF Current, TypeOK, Workers, brokerVars, streamVars, boundVars
<1>14. ASSUME NEW r \in Routers, SendInterest(r) PROVE TypeOK'
  <2>1. Update(current[r]) \in Messages
    BY UpdateAppliesInterest DEF TypeOK
  <2>2. Append(pipe[r], Update(current[r])) \in Seq(Messages)
    BY <2>1 DEF TypeOK
  <2>3. pipe' \in [Routers -> Seq(Messages)]
    BY <1>14, <2>2 DEF SendInterest, TypeOK
  <2> QED BY <1>14, <2>3 DEF SendInterest, TypeOK, Workers, brokerVars, streamVars, boundVars
<1>15. ASSUME NEW r \in Routers, Wake(r) PROVE TypeOK'
  BY <1>15 DEF Wake, TypeOK, Workers, brokerVars, streamVars, boundVars
<1>16. ASSUME NEW r \in Routers, Receive(r) PROVE TypeOK'
  <2>1. pipe[r] \in Seq(Messages) /\ pipe[r] # << >>
    BY <1>16 DEF Receive, TypeOK
  <2>2. Head(pipe[r]) \in Messages /\ Tail(pipe[r]) \in Seq(Messages)
    BY <2>1
  <2>3. Applied(Head(pipe[r])) \in Interests
    BY <2>2, AppliedType
  <2>4. routed' \in [Routers -> Interests]
    BY <1>16, <2>3 DEF Receive, TypeOK
  <2>5. pipe' \in [Routers -> Seq(Messages)]
    BY <1>16, <2>2 DEF Receive, TypeOK
  <2> QED BY <1>16, <2>4, <2>5 DEF Receive, TypeOK, Workers, brokerVars, streamVars, boundVars
<1>17. ASSUME NEW r \in Routers, Break(r) PROVE TypeOK'
  <2>1. /\ current' \in [Routers -> Interests]
        /\ routed' \in [Routers -> Interests]
    BY <1>17, NoneIsAnInterest DEF Break, TypeOK
  <2>2. pipe' \in [Routers -> Seq(Messages)]
    BY <1>17 DEF Break, TypeOK
  <2> QED BY <1>17, <2>1, <2>2 DEF Break, TypeOK, Workers, brokerVars, streamVars, boundVars
<1>18. CASE UNCHANGED vars
  BY <1>18 DEF vars, TypeOK, brokerVars, streamVars, boundVars
<1> QED
  BY <1>1, <1>2, <1>3, <1>4, <1>5, <1>6, <1>7, <1>8, <1>9, <1>10, <1>11, <1>12,
     <1>13, <1>14, <1>15, <1>16, <1>17, <1>18
  DEF Next, Environment, Refresh, Serve, Stream, Recompute, Workers

\* Every step keeps an answer for the refresher that is about to store one.
LEMMA AnsweredStep ==
  ASSUME TypeOK, Answered, [Next]_vars PROVE Answered'
<1> USE InterestAssumption DEF Answered
<1>1. ASSUME NEW u \in Users, Ask(u) PROVE Answered'
  BY <1>1 DEF Ask
<1>2. ASSUME NEW u \in Users, AskFails(u) PROVE Answered'
  BY <1>2 DEF AskFails, TypeOK, Workers
<1>3. CASE UpdateScope
  BY <1>3 DEF UpdateScope, TypeOK, Workers
<1>4. CASE Tick
  BY <1>4 DEF Tick, TypeOK, Workers
<1>5. ASSUME NEW w \in Workers, Compute(w) PROVE Answered'
  BY <1>5 DEF Compute, TypeOK
<1>6. ASSUME NEW w \in Workers, Publish(w) PROVE Answered'
  BY <1>6 DEF Publish, TypeOK
<1>7. ASSUME NEW k \in Clients, Connect(k) \/ Register(k) \/ Unregister(k) PROVE Answered'
  BY <1>7 DEF Connect, Register, Unregister, TypeOK, Workers
<1>8. CASE /\ UNCHANGED brokerVars
  BY <1>8 DEF brokerVars
<1>9. ASSUME NEW u \in Users, NEW s \in Scopes, Grant(u, s) PROVE Answered'
  BY <1>9, <1>8 DEF Grant
<1>10. ASSUME NEW r \in Routers, Stream(r) \/ Receive(r) \/ Break(r) PROVE Answered'
  BY <1>10, <1>8
  DEF Stream, Open, SendHello, Current, SendInterest, Wake, Receive, Break
<1>11. CASE UNCHANGED vars
  BY <1>11, <1>8 DEF vars
<1> QED
  BY <1>1, <1>2, <1>3, <1>4, <1>5, <1>6, <1>7, <1>9, <1>10, <1>11
  DEF Next, Environment, Refresh, Serve, Recompute, Workers

\* A step of one stream leaves the others alone, and only Publish sets the bus.
LEMMA WakeupStep ==
  ASSUME TypeOK, CurrentIsFresh, NoLostWakeup, [Next]_vars
  PROVE  CurrentIsFresh' /\ NoLostWakeup'
<1> USE DEF CurrentIsFresh, NoLostWakeup
<1>1. CASE UNCHANGED <<bus, signal, streamVars>>
  BY <1>1 DEF streamVars, Told
<1>2. ASSUME NEW w \in Workers, Publish(w) PROVE CurrentIsFresh' /\ NoLostWakeup'
  <2>1. UNCHANGED <<link, current, pipe, routed>>
    BY <1>2 DEF Publish, streamVars
  <2>2. ASSUME NEW r \in Routers, link[r] # "down", ~ signal'[r] PROVE bus' = bus /\ ~ signal[r]
    BY <1>2, <2>2 DEF Publish, Woken, Watching, TypeOK
  <2> QED BY <2>1, <2>2 DEF Told
<1>3. ASSUME NEW r \in Routers, Stream(r) \/ Receive(r) \/ Break(r)
      PROVE CurrentIsFresh' /\ NoLostWakeup'
  <2>1. bus' = bus
    BY <1>3 DEF Stream, Open, SendHello, Current, SendInterest, Wake, Receive, Break
  <2>2. ASSUME NEW q \in Routers, q # r
        PROVE  /\ link'[q] = link[q] /\ signal'[q] = signal[q]
               /\ current'[q] = current[q] /\ Told(q)' = Told(q)
    BY <1>3, <2>2
    DEF Stream, Open, SendHello, Current, SendInterest, Wake, Receive, Break, TypeOK, Told
  <2>3. /\ link'[r] = "send" /\ ~ signal'[r] => current'[r] = bus
        /\ link'[r] = "wait" /\ ~ signal'[r] => Told(r)' = bus
    <3>1. CASE Open(r) \/ SendHello(r) \/ Wake(r) \/ Break(r)
      BY <3>1 DEF Open, SendHello, Wake, Break, TypeOK
    <3>2. CASE Current(r)
      BY <3>2 DEF Current, TypeOK
    <3>3. CASE SendInterest(r)
      <4> DEFINE p == Append(pipe[r], Update(current[r]))
      <4>1. pipe[r] \in Seq(Messages) /\ Update(current[r]) \in Messages
        BY UpdateAppliesInterest DEF TypeOK
      <4>2. p # << >> /\ p[Len(p)] = Update(current[r])
        BY <4>1
      <4>3. pipe'[r] = p
        BY <3>3 DEF SendInterest, TypeOK
      <4>4. Told(r)' = current[r]
        <5>1. Told(r)' = Applied(Update(current[r]))
          BY <4>2, <4>3 DEF Told
        <5> QED BY <5>1, UpdateAppliesInterest DEF TypeOK
      <4> HIDE DEF p
      <4>5. link'[r] = "wait" /\ link[r] = "send" /\ signal'[r] = signal[r]
        BY <3>3 DEF SendInterest, TypeOK
      <4> QED BY <4>4, <4>5
    <3>4. CASE Receive(r)
      <4>1. /\ pipe[r] \in Seq(Messages) /\ pipe[r] # << >>
            /\ pipe'[r] = Tail(pipe[r]) /\ routed'[r] = Applied(Head(pipe[r]))
        BY <3>4 DEF Receive, TypeOK
      <4>2. Told(r)' = Told(r)
        <5>1. /\ Tail(pipe[r]) = << >> => Head(pipe[r]) = pipe[r][Len(pipe[r])]
              /\ Tail(pipe[r]) # << >> =>
                   Tail(pipe[r])[Len(Tail(pipe[r]))] = pipe[r][Len(pipe[r])]
          BY <4>1, LastOfTail
        <5> QED BY <4>1, <5>1 DEF Told
      <4>3. link'[r] = link[r] /\ signal'[r] = signal[r] /\ current'[r] = current[r]
        BY <3>4 DEF Receive
      <4> QED BY <4>2, <4>3
    <3> QED BY <1>3, <3>1, <3>2, <3>3, <3>4 DEF Stream
  <2> QED BY <2>1, <2>2, <2>3
<1>4. ASSUME NEW k \in Clients, Connect(k) \/ Register(k) \/ Unregister(k)
      PROVE UNCHANGED <<bus, signal, streamVars>>
  BY <1>4 DEF Connect, Register, Unregister
<1>5. ASSUME NEW w \in Workers, Compute(w) PROVE UNCHANGED <<bus, signal, streamVars>>
  BY <1>5 DEF Compute
<1>6. ASSUME NEW u \in Users, Ask(u) \/ AskFails(u) PROVE UNCHANGED <<bus, signal, streamVars>>
  BY <1>6 DEF Ask, AskFails
<1>7. ASSUME Tick \/ UpdateScope PROVE UNCHANGED <<bus, signal, streamVars>>
  BY <1>7 DEF Tick, UpdateScope
<1>8. ASSUME NEW u \in Users, NEW s \in Scopes, Grant(u, s)
      PROVE UNCHANGED <<bus, signal, streamVars>>
  BY <1>8 DEF Grant
<1>9. ASSUME UNCHANGED vars PROVE UNCHANGED <<bus, signal, streamVars>>
  BY <1>9 DEF vars
<1> QED
  BY <1>1, <1>2, <1>3, <1>4, <1>5, <1>6, <1>7, <1>8, <1>9
  DEF Next, Environment, Refresh, Serve, Recompute, Workers

(***************************************************************************)
(* The inductive invariant of the pod's streams and refresher.             *)
(***************************************************************************)
THEOREM Inductive == Spec => []IInv
<1>1. IInv /\ [Next]_vars => IInv'
  BY TypeStep, AnsweredStep, WakeupStep DEF IInv
<1> QED BY InitIInv, <1>1, PTL DEF Spec

(***************************************************************************)
(* However publications, sends and reconnections interleave, a stream that *)
(* sits in its select without a signal has sent what the InterestBus holds *)
(* (InterestBus.Set and Watch, RouterPool.stream).                         *)
(***************************************************************************)
THEOREM NoWakeupIsLost == Spec => []NoLostWakeup
<1>1. IInv => NoLostWakeup
  BY DEF IInv
<1> QED BY Inductive, <1>1, PTL
=============================================================================
