----------------------- MODULE FleetProjectionProofs -----------------------
(***************************************************************************)
(* Proofs about FleetProjection, for any vehicles, fleets, syncers,        *)
(* handlers and bounds.  A step changes the plan, or the late transaction, *)
(* of one goroutine at most; the lemmas say what each kind of step does to *)
(* the parts of IInv.                                                      *)
(***************************************************************************)
EXTENDS FleetProjection, TLAPS

USE ProjectionAssumption

\* Executing a transaction keeps Redis well typed and its index exact
\* (sync.go:30-45).
LEMMA ExecuteKeepsIndex ==
  ASSUME NEW p \in Plans, key \in Assignments, index \subseteq Vins, IndexListsKeys, Execute(p)
  PROVE  key' \in Assignments /\ index' \subseteq Vins /\ IndexListsKeys'
<1>1. key' \in Assignments
  BY DEF Execute, Assignments, Plans
<1>2. \A v \in Vins : key'[v] = IF p[v] = Keep THEN key[v] ELSE p[v]
  BY DEF Execute
<1>3. index' = {v \in Vins : p[v] \in Fleets \/ (p[v] = Keep /\ v \in index)}
  BY DEF Execute
<1>4. \A v \in Vins : p[v] \in Fleets \cup {NoFleet, Keep}
  BY DEF Plans
<1>5. \A v \in Vins : v \in index' <=> key'[v] # NoFleet
  BY <1>2, <1>3, <1>4 DEF IndexListsKeys
<1>6. index' \subseteq Vins
  BY <1>3
<1> QED
  BY <1>1, <1>5, <1>6 DEF IndexListsKeys

\* A transaction without outdated assignments brings no doubtful vehicle about.
LEMMA ExecuteIsCurrent ==
  ASSUME NEW p \in Plans, NEW v \in Vins, Execute(p)
  PROVE  key'[v] = IF p[v] = Keep THEN key[v] ELSE p[v]
BY DEF Execute

THEOREM Initially == Init => IInv
<1> SUFFICES ASSUME Init PROVE IInv
  OBVIOUS
<1>1. TypeOK
  BY DEF Init, TypeOK, Nothing, Assignments, Plans
<1>2. IndexListsKeys /\ IdleOwesNothing
  BY DEF Init, IndexListsKeys, IdleOwesNothing
<1>3. DoubtOfOvertaken /\ StaleForACause
  BY DEF Init, DoubtOfOvertaken, StaleForACause, Overtaken, Nothing
<1> QED
  BY <1>1, <1>2, <1>3 DEF IInv

\* The table changes and no goroutine takes note: Seed, Remove (store.go:149-164, schema.sql:8-12).
LEMMA TableStep ==
  ASSUME IInv, NEW v \in Vins, NEW f \in Fleets \cup {NoFleet},
         assigned' = [assigned EXCEPT ![v] = f],
         doubtful' = doubtful \cup {v},
         changes' \in 0 .. MaxChanges, faults' \in 0 .. MaxFaults,
         UNCHANGED <<redisVars, step, plan, late>>
  PROVE  IInv'
<1> USE DEF IInv, redisVars
<1>1. assigned' \in Assignments
  BY DEF TypeOK, Assignments
<1>2. TypeOK'
  BY <1>1 DEF TypeOK
<1>3. IndexListsKeys' /\ IdleOwesNothing'
  BY DEF IndexListsKeys, IdleOwesNothing
<1>4. \A u \in Vins \ {v} : assigned'[u] = assigned[u]
  BY DEF TypeOK, Assignments
<1>5. DoubtOfOvertaken'
  <2> SUFFICES ASSUME NEW u \in Vins \ doubtful' PROVE ~ Overtaken(u, assigned[u])'
    BY DEF DoubtOfOvertaken
  <2>1. u \in Vins \ doubtful /\ assigned'[u] = assigned[u]
    BY <1>4
  <2> QED
    BY <2>1 DEF DoubtOfOvertaken, Overtaken
<1>6. StaleForACause'
  <2> SUFFICES ASSUME NEW u \in Vins, u \notin doubtful'
               PROVE  \/ key'[u] = assigned'[u]
                      \/ \E w \in Workers : plan'[w][u] = assigned'[u]
    BY DEF StaleForACause
  <2>1. u \notin doubtful /\ assigned'[u] = assigned[u]
    BY <1>4
  <2> QED
    BY <2>1 DEF StaleForACause
<1> QED
  BY <1>2, <1>3, <1>5, <1>6 DEF IInv

\* UpsertVehicle, with SetOne still to come (service.go:120-124).
LEMMA UpsertStep ==
  ASSUME IInv, NEW h \in Handlers, NEW v \in Vins, NEW f \in Fleets, Upsert(h, v, f)
  PROVE  IInv'
<1> DEFINE p == [Nothing EXCEPT ![v] = f]
<1> USE DEF IInv, redisVars, Upsert
<1>0. h \in Workers
  BY DEF Workers
<1>1. p \in Plans /\ p[v] = f /\ \A u \in Vins \ {v} : p[u] = Keep
  BY DEF Plans, Nothing
<1>2. plan'[h] = p /\ \A w \in Workers \ {h} : plan'[w] = plan[w]
  BY <1>0 DEF TypeOK
<1>3. assigned'[v] = f /\ \A u \in Vins \ {v} : assigned'[u] = assigned[u]
  BY DEF TypeOK, Assignments
<1>4. assigned' \in Assignments /\ plan' \in [Workers -> Plans]
  BY <1>0, <1>1 DEF TypeOK, Assignments
<1>5. step' \in [Workers -> {"idle", "list", "write"}] /\ doubtful' \subseteq Vins
  BY DEF TypeOK
<1>6. changes' \in 0 .. MaxChanges
  BY DEF Change, TypeOK
<1>7. TypeOK'
  BY <1>4, <1>5, <1>6 DEF TypeOK
<1>8. IndexListsKeys'
  BY DEF IndexListsKeys
<1>9. IdleOwesNothing'
  BY <1>0, <1>2 DEF IdleOwesNothing, TypeOK
<1>10. plan[h] = Nothing
  BY <1>0 DEF IdleOwesNothing
<1>11. DoubtOfOvertaken'
  <2> SUFFICES ASSUME NEW u \in Vins, u \notin doubtful', NEW w \in Workers
               PROVE  plan'[w][u] \in {Keep, assigned'[u]} /\ late'[w][u] \in {Keep, assigned'[u]}
    BY DEF DoubtOfOvertaken, Overtaken
  <2>1. CASE u = v
    <3>1. ~ Overtaken(v, f)
      BY <2>1
    <3>2. plan[w][v] \in {Keep, f} /\ late[w][v] \in {Keep, f}
      BY <3>1 DEF Overtaken
    <3> QED
      BY <2>1, <3>2, <1>1, <1>2, <1>3
  <2>2. CASE u # v
    <3>1. u \notin doubtful
      BY <2>2
    <3>2. plan[w][u] \in {Keep, assigned[u]} /\ late[w][u] \in {Keep, assigned[u]}
      BY <3>1 DEF DoubtOfOvertaken, Overtaken
    <3> QED
      BY <2>2, <3>2, <1>1, <1>2, <1>3
  <2> QED
    BY <2>1, <2>2
<1>12. StaleForACause'
  <2> SUFFICES ASSUME NEW u \in Vins, u \notin doubtful', key'[u] # assigned'[u]
               PROVE  \E w \in Workers : plan'[w][u] = assigned'[u]
    BY DEF StaleForACause
  <2>1. CASE u = v
    BY <2>1, <1>0, <1>1, <1>2, <1>3
  <2>2. CASE u # v
    <3>1. u \notin doubtful /\ key[u] # assigned[u]
      BY <2>2, <1>3
    <3>2. PICK w \in Workers : plan[w][u] = assigned[u]
      BY <3>1 DEF StaleForACause
    <3>3. assigned[u] # Keep
      BY DEF TypeOK, Assignments
    <3>4. w # h
      BY <3>2, <3>3, <1>10 DEF Nothing
    <3> QED
      BY <2>2, <3>2, <3>4, <1>2, <1>3
  <2> QED
    BY <2>1, <2>2
<1> QED
  BY <1>7, <1>8, <1>9, <1>11, <1>12 DEF IInv

\* The sync that begins takes over the vehicles that nobody spoils (sync.go:22).
LEMMA ReadVehiclesStep ==
  ASSUME IInv, NEW s \in Syncers, ReadVehicles(s)
  PROVE  IInv'
<1> USE DEF IInv, redisVars, ReadVehicles
<1>0. s \in Workers
  BY DEF Workers
<1>1. plan'[s] = assigned /\ \A w \in Workers \ {s} : plan'[w] = plan[w]
  BY <1>0 DEF TypeOK
<1>2. assigned \in Plans
  BY DEF TypeOK, Assignments, Plans
<1>3. TypeOK'
  BY <1>0, <1>2 DEF TypeOK
<1>4. IndexListsKeys'
  BY DEF IndexListsKeys
<1>5. IdleOwesNothing'
  BY <1>0, <1>1 DEF IdleOwesNothing, TypeOK
<1>6. \A u \in Vins \ doubtful' : ~ Overtaken(u, assigned[u])
  BY DEF DoubtOfOvertaken
<1>7. DoubtOfOvertaken'
  BY <1>1, <1>6 DEF DoubtOfOvertaken, Overtaken
<1>8. StaleForACause'
  BY <1>0, <1>1 DEF StaleForACause
<1> QED
  BY <1>3, <1>4, <1>5, <1>7, <1>8 DEF IInv

\* A vehicle without a fleet that the index does not list has no key (sync.go:26-42).
LEMMA ReadIndexStep ==
  ASSUME IInv, NEW s \in Syncers, ReadIndex(s)
  PROVE  IInv'
<1> USE DEF IInv, redisVars, ReadIndex
<1>0. s \in Workers
  BY DEF Workers
<1>1. plan'[s] = Removals(plan[s]) /\ \A w \in Workers \ {s} : plan'[w] = plan[w]
  BY <1>0 DEF TypeOK
<1>2. \A u \in Vins : plan'[s][u] = IF plan[s][u] = NoFleet /\ u \notin index
                                    THEN Keep ELSE plan[s][u]
  BY <1>1 DEF Removals
<1>3. plan[s] \in Plans
  BY <1>0 DEF TypeOK
<1>4. Removals(plan[s]) \in Plans
  BY <1>3 DEF Removals, Plans
<1>5. TypeOK'
  BY <1>0, <1>4 DEF TypeOK
<1>6. IndexListsKeys'
  BY DEF IndexListsKeys
<1>7. IdleOwesNothing'
  BY <1>0, <1>1 DEF IdleOwesNothing, TypeOK
<1>8. DoubtOfOvertaken'
  BY <1>1, <1>2 DEF DoubtOfOvertaken, Overtaken
<1>9. StaleForACause'
  <2> SUFFICES ASSUME NEW u \in Vins, u \notin doubtful, key[u] # assigned[u]
               PROVE  \E w \in Workers : plan'[w][u] = assigned[u]
    BY DEF StaleForACause
  <2>1. PICK w \in Workers : plan[w][u] = assigned[u]
    BY DEF StaleForACause
  <2>2. CASE w # s
    BY <2>1, <2>2, <1>1
  <2>3. CASE w = s
    <3>1. ~ (assigned[u] = NoFleet /\ u \notin index)
      BY DEF IndexListsKeys
    <3> QED
      BY <2>1, <2>3, <3>1, <1>0, <1>2
  <2> QED
    BY <2>2, <2>3
<1> QED
  BY <1>5, <1>6, <1>7, <1>8, <1>9 DEF IInv

\* A goroutine that returns owes nothing any more (sync.go:43-57).
LEMMA ReturnKeepsIdle ==
  ASSUME TypeOK, IdleOwesNothing, NEW w \in Workers, Return(w)
  PROVE  /\ step' \in [Workers -> {"idle", "list", "write"}]
         /\ plan' \in [Workers -> Plans]
         /\ plan'[w] = Nothing
         /\ \A x \in Workers \ {w} : plan'[x] = plan[x]
         /\ IdleOwesNothing'
<1>1. Nothing \in Plans
  BY DEF Nothing, Plans
<1>2. step' \in [Workers -> {"idle", "list", "write"}] /\ plan' \in [Workers -> Plans]
  BY <1>1 DEF Return, TypeOK
<1>3. plan'[w] = Nothing /\ \A x \in Workers \ {w} : plan'[x] = plan[x] /\ step'[x] = step[x]
  BY DEF Return, TypeOK
<1>4. Nothing' = Nothing
  BY DEF Nothing
<1>5. IdleOwesNothing'
  BY <1>3, <1>4 DEF IdleOwesNothing
<1> QED
  BY <1>2, <1>3, <1>5

\* The transaction succeeds (sync.go:43, 55).
LEMMA WriteStep ==
  ASSUME IInv, NEW w \in Workers, Write(w)
  PROVE  IInv'
<1> USE DEF IInv, redisVars
<1>1. Execute(plan[w]) /\ Return(w) /\ UNCHANGED <<assigned, late, doubtful, changes, faults>>
  BY DEF Write
<1>2. plan[w] \in Plans
  BY DEF TypeOK
<1>3. key' \in Assignments /\ index' \subseteq Vins /\ IndexListsKeys'
  BY <1>1, <1>2, ExecuteKeepsIndex DEF TypeOK
<1>4. /\ step' \in [Workers -> {"idle", "list", "write"}]
      /\ plan' \in [Workers -> Plans]
      /\ plan'[w] = Nothing
      /\ \A x \in Workers \ {w} : plan'[x] = plan[x]
      /\ IdleOwesNothing'
  BY <1>1, ReturnKeepsIdle
<1>5. TypeOK'
  BY <1>1, <1>3, <1>4 DEF TypeOK
<1>6. DoubtOfOvertaken'
  BY <1>1, <1>4 DEF DoubtOfOvertaken, Overtaken, Nothing
<1>7. StaleForACause'
  <2> SUFFICES ASSUME NEW u \in Vins, u \notin doubtful, key'[u] # assigned[u]
               PROVE  \E x \in Workers : plan'[x][u] = assigned[u]
    BY <1>1 DEF StaleForACause
  <2>1. key'[u] = IF plan[w][u] = Keep THEN key[u] ELSE plan[w][u]
    BY <1>1, <1>2, ExecuteIsCurrent
  <2>2. plan[w][u] \in {Keep, assigned[u]}
    BY DEF DoubtOfOvertaken, Overtaken
  <2>3. plan[w][u] = Keep /\ key[u] # assigned[u]
    BY <2>1, <2>2
  <2>4. PICK x \in Workers : plan[x][u] = assigned[u]
    BY <2>3 DEF StaleForACause
  <2>5. assigned[u] # Keep
    BY DEF TypeOK, Assignments
  <2> QED
    BY <2>3, <2>4, <2>5, <1>4
<1> QED
  BY <1>3, <1>4, <1>5, <1>6, <1>7 DEF IInv

\* A goroutine ends without having written: the vehicles that needed it are
\* doubtful (service.go:124-126, sync.go:67-69).
LEMMA LeftStep ==
  ASSUME IInv, NEW w \in Workers, Return(w),
         doubtful' = doubtful \cup LeftTo(w),
         faults' \in 0 .. MaxFaults,
         UNCHANGED <<assigned, redisVars, changes>>,
         late' \in [Workers -> Plans],
         \A x \in Workers : late'[x] = late[x] \/ late'[x] = plan[x]
  PROVE  IInv'
<1> USE DEF IInv, redisVars
<1>1. /\ step' \in [Workers -> {"idle", "list", "write"}]
      /\ plan' \in [Workers -> Plans]
      /\ plan'[w] = Nothing
      /\ \A x \in Workers \ {w} : plan'[x] = plan[x]
      /\ IdleOwesNothing'
  BY ReturnKeepsIdle
<1>2. TypeOK'
  BY <1>1 DEF TypeOK, LeftTo
<1>3. IndexListsKeys'
  BY DEF IndexListsKeys
<1>4. DoubtOfOvertaken'
  BY <1>1 DEF DoubtOfOvertaken, Overtaken, Nothing
<1>5. StaleForACause'
  BY <1>1 DEF StaleForACause, LeftTo
<1> QED
  BY <1>1, <1>2, <1>3, <1>4, <1>5 DEF IInv

\* The client's timeout leaves one more transaction to Redis (redis.go:17-18).
LEMMA TimeOutStep ==
  ASSUME IInv, NEW w \in Workers, TimeOut(w)
  PROVE  IInv'
<1> USE DEF IInv
<1>1. faults' \in 0 .. MaxFaults
  BY DEF TimeOut, Fault, TypeOK
<1>2. /\ late' \in [Workers -> Plans]
      /\ \A x \in Workers : late'[x] = late[x] \/ late'[x] = plan[x]
  BY DEF TimeOut, TypeOK
<1>3. CASE Return(w) /\ doubtful' = doubtful \cup LeftTo(w)
  BY <1>1, <1>2, <1>3, LeftStep DEF TimeOut
<1>4. CASE UNCHANGED <<step, plan, doubtful>>
  <2>1. UNCHANGED <<assigned, key, index, changes, step, plan, doubtful>>
    BY <1>4 DEF TimeOut, redisVars
  <2>2. TypeOK'
    BY <1>1, <1>2, <2>1 DEF TypeOK
  <2>3. IndexListsKeys'
    BY <2>1 DEF IndexListsKeys
  <2>4. IdleOwesNothing'
    BY <2>1 DEF IdleOwesNothing, Nothing
  <2>5. DoubtOfOvertaken'
    BY <1>2, <2>1 DEF DoubtOfOvertaken, Overtaken
  <2>6. StaleForACause'
    BY <2>1 DEF StaleForACause
  <2> QED
    BY <2>2, <2>3, <2>4, <2>5, <2>6
<1> QED
  BY <1>3, <1>4 DEF TimeOut

\* A late transaction writes an outdated fleet to doubtful vehicles only.
LEMMA WriteLateStep ==
  ASSUME IInv, NEW w \in Workers, WriteLate(w)
  PROVE  IInv'
<1> USE DEF IInv
<1>1. /\ Execute(late[w])
      /\ UNCHANGED <<assigned, step, plan, doubtful, changes, faults>>
      /\ late' = [late EXCEPT ![w] = Nothing]
  BY DEF WriteLate
<1>2. late[w] \in Plans /\ Nothing \in Plans
  BY DEF TypeOK, Nothing, Plans
<1>3. key' \in Assignments /\ index' \subseteq Vins /\ IndexListsKeys'
  BY <1>1, <1>2, ExecuteKeepsIndex DEF TypeOK
<1>4. late'[w] = Nothing /\ \A x \in Workers \ {w} : late'[x] = late[x]
  BY <1>1 DEF TypeOK
<1>5. TypeOK'
  BY <1>1, <1>2, <1>3 DEF TypeOK
<1>6. IdleOwesNothing'
  BY <1>1 DEF IdleOwesNothing, Nothing
<1>7. DoubtOfOvertaken'
  BY <1>1, <1>4 DEF DoubtOfOvertaken, Overtaken, Nothing
<1>8. StaleForACause'
  <2> SUFFICES ASSUME NEW u \in Vins, u \notin doubtful, key'[u] # assigned[u]
               PROVE  \E x \in Workers : plan[x][u] = assigned[u]
    BY <1>1 DEF StaleForACause
  <2>1. key'[u] = IF late[w][u] = Keep THEN key[u] ELSE late[w][u]
    BY <1>1, <1>2, ExecuteIsCurrent
  <2>2. late[w][u] \in {Keep, assigned[u]}
    BY DEF DoubtOfOvertaken, Overtaken
  <2> QED
    BY <2>1, <2>2 DEF StaleForACause
<1> QED
  BY <1>3, <1>5, <1>6, <1>7, <1>8

\* Every step keeps the invariant.
LEMMA Step == IInv /\ [Next]_vars => IInv'
<1> SUFFICES ASSUME IInv, [Next]_vars PROVE IInv'
  OBVIOUS
<1>1. ASSUME NEW v \in Vins, NEW f \in Fleets, Seed(v, f) PROVE IInv'
  <2>1. changes' \in 0 .. MaxChanges /\ faults' \in 0 .. MaxFaults
    BY <1>1 DEF Seed, Change, IInv, TypeOK
  <2> QED
    BY <1>1, <2>1, TableStep DEF Seed
<1>2. ASSUME NEW v \in Vins, Remove(v) PROVE IInv'
  <2>1. changes' \in 0 .. MaxChanges /\ faults' \in 0 .. MaxFaults
    BY <1>2 DEF Remove, Change, IInv, TypeOK
  <2> QED
    BY <1>2, <2>1, TableStep DEF Remove
<1>3. ASSUME NEW h \in Handlers, NEW v \in Vins, NEW f \in Fleets,
             Upsert(h, v, f) \/ UpsertUnanswered(h, v, f)
      PROVE  IInv'
  <2>1. CASE Upsert(h, v, f)
    BY <2>1, UpsertStep
  <2>2. CASE UpsertUnanswered(h, v, f)
    <3>1. changes' \in 0 .. MaxChanges /\ faults' \in 0 .. MaxFaults
      BY <2>2 DEF UpsertUnanswered, Change, Fault, IInv, TypeOK
    <3> QED
      BY <2>2, <3>1, TableStep DEF UpsertUnanswered
  <2> QED
    BY <1>3, <2>1, <2>2
<1>4. ASSUME NEW s \in Syncers, Sync(s) PROVE IInv'
  BY <1>4, ReadVehiclesStep, ReadIndexStep, WriteStep DEF Sync, Workers
<1>5. ASSUME NEW h \in Handlers, Write(h) PROVE IInv'
  BY <1>5, WriteStep DEF Workers
<1>6. ASSUME NEW w \in Workers, GiveUp(w) PROVE IInv'
  <2>1. faults' \in 0 .. MaxFaults
    BY <1>6 DEF GiveUp, Fault, IInv, TypeOK
  <2>2. late' \in [Workers -> Plans] /\ \A x \in Workers : late'[x] = late[x]
    BY <1>6 DEF GiveUp, IInv, TypeOK
  <2> QED
    BY <1>6, <2>1, <2>2, LeftStep DEF GiveUp
<1>7. ASSUME NEW w \in Workers, TimeOut(w) PROVE IInv'
  BY <1>7, TimeOutStep
<1>8. ASSUME NEW w \in Workers, WriteLate(w) PROVE IInv'
  BY <1>8, WriteLateStep
<1>9. CASE UNCHANGED vars
  BY <1>9 DEF vars, redisVars, IInv, TypeOK, IndexListsKeys, IdleOwesNothing, Nothing,
              DoubtOfOvertaken, Overtaken, StaleForACause
<1> QED
  BY <1>1, <1>2, <1>3, <1>4, <1>5, <1>6, <1>7, <1>8, <1>9 DEF Next, Admin

\* The invariant of the projection holds in every behaviour (sync.go,
\* service.go:114-128).
THEOREM Inductive == Spec => []IInv
BY Initially, Step, PTL DEF Spec

\* Redis disagrees with PostgreSQL only for one of the causes that StaleForACause
\* names: an admin change that meets no slower writer and no failure shows at once.
THEOREM StaleOnlyForACause == Spec => []StaleForACause
<1>1. IInv => StaleForACause
  BY DEF IInv
<1> QED
  BY <1>1, Inductive, PTL
=============================================================================
