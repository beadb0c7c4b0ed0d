-------------------------- MODULE FleetProjection --------------------------
(***************************************************************************)
(* The projection of vehicle-to-fleet assignments from PostgreSQL, the     *)
(* source of truth, into Redis, where telemetry-processor reads them       *)
(* (internal/authz/{sync,store,service}.go, cmd/rbac-authz/main.go).       *)
(*                                                                         *)
(* Two kinds of writers share the projection, without a lock between them: *)
(* the syncer of each rbac-authz pod, which copies the whole table again   *)
(* and again (SyncOnce), and the handlers of admin requests, which change  *)
(* a row and push that one assignment at once (upsertVehicle, SetOne).     *)
(* What a goroutine is going to write is fixed when it has read or changed *)
(* the table, and written later, as one transaction of Redis.              *)
(***************************************************************************)
EXTENDS Naturals

CONSTANTS
  Vins,
  Fleets,
  NoFleet,    \* in the table: no row; in Redis: no key
  Keep,       \* in a plan: the transaction leaves the vehicle's key alone
  Syncers,    \* the syncer goroutines, one per pod
  Handlers,   \* goroutines of admin requests
  MaxChanges, \* bound: changes of the table
  MaxFaults   \* bound: calls that fail, goroutines that end early

ASSUME ProjectionAssumption ==
  /\ NoFleet \notin Fleets
  /\ Keep \notin Fleets /\ Keep # NoFleet
  /\ Syncers \cap Handlers = {}
  /\ MaxChanges \in Nat /\ MaxFaults \in Nat

Workers == Syncers \cup Handlers

VARIABLES
  assigned, \* PostgreSQL: assigned[v], the fleet_id of v's row
  key,      \* Redis: key[v], the value at FleetKey(v)
  index,    \* Redis: the set at FleetIndexKey
  step,     \* step[w]: "idle", "list" (a syncer about to read the index), "write"
  plan,     \* plan[w]: for each vehicle, what w is going to write
  late,     \* late[w]: a transaction of w that Redis may execute after w's timeout
  doubtful, \* auxiliary: vehicles whose key a slow or failed writer may have spoilt
  changes,  \* changes of the table so far
  faults    \* faults so far

redisVars == <<key, index>>
vars == <<assigned, redisVars, step, plan, late, doubtful, changes, faults>>

Assignments == [Vins -> Fleets \cup {NoFleet}]
Plans == [Vins -> Fleets \cup {NoFleet, Keep}]

Nothing == [v \in Vins |-> Keep]

Init ==
  /\ assigned = [v \in Vins |-> NoFleet]
  /\ key = [v \in Vins |-> NoFleet]
  /\ index = {}
  /\ step = [w \in Workers |-> "idle"]
  /\ plan = [w \in Workers |-> Nothing]
  /\ late = [w \in Workers |-> Nothing]
  /\ doubtful = {}
  /\ changes = 0
  /\ faults = 0

Change == changes < MaxChanges /\ changes' = changes + 1

Fault == faults < MaxFaults /\ faults' = faults + 1

\* Some transaction under way, or late, would write another fleet than f to v's key.
Overtaken(v, f) ==
  \E w \in Workers : plan[w][v] \notin {Keep, f} \/ late[w][v] \notin {Keep, f}

-----------------------------------------------------------------------------
(* The table changes without SetOne *)

\* Seed of a starting pod: ON CONFLICT DO NOTHING.
Seed(v, f) ==
  /\ Change
  /\ assigned[v] = NoFleet
  /\ assigned' = [assigned EXCEPT ![v] = f]
  /\ doubtful' = doubtful \cup {v}
  /\ UNCHANGED <<redisVars, step, plan, late, faults>>

\* An operator deletes the row; deleting its fleet sets it to NULL, which
\* VehicleFleets skips as well.
Remove(v) ==
  /\ Change
  /\ assigned[v] # NoFleet
  /\ assigned' = [assigned EXCEPT ![v] = NoFleet]
  /\ doubtful' = doubtful \cup {v}
  /\ UNCHANGED <<redisVars, step, plan, late, faults>>

-----------------------------------------------------------------------------
(* upsertVehicle *)

\* UpsertVehicle commits, and SetOne is next.
Upsert(h, v, f) ==
  /\ step[h] = "idle"
  /\ Change
  /\ assigned' = [assigned EXCEPT ![v] = f]
  /\ plan' = [plan EXCEPT ![h] = [Nothing EXCEPT ![v] = f]]
  /\ step' = [step EXCEPT ![h] = "write"]
  /\ doubtful' = IF Overtaken(v, f) THEN doubtful \cup {v} ELSE doubtful \ {v}
  /\ UNCHANGED <<redisVars, late, faults>>

\* UpsertVehicle commits but returns an error: the request fails without SetOne.
UpsertUnanswered(h, v, f) ==
  /\ step[h] = "idle"
  /\ Change /\ Fault
  /\ assigned' = [assigned EXCEPT ![v] = f]
  /\ doubtful' = doubtful \cup {v}
  /\ UNCHANGED <<redisVars, step, plan, late>>

-----------------------------------------------------------------------------
(* SyncOnce: when the pod starts and at every tick, so always again *)

ReadVehicles(s) ==
  /\ step[s] = "idle"
  /\ plan' = [plan EXCEPT ![s] = assigned]
  /\ step' = [step EXCEPT ![s] = "list"]
  /\ doubtful' = {v \in doubtful : Overtaken(v, assigned[v])}
  /\ UNCHANGED <<assigned, redisVars, late, changes, faults>>

\* Mutant: the vehicles that are gone are not removed.
NoRemoval(p) == [v \in Vins |-> IF p[v] = NoFleet THEN Keep ELSE p[v]]

\* Vehicles without a fleet are removed if the index names them.
Removals(p) == [v \in Vins |-> IF p[v] = NoFleet /\ v \notin index THEN Keep ELSE p[v]]

ReadIndex(s) ==
  /\ step[s] = "list"
  /\ plan' = [plan EXCEPT ![s] = Removals(plan[s])]
  /\ step' = [step EXCEPT ![s] = "write"]
  /\ UNCHANGED <<assigned, redisVars, late, doubtful, changes, faults>>

-----------------------------------------------------------------------------
(* Transactions of Redis *)

\* Mutants of Execute: removed vehicles stay in the index;
ExecuteNoSRem(p) ==
  /\ key' = [v \in Vins |-> IF p[v] = Keep THEN key[v] ELSE p[v]]
  /\ index' = index \cup {v \in Vins : p[v] \in Fleets}

\* SETNX instead of SET.
ExecuteSetNX(p) ==
  /\ key' = [v \in Vins |->
               IF p[v] = Keep \/ (p[v] \in Fleets /\ key[v] # NoFleet) THEN key[v] ELSE p[v]]
  /\ index' = {v \in Vins : p[v] \in Fleets \/ (p[v] = Keep /\ v \in index)}

\* MULTI/EXEC: keys and index change together.
Execute(p) ==
  /\ key' = [v \in Vins |-> IF p[v] = Keep THEN key[v] ELSE p[v]]
  /\ index' = {v \in Vins : p[v] \in Fleets \/ (p[v] = Keep /\ v \in index)}

Return(w) ==
  /\ step' = [step EXCEPT ![w] = "idle"]
  /\ plan' = [plan EXCEPT ![w] = Nothing]

\* The vehicles that need w's transaction.
LeftTo(w) == {v \in Vins : plan[w][v] = assigned[v] /\ key[v] # assigned[v]}

Write(w) ==
  /\ step[w] = "write"
  /\ Execute(plan[w])
  /\ Return(w)
  /\ UNCHANGED <<assigned, late, doubtful, changes, faults>>

\* A query or the transaction fails without effect, or the pod dies: the admin's
\* change is left to the periodic sync, and a sync to the next one.
GiveUp(w) ==
  /\ step[w] # "idle"
  /\ Fault
  /\ Return(w)
  /\ doubtful' = doubtful \cup LeftTo(w)
  /\ UNCHANGED <<assigned, redisVars, late, changes>>

\* The client's timeout, or the death of the pod, while the transaction is under
\* way: the client gives up, or sends it again.  At most one is late for each w.
TimeOut(w) ==
  /\ step[w] = "write" /\ late[w] = Nothing
  /\ Fault
  /\ late' = [late EXCEPT ![w] = plan[w]]
  /\ \/ UNCHANGED <<step, plan, doubtful>>
     \/ Return(w) /\ doubtful' = doubtful \cup LeftTo(w)
  /\ UNCHANGED <<assigned, redisVars, changes>>

\* Redis executes it after all.
WriteLate(w) ==
  /\ late[w] # Nothing
  /\ Execute(late[w])
  /\ late' = [late EXCEPT ![w] = Nothing]
  /\ UNCHANGED <<assigned, step, plan, doubtful, changes, faults>>

-----------------------------------------------------------------------------
Sync(s) == ReadVehicles(s) \/ ReadIndex(s) \/ Write(s)

Admin ==
  \/ \E v \in Vins, f \in Fleets : Seed(v, f)
  \/ \E v \in Vins : Remove(v)
  \/ \E h \in Handlers, v \in Vins, f \in Fleets : Upsert(h, v, f) \/ UpsertUnanswered(h, v, f)

Next ==
  \/ Admin
  \/ \E s \in Syncers : Sync(s)
  \/ \E h \in Handlers : Write(h)
  \/ \E w \in Workers : GiveUp(w) \/ TimeOut(w) \/ WriteLate(w)

Spec == Init /\ [][Next]_vars

\* The tickers fire and no call blocks for ever; failures are finitely many.
Fairness == \A s \in Syncers : WF_vars(Sync(s))

FairSpec == Spec /\ Fairness

-----------------------------------------------------------------------------
(* Properties *)

TypeOK ==
  /\ assigned \in Assignments
  /\ key \in Assignments
  /\ index \subseteq Vins
  /\ step \in [Workers -> {"idle", "list", "write"}]
  /\ plan \in [Workers -> Plans]
  /\ late \in [Workers -> Plans]
  /\ doubtful \subseteq Vins
  /\ changes \in 0 .. MaxChanges
  /\ faults \in 0 .. MaxFaults

\* The index lists exactly the vehicles with a key: SyncOnce could never remove a
\* key that the index does not list (sync.go:26-42).
IndexListsKeys == index = {v \in Vins : key[v] # NoFleet}

\* A goroutine between two pieces of work has nothing to write.
IdleOwesNothing == \A w \in Workers : step[w] = "idle" => plan[w] = Nothing

\* A writer that carries an outdated assignment makes its vehicle doubtful.
DoubtOfOvertaken == \A v \in Vins \ doubtful : ~ Overtaken(v, assigned[v])

(***************************************************************************)
(* Redis names another fleet than PostgreSQL only for a cause: a writer    *)
(* with the right one is on its way, or since the last change of the row,  *)
(* or the last sync that began, whichever is later, the row was changed    *)
(* behind SetOne's back, a transaction with an older assignment was under  *)
(* way, or a writer gave up.  So an admin change that meets no slower      *)
(* writer and no failure shows at once, and otherwise the first sync that  *)
(* begins when all outdated transactions are over repairs Redis ("it syncs *)
(* every 30 seconds and immediately on admin changes", README.md;          *)
(* sync.go:21-57, service.go:120-126).                                     *)
(***************************************************************************)
StaleForACause ==
  \A v \in Vins : \/ key[v] = assigned[v]
                  \/ v \in doubtful
                  \/ \E w \in Workers : plan[w][v] = assigned[v]

\* The inductive invariant (sync.go, service.go:114-128).
IInv ==
  /\ TypeOK
  /\ IndexListsKeys
  /\ IdleOwesNothing
  /\ DoubtOfOvertaken
  /\ StaleForACause

(***************************************************************************)
(* Once the table stays as it is, Redis comes to say the same, whatever    *)
(* syncs of several pods, admin requests, timeouts and late transactions   *)
(* have interleaved ("periodic sync will retry", service.go:125).          *)
(***************************************************************************)
Converges == <>[](key = assigned)
=============================================================================
