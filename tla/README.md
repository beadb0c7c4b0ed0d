# Fleet telemetry: specifications, model checking and proofs

This directory holds TLA+ models of the services in `services/`, the TLC
configurations that check them on small instances, and theorems about them with
proofs for TLAPS. Every definition follows the Go code; line numbers below and in
`PROJECT.json` are those of the sources.

    tlc -config MCProcessorFaults.cfg MCTelemetryProcessor.tla    # one run
    tlapm TelemetryProcessorProofs.tla                            # the proofs

## The system

    vehicle --MQTT--> IoT Core --> iot-kafka-bridge --> raw-telemetry
                                                            |
             rbac-authz --fleet of a VIN--> Redis --> telemetry-processor --> DLQ
                 |                                          |
                 |                                   canonical-events
              scopes                                  |            |
                 |                              (push group)  (persist group)
                 v                                    |            |
    browser <--SSE-- dashboard-api <--gRPC--  realtime-router  --> OpenSearch
                 |                                                 |
                 +------------------- latest positions ------------+

| component | state | operations | what makes it hard |
|---|---|---|---|
| vehicle-simulator (`cmd/vehicle-simulator`) | one MQTT connection per vehicle | report, repeat a report, reconnect | publications without a PUBACK when the connection breaks |
| iot-kafka-bridge (`cmd/iot-kafka-bridge`) | none; Lambda keeps the invocations | one produce per message | a lost acknowledgement fails the invocation, which is then retried and in the end dead-lettered |
| telemetry-processor (`internal/processor`) | the batch; dedup keys in Redis; group offsets | poll, validate, look up, produce, mark, commit | every call may fail half way; pods crash, are expelled and rebalanced |
| realtime-router, persister (`internal/router/persist.go`) | the batch; documents; group offsets | poll, bulk, commit | partial answers, late requests, commits that fail and are passed over |
| realtime-router, push (`push.go`, `hub.go`, `server.go`) | subscribers, their interest and buffers | subscribe, set interest, dispatch | bounded buffers, streams that break |
| dashboard-api (`internal/dashboard`) | SSE clients and their scopes, the interest, one stream per router | register, unregister, refresh, recompute, watch, send | goroutines that share the broker and the bus; values used after the lock is released |
| rbac-authz (`internal/authz`) | users, grants, vehicles in PostgreSQL; the VIN-to-fleet map in Redis | seed, login, grant, scope, upsert, periodic sync | two writers of one projection; scopes read in several queries; roles inside tokens |
| web (`web/src`) | the latest position per VIN, a buffer of events | fetch the snapshot, receive, flush, merge | the two requests answer in any order, either may fail; ties |
| platform, model | none | retry, validation, keys | a retry without end; the clock in `Validate` |

What each must guarantee:

- **processor**: a committed record is published or dead-lettered; a dedup key
  exists only for a published event; duplicates are bounded by the failures;
  events of one vehicle keep their order, and its stamps that of the writes in Redis;
  every record is handled in the end.
- **persister**: a committed record has been answered for by OpenSearch;
  documents do not go back to older copies; every record is handled in the end.
- **dashboard interest**: a change of the interest reaches every router; scopes
  follow the grants; a pod without users asks for nothing.
- **push path**: a browser never receives an event its scope does not allow; what
  it misses was dropped for a cause that the code names; without rebalances events
  come once and in order.
- **authorization**: a scope lies between what was granted throughout a request and
  what was granted at some time of it; a former admin's authority ends with its token
  and the request it was last checked for; what a pod has seeded stays until an
  operator changes it, and every pod gets through its seed.
- **journey**: a report made while connected is lost only by MQTT, by a failed delivery
  of the IoT rule, or for want of a dead-letter queue; a page shows the newest of what it
  got, nothing that its user had no right to but vehicles that have left a granted
  fleet, and all that it was given.
- **fleet projection**: Redis converges to PostgreSQL, and differs from it meanwhile
  only for a cause.

## Modules

| module | role |
|---|---|
| `ConsumerGroup` | external: a Kafka consumer group as franz-go offers it with `DisableAutoCommit` and `BlockRebalanceOnPoll`. Extended by both consumers. |
| `AtLeastOnce` | abstract specification of such a consumer: offsets are committed only over settled records and never rewind |
| `TelemetryProcessor` | `Run` and `processBatch`, extends `ConsumerGroup` |
| `TelemetryProcessorProofs` | its theorems about loss and commits |
| `ProcessorHistoryProofs` | its theorems about copies, order and stamps |
| `Persister` | `Persister.Run`, `buildBulk`, `bulk`, extends `ConsumerGroup` |
| `PersisterProofs` | its theorems |
| `DashboardInterest` | broker, interest bus, router streams, scope refresh |
| `DashboardInterestProofs` | its theorems |
| `LiveFeed` | abstract specification of the live view: an authorised selection of the published events, in order |
| `PushPath` | `RunPush`, `Hub.Dispatch`, `Subscribe`, `Broker.Dispatch`, the SSE stream |
| `PushPathProofs` | its theorems |
| `FleetProjection` | `SyncOnce`, `SetOne`, `upsertVehicle` on several rbac-authz pods |
| `FleetProjectionProofs` | its theorems |
| `Authorization` | users, grants and sessions: `Seed`, `GetUserScope`, `CheckAccess`, `login`, `/admin/grants`, changes by operators |
| `AuthorizationProofs` | its theorems |
| `Ingest` | the simulator's vehicles, MQTT and the IoT rule (external), the bridge Lambda with its retries |
| `VehicleView` | one user's page: `API.stream`, `API.latest`, `useTelemetryStream` |
| `Journey` | `Ingest` and `VehicleView`, joined by the processor |
| `JourneyProofs` | its theorems |
| `MCTelemetryProcessor`, `MCPersister`, `MCDashboardInterest`, `MCPushPath`, `MCFleetProjection`, `MCAuthorization`, `MCJourney` | instances for TLC |

**ConsumerGroup.** The coordinator's state (`members`, `owner`, `committed`) and
each consumer's belief (`held`, `done`, `polled`, `busy`) are kept apart, so that a
consumer that was expelled goes on with its batch until it finds out. `busy` is the
time between `PollRecords` and `AllowRebalance`: a busy member's partitions are
not revoked and an expelled busy consumer does not rejoin, which is what
`BlockRebalanceOnPoll` means. `Expel` is the session or rebalance timeout.

**TelemetryProcessor.** One action per call of `processBatch`: `Validate` (lines
94-128), `Lookup` (131-164), `AppendEvent`, `AppendDeadLetter` and `Produced` for
`ProduceSync` (181-185), which may fail having appended any part of it, `Mark`
(187-197), `Commit` (199 and 84). A failure ends the attempt (`AttemptReturns`) and
`Retry` starts the next one with the same records. A raw record is an event, which
stands for one (VIN, deviceTimestamp) and so for one dedup key, or `Invalid`. Events
in `EarlyEvents` fail validation until the clock is within five minutes of them.
`fleet[v]` is the sequence of values that the vehicle's key in Redis has held. A lookup reads
the last one (`Present`), and a stamp is that value with the index of its write, so that
older and newer stamps can be told apart although values repeat: `Reassign` writes or
deletes any value, for `SyncOnce` may bring an older mapping back over a newer `SetOne`
(sync.go:21-57; how it comes to that is `FleetProjection`'s subject). Pipelines in Redis
are one step, except that the SETs may fail half way.

**Persister.** A bulk request is a set of items that OpenSearch executes one by
one, those of one document in order. `BulkTimesOut` and a crash leave the request to
OpenSearch (`orphans`). `CommitFails` goes on to `AllowRebalance` (99-103).

**DashboardInterest.** One goroutine per SSE request, the refresher, and one per
router stream. `recompute` is `Compute` (under the lock) and `Publish` (after it).
`sendInterest` is `Current` and `SendInterest`, because the bus may change while
`Send` waits for room in the stream; `signal[r]` is the watch channel of capacity 1. A
scope is a set of tags, fleets and VINs alike, `All` being the flag. `UpdateScope`
stores the scope in all connections of the user in one step: a recompute that reads
some of them before and some after it is followed by `UpdateScope`'s own recompute,
which is modelled. A stream that breaks takes its subscriber on the router with it.

**PushPath.** A record passes `batch[r]` (polled by `RunPush`), `out[r]`
(`Subscriber.Out`), `wire[r]` (gRPC), `queue[k]` (`Client.Out`) and `shown[k]`. The push
group commits by itself (`AutoCommit`: what a finished batch has marked) and has no
barrier, so a partition moves (`Moved`) while its old owner dispatches the rest of
its batch. A group without a committed offset resumes at the end. Interests and
scopes may become anything at any time, which covers every way in which
`DashboardInterest` lets one follow the other. `due[k]` and `dropped[k]` are auxiliary:
an event is due to a client that may see it if every router has been asked for
it, and stops being due when one of the code's own causes of loss hits it. A
subscriber whose stream has broken sends to nobody and is left out.

**FleetProjection.** `plan[w]` is what a goroutine is going to write to each key: the
whole table for `SyncOnce` (`ReadVehicles`, `ReadIndex`, `Write`), one assignment for
`SetOne`. A Redis transaction is atomic. `TimeOut` leaves a copy of it in `late[w]`, which
Redis may execute at any later time, while the client gives up or sends it again.
`doubtful` is auxiliary: the vehicles whose row was changed without `SetOne`, or which a
writer with an older assignment or a writer that gave up may have spoilt, as long
as no admin change or sync has begun without such a writer.

**Authorization.** `Scope` is one action per SQL statement (`ReadRole`, `ReadFleets`,
`ReadVins`), any of which may fail; every statement of `Seed` is a step too, so that two
pods that start seed at once. The services never revoke or delete: operators do, in
SQL, which is `OperatorSetsRole` (with the cascade of the schema) and `Revoke`. A sign-in
is two steps, `Authenticate`, which reads the row with the role before it compares the password,
and `Login`, which issues a token with that role and an expiry from then on; a grant is two
as well, `Admit`, where the middleware checks the token, and `Grant`, the insert
after the body has been read. Rows and the clock `now` may change in between, and either may
fail there. `lasting`, `seen` and `ruled` are auxiliary and remember, for each call, the grants
and roles its user had throughout and at some time of it; `lastAdmin` when a user was last
an admin; `touched` the users that operators have changed since a pod's seed began.

**Ingest.** A copy of a report is in `mqtt` until its PUBACK, in `jobs` while Lambda has an
invocation for it, then in the raw topic or in the dead-letter queue. `Accept` may lose the
PUBACK, `ConnectionLost` loses what a clean session forgets (`excused`), `ProduceFails`
may have appended the record all the same. `RuleFails` is a message that IoT Core has taken and
whose delivery to Lambda fails (iot.tf:67-75 logs it): the copy is in `undelivered` and nowhere
else. `HasDLQ` says whether Lambda has a dead-letter queue, as on AWS; on Floci, where lambda.tf
creates none, the last attempt's copy is in `discarded`.

**VehicleView.** The stream goes `down`, `asked` (the scope has been read), `live` (registered),
and the snapshot `wanted`, `asked`, `answered`, `done`; each step reads state that
others change in between. A canonical event bears the fleet it was stamped with; documents
are by event, the later copy replacing the earlier. The persister and the push path appear
by their promises, in order and without loss. `Search` is the query of `latest`: of the documents
of the last 24 hours (`Recent`; `Age` moves the `horizon`) those that the scope matches by stamp or
VIN, one row per vehicle, and of at most `PageSize` vehicles (5000), the newest first
(`Listed`). Four variables are auxiliary. `owed` is what a live stream was given, and what
matched of the listed vehicles; `missed` is what the user may see of the last day by the vehicles'
present assignment (`MaySee`) without a row as new; `full` says whether some vehicle that
matched was cut off; `left[v]` has the fleets that `v` was in before.
`Merge` is `merge`'s loop as a recursive
function, so that what it computes can be proved; the snapshot has one row per vehicle
and needs only the loop's body, `Newer`.

**Journey.** `Process` is the processor as `TelemetryProcessor` shows it: in order, again only
after trouble, stamped at publication. Its two parts otherwise run side by side.

## Runs

| run | instance | checks |
|---|---|---|
| `processor_faults` | 1 partition, 2 pods, 2 events of one vehicle, 2 records, 1 fault, 1 expulsion, 2 changes of its fleet in Redis, back and forth | `TypeOK`, `IInv`, `NeverLost`, `DedupAfterPublish`, `DuplicatesNeedFaults`, `FirstCopiesInOrder`, `StampsInOrder`, `HistoryInv` |
| `processor_group` | 2 partitions, 2 pods, 1 record each, one of them possibly early, 1 fault, 1 expulsion, fairness | `EveryRecordCommitted`, `ImplementsAtLeastOnce` |
| `processor_expelled` | 1 pod, 1 expulsion, fairness | violates `EveryRecordHandled` |
| `persister` | 1 partition, 2 pods, 2 records of 2 events, one of them refused by the index, 1 fault, 1 late request, 2 expulsions, fairness | `TypeOK`, `IInv`, `NeverLost`, `DocumentsAreCurrent`, `CurrentInv`, `EveryRecordAnswered`, `ImplementsAtLeastOnce` |
| `interest` | 2 browsers of 1 user, 1 router, 1 grant, 1 break or failed lookup, fairness | `IInv`, `NoLostWakeup`, `ScopesReachClients`, `InterestReachesRouters` |
| `interest_drains` | 2 browsers, no failure, fairness | violates `InterestDrains` |
| `push_feed` | 2 routers, 1 browser, 2 records, buffers of 1, a stream window of 2, 1 move or stop, ageing, fairness | `TypeOK`, `IInv`, `NothingVanishes`, `ImplementsLiveFeed`, `EveryDueEventShown` |
| `push_superseded` | 1 router, 2 records, fairness | violates `DroppedAreSuperseded` |
| `projection` | 2 pods, 2 requests, 2 vehicles, 2 fleets, 2 changes, 2 faults, fairness | `IInv`, `StaleForACause`, `Converges` |
| `authorization` | 2 pods, an admin and a viewer from the seed, 1 fleet, 1 vehicle, 1 call at a time, 1 sign-in, 1 request to `/admin/grants`, 1 change by an operator, 1 fault, a token of 1 tick, 2 ticks, fairness | `IInv`, `ScopeIsBracketed`, `StaleAuthorityEnds`, `SeedStays`, `PodsServe` |
| `journey` | 2 vehicles, 2 reports in all, 2 fleets, a snapshot of 1 row, 2 attempts per invocation; 2 failures, moves, grants or days in all with one vehicle, 1 with both | `TypeOK`, `NoReportVanishes`, `ShownIsNewest`, `ShownWasGranted`, `NothingUnseen`, `PageInv` |
| `stream_recovers` | 1 report, 1 break, fairness | violates `StreamRecovers` |

Why the bounds are enough. Two raw records of one vehicle are an event and its copy,
two events in order, or one of them invalid, in one batch or two, and the early event is in
`processor_group` (in both, the theorems cover any number of them); two writes to Redis take a
key away from a value and back to it; two pods
are the expelled one and its successor; one fault puts every call's failure, a
crash or an expired key at every point, and with the expulsion two independent
failures meet. The persister's two expulsions reach both of its pods.
Orders between two partitions matter only to rebalancing, and `processor_group`
has two of them; the persister has the same group, and its safety is proved for
any number. One event more or one fault more repeats these situations. In
`DashboardInterest` two clients and the refresher are three concurrent
recomputes, and routers do not interact with each other, so one is enough.
A grant changes between nothing and everything, which moves the union in both
directions; `interest_drains` has two users with different scopes.
`MaxInFlight` stands for gRPC's flow control window and makes `Send` wait. In `PushPath`
buffers of one are full as soon as anything waits, and two in the stream can be
taken out of order; breaks, connections, scopes and interests are not bounded at
all. Browsers do not interact, so one is enough. In `FleetProjection` vehicles meet only
in a transaction and in the index, for which two are enough, and two syncers, two
requests and two late transactions overlap in every way. In `Authorization` users
meet only in the seed, and one fleet and one vehicle are the two statements whose
answers can disagree; two ticks outlast a token, or separate the read of a role from its
token and the check from the insert. In `Journey` vehicles meet in the page's scope and in
the snapshot's size, so there are two, and a page of one row cuts one of them off; two
reports of one vehicle are in and out of order, with copies, and the CONSTRAINT `FewAtATime` allows
two failures or changes in all (of vehicle, rule, bridge, page, fleet, grants, and the
days that pass), or one if both vehicles are active. Two attempts are a retry and a dead
letter; Lambda's default, which lambda.tf leaves as it is, is three. `HasDLQ` is `TRUE` in
`journey`, the deployment on AWS; the theorem `NoReportIsLost` is about both.

`CHECK_DEADLOCK FALSE` in every cfg: with the bounds used up and all records
committed the modelled system rests, as the real one does when no vehicle sends.

### Fairness

Weak fairness for each consumer's loop and for the group's own steps (`GroupStep`):
the loops have no blocking step other than their calls, and every call has a
timeout or fails. Nothing is assumed of vehicles, admins, browsers or failures, but
failures are finitely many by their bounds, as retries need. In
`DashboardInterest` each goroutine is fair, and gRPC delivers what it accepted or
breaks the stream. Clients need not come, stay or leave. In `PushPath` the consumers,
the streams and the SSE writers are fair: none has a step that waits for anything but
room, which the next one makes or whose lack drops the event; a browser that does
not read any more is a `Disconnect`. In `FleetProjection` only the syncers are fair, for
their tickers fire; requests and late transactions may take for ever. In `Authorization`
a pod that starts goes on with its seed, as nothing but its statements holds it up, and is
restarted when it exits. In `Journey` an EventSource asks for a stream and the handler
registers it.

### What the violations show

1. `processor_expelled`: README.md:75 promises "At least once, never lost". A pod
   that is expelled while it handles a batch, because Kafka was unreachable for the
   session timeout or because another pod's join waited for the rebalance timeout
   during a Redis outage, gets an error from `CommitRecords` (processor.go:199).
   `Retry` repeats the batch without end, `AllowRebalance` is never called and the
   client cannot rejoin before it. With a second pod (`processor_group`) the
   partitions move there and every record is committed; without one, nothing is
   handled any more. `/healthz` does not notice. The persister logs the failed
   commit and goes on: `persister` passes although every pod is expelled.
2. `interest_drains`: README.md:61-62 says that a pod with no connected user for a
   fleet receives none of its traffic. `recompute` publishes after it has released
   the lock (broker.go:152-156), so an outdated union can be published last. While
   somebody is connected the next refresh repairs that (`interest`); after
   the last client has left nothing does until the next one connects.
3. `stream_recovers`: "EventSource retries on its own" (useTelemetryStream.ts:35) and
   "the browser's EventSource reconnects automatically" (api.go:64). When the
   lookup of the scope fails, `stream` answers 502 (api.go:71-75), and after any status
   other than 200 an EventSource is closed for good. Pages that reconnect while authz
   is unavailable, as all do when a dashboard pod has closed their streams, have no
   live events until they are loaded again.
4. `push_superseded`: README.md:80-82 has the live path drop updates for slow browsers
   "rather than queueing them, since a newer position supersedes an older one", and
   hub.go:110 says the same. Both buffers keep what they hold and drop the newest
   event. If the vehicle then stops sending, the browser stays with an older
   position; only its next snapshot corrects that.

Three more differences have no run of their own; the properties that meet them name them as
exceptions.

- persist.go:24-25 says that offsets are committed only after a successful bulk request, but
  a status of 300 to 499 other than 429 drops the whole batch and commits it
  (persist.go:146-150). The model keeps such records in `dropped`, and `NeverLost` admits them
  by that name.
- schema.sql:25 says that a user with a fleet grant "sees every vehicle currently assigned to the
  fleet", and api.go:116 that the snapshot has "every vehicle the user may see (last 24h)". Documents
  and live events bear the fleet of their publication, and scopes are matched with that
  (api.go:127-137, broker.go:94-107). A vehicle that has moved is missing from its new fleet's snapshot,
  and shown to its old fleet's users, until its next report. `ShownWasGranted` and
  `NothingUnseen` are stated by present assignment, and their one exception for assignment is a stamp
  in `left[v]`.
- api.go:116 again: beyond 5000 vehicles (api.go:140) the snapshot leaves some out. That is `full` in
  `NothingUnseen`.

## Proofs

All for arbitrary constants: any number of pods, partitions, events, vehicles,
clients and routers, and any bounds. The assumptions are the named ASSUMEs on the
constants and nothing else.

- `TelemetryProcessorProofs!TypeCorrect`, `Inductive`, `NothingIsLost`,
  `KeysFollowEvents`, `Implements`. `NeverLost` is not inductive: a commit is safe
  because of what the attempt has done before it. `IInv` adds that every record of
  the batch is accounted for or still in hand in each phase (`BatchOK`), that
  events about to be marked are published (`ItemsOK`), that what a pod has finished
  is accounted for even if it was expelled (`FinishedOK`), and that a member's
  committed offset lies within its batch (`OwnershipOK`, `OffsetsOK`), which is where
  `BlockRebalanceOnPoll` enters. The proof has a step per action; steps that leave the
  group alone are treated together (`StepKinds`, `Frame`). `Implements` shows that
  every step is a step of `AtLeastOnce` or a stutter.
- `ProcessorHistoryProofs!HistoryInductive`, `FirstCopiesAreOrdered`, `StampsAreOrdered`,
  `DuplicatesArePaidFor`. `HistoryInv` describes where the copies of the canonical topic
  come from (`SourcesOK`, `RejectsOK`). With it, `IInv` gives the order of first copies: when
  an attempt appends an event, every earlier record of the vehicle is accounted for or
  in its hand, and it sends those first. Every stamp is a value that Redis has held, and stamps
  follow the order of the writes as long as nobody has been expelled, because then only a
  partition's owner has anything to publish there, which it read no earlier than what is
  published (`StampsOK`). Nothing is assumed of what is written: Redis may go back to an older
  assignment, and then the stamps go back with it. Copies are counted by
  a potential (`CopiesOK`): those in the topic and the consumers that may still append
  one (`Publishers`) are together at most `(1 + faults) * (1 + expulsions)`. The
  publishers of an event are its partition's owner and the expelled consumers that do not know
  it yet, of which there are at most `expulsions` (`ZombiesOK`); a copy appended turns
  a publisher into a copy, and a failure, which may make all of them publish
  again, raises the bound by as many.
- `PersisterProofs!TypeCorrect`, `Inductive`, `NothingIsLost`, `Implements`,
  `CurrentInductive`, `DocumentsStayCurrent`. The argument is
  the processor's, with two differences. A request is handled item by item and a throttled
  item sends the whole body again, so `BatchOK` speaks of the items still to come; and a
  commit that fails is passed over, so a member's committed offset may lag behind
  what it has finished by any number of batches, never run ahead (`OwnershipOK`), and all
  of the lag must be accounted for (`FinishedOK`). Late requests only add documents,
  which `AccountedGrows` states. That documents stay current needs `CurrentInv`: a request that is
  under way holds, with a record, all later ones of its batch for the same document
  (`RequestsOK`), so that the last of them is written last; a batch that starts over does so
  behind the committed offset (`CommitsBehind`); and until a consumer is expelled or a
  request outlives its client (`Quiet`) nobody but the owner writes (`OwnersAreCurrent`).
- `AuthorizationProofs!Inductive`, `ScopesAreBracketed`, `AuthorityEnds`, `SeedsStay`.
  `ReadOK` says, for each statement a call has behind it, what its partial answer
  contains; `SessionsOK` and `PastOnly` follow a role from the row that a sign-in read to the
  token and to the request that was admitted with it, which bounds stale authority by
  TOKEN_TTL and the two gaps, from the read to the token and from the check to the insert.
  `SeedStays` needs that the plan gives no user two roles, that upserts keep grants, and that
  nothing but an operator takes rows away.
- `DashboardInterestProofs!Inductive`, `NoWakeupIsLost`. `IInv` adds to
  `NoLostWakeup` that a stream that has read the bus and not yet sent holds the
  current interest or has a signal (`CurrentIsFresh`), and that the refresher holds
  an answer when it stores one (`Answered`).
- `FleetProjectionProofs!Inductive`, `StaleOnlyForACause`. `StaleForACause` needs that
  Redis's index is exact (`IndexListsKeys`, or `SyncOnce` would skip a removal), that
  idle goroutines owe nothing (`IdleOwesNothing`), and that no writer carries an outdated
  assignment of a vehicle that is not doubtful (`DoubtOfOvertaken`).

- `PushPathProofs!TypeCorrect`, `Inductive`, `NothingIsLost`, `Implements`. `NothingVanishes`
  survives a move only because a partition is resumed before everything that has
  not passed a hub: `IInv` has offsets in the order committed, marked, polled,
  published (`OffsetsOK`), batches sorted even after their partition has left
  (`BatchOK`), and what is due and still ahead of the hub ahead of what is marked
  (`Covered`). Every cause of loss takes its events out of `due`, and the proof shows
  that there is no other. For the refinement, what is held has been published (`HeldOK`)
  and, until the first move, a router's three queues are one line behind what
  the browsers have (`OrderOK`, `InLine`). `Dispatch` is then a `Pick`; all other steps
  of the queues leave the feed `shown \o queue` as it is.
- `JourneyProofs!Inductive`, `NoReportIsLost`. Each step takes a report from one carrier to
  the next, or excuses it: `mqtt`, `jobs`, `raw`, then the canonical topic or the dead-letter
  queue, with `undelivered` for a rule that fails and, without that queue, `discarded`. The
  page, whose steps the proof also goes through, touches none of them.
- `JourneyProofs!PageInductive`, `TypeCorrect`, `TheNewestIsShown`, `ShownIsAllowed`,
  `OwedIsSeen`. `PageInv` adds to the three properties of the page that its rows are events
  of their vehicles (`RowsOK`), that all that is on its way was allowed by a scope the
  user has had (`ScopesOK`), which covers a scope that is used after it has been
  revoked, and that it bears its vehicle's fleet or one that the vehicle has left
  (`StampsKnown`), which is what joins the stamp with the present assignment. `SearchRow` says
  which vehicles the search lists, for any page size, and that a row is its vehicle's newest
  match. What `Merge` makes of a batch is shown for batches of any length (`MergeOK`): its
  values after 0, 1, 2, ... events exist (`TraceExists`), and if one of them were wrong
  there would be a first one (`Least`, from the well-foundedness of the naturals), which the
  loop's body contradicts (`PutOK`). `ViewAssumption` says that `None` is not an event.

Every invariant and action property of the passing runs is thus a theorem, and so are the
refinements. Only model-checked are the liveness properties (`EveryRecordCommitted`,
`EveryRecordAnswered`, `ScopesReachClients`, `InterestReachesRouters`, `EveryDueEventShown`,
`Converges`, `PodsServe`): liveness under fairness needs `ENABLED`, which is out of the proof
system's reach. The four violations are counterexamples of TLC.

## Not modelled

- `RouterPool.reconcile` (routerpool.go:55-88), which starts and stops streams as DNS names
  come and go: it differs from a stream that breaks only with two routers or more,
  for which `DashboardInterest` takes TLC far too long.
- Payloads that the bridge or the consumers cannot decode, apart from the processor's
  `Invalid` and the persister's `Unparseable`: at the bridge they take the path of any other
  failure, to the dead-letter queue.
- The ranges in `Validate`, which are comparisons of floats without state, and the spelling of
  keys and documents.
- A clash of usernames (`UNIQUE` in schema.sql:18): an operator who gives another user's row a name
  of the seed's makes every later seed fail. Users are their ids here.
- How long a sign-in or a grant may take between check and use. The server's ReadTimeout of ten
  seconds (cmd/rbac-authz/main.go:78) bounds the body, nothing bounds the insert but the
  request's context; `StaleAuthorityEnds` counts that time instead of bounding it.
- `Broker.Dispatch` is one step. It loads a client's scope and then adds to its queue
  (broker.go:98-102) under a lock that `UpdateScope` shares, so that an event may be added just
  after a new scope is stored. `ImplementsLiveFeed`'s "after a change of scope nothing is
  added that the new one does not allow" counts the addition at the load.
- Migrations, index templates and topic creation, all of which end before the modelled
  processes begin; start and stop of the processes other than as a crash or restart.
- Wall-clock durations (timeouts are steps that may happen), metrics, logging,
  configuration, TLS, passwords and cookies, `/api/me`, the sign-in page, the
  simulator's movement, rendering and filters in the browser, Terraform and the
  deployment scripts. Kafka's replication is taken as given: an acknowledged record
  stays.

## Plan

Everything planned is there, except for what the section above leaves out for
cause. What could follow:

1. `DashboardInterest` with two routers and `reconcile`, once its state is reduced enough.
