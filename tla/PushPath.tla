------------------------------ MODULE PushPath ------------------------------
(***************************************************************************)
(* The live path from the canonical topic to the browser: RunPush, Hub and *)
(* Subscribe in internal/router, the router streams, Broker.Dispatch and   *)
(* the SSE stream in internal/dashboard, for one dashboard-api pod.        *)
(*                                                                         *)
(*   topic --poll--> batch --Hub.Dispatch--> out --gRPC--> wire            *)
(*         --Broker.Dispatch--> queue --SSE--> shown                       *)
(*                                                                         *)
(* The routers are one consumer group that commits what it has dispatched  *)
(* from time to time and by itself; partitions move while batches are at   *)
(* work.  Every buffer is bounded and what does not fit is dropped.        *)
(*                                                                         *)
(* A record is <<partition, offset>>.  An event bears a vehicle tag, a     *)
(* fleet tag and All; an interest or a scope is a set of tags.  How the    *)
(* interest follows the scopes is DashboardInterest's subject: here it may *)
(* become anything.  When a stream breaks, its subscriber at the router    *)
(* has nobody left to send to and is left out.                             *)
(***************************************************************************)
EXTENDS Naturals, Sequences

CONSTANTS
  Partitions, Routers, Clients,
  Events, Tags,
  TagsOf,      \* TagsOf[e]: All, the VIN and the fleet of e
  VinOf,       \* VinOf[e]: the vehicle
  PartitionOf, \* PartitionOf[v]: hash of the record key, the VIN
  Scopes,      \* what authz may grant
  Interests,   \* what the pod may ask for
  Buffer,      \* SUBSCRIBER_BUFFER
  Window,      \* events that gRPC's flow control lets be in a stream
  Queue,       \* the 512 of NewClient
  MaxRecords,  \* bound: records per partition
  MaxMoves,    \* bound: partitions moved, routers stopped
  Ageing       \* whether records may get older than PUSH_MAX_AGE

ASSUME PushAssumption ==
  /\ VinOf \in [Events -> Tags]
  /\ TagsOf \in [Events -> SUBSET Tags]
  /\ PartitionOf \in [Tags -> Partitions]
  /\ Scopes \subseteq SUBSET Tags /\ Interests \subseteq SUBSET Tags
  /\ Buffer \in Nat \ {0} /\ Window \in Nat \ {0} /\ Queue \in Nat \ {0}
  /\ MaxRecords \in Nat /\ MaxMoves \in Nat
  /\ Ageing \in BOOLEAN

VARIABLES
  topic,     \* topic[p]: the canonical topic
  aged,      \* aged[p]: the records up to this offset are too old
  owner,     \* owner[p]: the router that p is assigned to
  next,      \* next[p]: the owner has polled the records up to this offset
  marked,    \* marked[p]: what the owner's autocommit will commit; 0 is nothing
  committed, \* committed[p]: the group's offset; 0 is none
  batch,     \* batch[r]: the polled records that r has yet to dispatch
  up,        \* the routers that the pod has a stream to
  interest,  \* interest[r]: the interest of the pod's subscriber at r
  out,       \* out[r]: Subscriber.Out
  wire,      \* wire[r]: events sent by r, not received by the pod
  clients,   \* the broker's clients
  scope,     \* scope[k]
  queue,     \* queue[k]: Client.Out
  shown,     \* shown[k]: written to the SSE response
  due,       \* auxiliary: due[k], records k must get, no cause of loss having occurred
  dropped,   \* auxiliary: dropped[k], records k lost to a full buffer
  moves      \* partitions moved and routers stopped so far

groupVars == <<owner, next, marked, committed>>
streamVars == <<up, interest, out, wire>>
clientVars == <<clients, scope, queue, shown>>
vars == <<topic, aged, groupVars, batch, streamVars, clientVars, due, dropped, moves>>

Elements(s) == {s[i] : i \in DOMAIN s}

EventAt(x) == topic[x[1]][x[2]]

\* Interest.Matches and Scope.Allows.
Matches(tags, x) == tags \cap TagsOf[EventAt(x)] # {}

Init ==
  /\ topic = [p \in Partitions |-> << >>]
  /\ aged = [p \in Partitions |-> 0]
  /\ owner \in [Partitions -> Routers]
  /\ next = [p \in Partitions |-> 0]
  /\ marked = [p \in Partitions |-> 0]
  /\ committed = [p \in Partitions |-> 0]
  /\ batch = [r \in Routers |-> << >>]
  /\ up = {}
  /\ interest = [r \in Routers |-> {}]
  /\ out = [r \in Routers |-> << >>]
  /\ wire = [r \in Routers |-> << >>]
  /\ clients = {}
  /\ scope = [k \in Clients |-> {}]
  /\ queue = [k \in Clients |-> << >>]
  /\ shown = [k \in Clients |-> << >>]
  /\ due = [k \in Clients |-> {}]
  /\ dropped = [k \in Clients |-> {}]
  /\ moves = 0

\* The records that have got to k, or past the hub in one of the streams.
Got(k) == Elements(shown[k]) \cup Elements(queue[k])
PastHub(k, streams) ==
  Got(k) \cup UNION {Elements(out[r]) \cup Elements(wire[r]) : r \in streams}

\* The records in lost are owed to nobody any more.
Lose(lost) == due' = [k \in Clients |-> due[k] \ lost]

-----------------------------------------------------------------------------
(* Environment *)

\* telemetry-processor publishes e.  It is due to the clients that may see it, if
\* the pod has asked every router for it.
Publish(e) ==
  LET p == PartitionOf[VinOf[e]]
      x == <<p, Len(topic[p]) + 1>>
      asked == \A r \in Routers : interest[r] \cap TagsOf[e] # {}
  IN  /\ Len(topic[p]) < MaxRecords
      /\ topic' = [topic EXCEPT ![p] = Append(@, e)]
      /\ due' = [k \in Clients |->
                   IF asked /\ scope[k] \cap TagsOf[e] # {} THEN due[k] \cup {x} ELSE due[k]]
      /\ UNCHANGED <<aged, groupVars, batch, streamVars, clientVars, dropped, moves>>

\* PUSH_MAX_AGE passes.
Age(p) ==
  /\ Ageing
  /\ aged[p] < Len(topic[p])
  /\ aged' = [aged EXCEPT ![p] = @ + 1]
  /\ UNCHANGED <<topic, groupVars, batch, streamVars, clientVars, due, dropped, moves>>

\* The consumer group: autocommit, resumption, rebalances without a barrier.
AutoCommit(p) ==
  /\ marked[p] # committed[p]
  /\ committed' = [committed EXCEPT ![p] = marked[p]]
  /\ UNCHANGED <<topic, aged, owner, next, marked, batch, streamVars, clientVars, due, dropped, moves>>

\* Mutants of Resume: a new owner starts with the last record, or always at the end.
AtLastRecord(p) == IF committed[p] = 0 THEN Len(topic[p]) - 1 ELSE committed[p]

AtEnd(p) == Len(topic[p])

\* A new owner starts at the committed offset, or at the end if there is none.
Resume(p) == IF committed[p] = 0 THEN Len(topic[p]) ELSE committed[p]

Moved(p, r) ==
  /\ moves < MaxMoves /\ moves' = moves + 1
  /\ owner[p] # r
  /\ owner' = [owner EXCEPT ![p] = r]
  /\ next' = [next EXCEPT ![p] = Resume(p)]
  /\ marked' = [marked EXCEPT ![p] = committed[p]]
  /\ due' = [k \in Clients |->
               {x \in due[k] : committed[p] = 0 /\ x[1] = p => x \in PastHub(k, Routers)}]
  /\ UNCHANGED <<topic, aged, committed, batch, streamVars, clientVars, dropped>>

\* The stream to r ends, and with it what has not reached the pod; events that
\* are not past the hub may pass before there is another one.
StreamEnds(r) ==
  /\ up' = up \ {r}
  /\ interest' = [interest EXCEPT ![r] = {}]
  /\ out' = [out EXCEPT ![r] = << >>]
  /\ wire' = [wire EXCEPT ![r] = << >>]
  /\ due' = [k \in Clients |-> due[k] \cap PastHub(k, Routers \ {r})]

Break(r) ==
  /\ r \in up
  /\ StreamEnds(r)
  /\ UNCHANGED <<topic, aged, groupVars, batch, clientVars, dropped, moves>>

\* The router's process ends; its partitions are consumed from where they are
\* committed, by r's successor or after a move.
RouterStops(r) ==
  /\ moves < MaxMoves /\ moves' = moves + 1
  /\ StreamEnds(r)
  /\ batch' = [batch EXCEPT ![r] = << >>]
  /\ next' = [p \in Partitions |-> IF owner[p] = r THEN Resume(p) ELSE next[p]]
  /\ marked' = [p \in Partitions |-> IF owner[p] = r THEN committed[p] ELSE marked[p]]
  /\ UNCHANGED <<topic, aged, owner, committed, clientVars, dropped>>

-----------------------------------------------------------------------------
(* The router *)

\* PollFetches returns some of the records that follow; those of several partitions
\* are handled one partition after the other.
Poll(r, p) ==
  /\ owner[p] = r /\ batch[r] = << >>
  /\ \E end \in next[p] + 1 .. Len(topic[p]) :
       /\ batch' = [batch EXCEPT ![r] = [i \in 1 .. end - next[p] |-> <<p, next[p] + i>>]]
       /\ next' = [next EXCEPT ![p] = end]
  /\ UNCHANGED <<topic, aged, owner, marked, committed, streamVars, clientVars, due, dropped, moves>>

\* The record at hand is done; after the last one that its owner has polled the
\* next PollFetches marks the batch for autocommit.
Advance(r) ==
  LET x == Head(batch[r])
  IN  /\ batch' = [batch EXCEPT ![r] = Tail(@)]
      /\ marked' = IF owner[x[1]] = r /\ next[x[1]] = x[2]
                   THEN [marked EXCEPT ![x[1]] = x[2]] ELSE marked

TooOld(x) == x[2] <= aged[x[1]]

\* Mutant: a record that is too old ends the loop over the batch.
SkipRest(r) ==
  /\ batch[r] # << >> /\ TooOld(Head(batch[r]))
  /\ batch' = [batch EXCEPT ![r] = << >>]
  /\ Lose({Head(batch[r])})
  /\ UNCHANGED <<topic, aged, groupVars, streamVars, clientVars, dropped, moves>>

Skip(r) ==
  /\ batch[r] # << >> /\ TooOld(Head(batch[r]))
  /\ Advance(r)
  /\ Lose({Head(batch[r])})
  /\ UNCHANGED <<topic, aged, owner, next, committed, streamVars, clientVars, dropped, moves>>

\* Hub.Dispatch for the pod's subscriber.
Route(r) ==
  LET x == Head(batch[r])
  IN  /\ batch[r] # << >> /\ ~ TooOld(x)
      /\ Advance(r)
      /\ \/ /\ ~ Matches(interest[r], x)
            /\ UNCHANGED <<out, due, dropped>>
         \/ /\ Matches(interest[r], x) /\ Len(out[r]) < Buffer
            /\ out' = [out EXCEPT ![r] = Append(@, x)]
            /\ UNCHANGED <<due, dropped>>
         \/ /\ Matches(interest[r], x) /\ Len(out[r]) >= Buffer
            /\ Lose({x})
            /\ dropped' = [k \in Clients |->
                             IF Matches(scope[k], x) THEN dropped[k] \cup {x} ELSE dropped[k]]
            /\ UNCHANGED out
      /\ UNCHANGED <<topic, aged, owner, next, committed, up, interest, wire, clientVars, moves>>

\* Subscribe passes an event on to the stream, when there is room.
SendEvent(r) ==
  /\ out[r] # << >> /\ Len(wire[r]) < Window
  /\ wire' = [wire EXCEPT ![r] = Append(@, Head(out[r]))]
  /\ out' = [out EXCEPT ![r] = Tail(@)]
  /\ UNCHANGED <<topic, aged, groupVars, batch, up, interest, clientVars, due, dropped, moves>>

\* SetInterest: what does not match any more, and is not past the hub, is not due.
SetInterest(r, i) ==
  /\ r \in up
  /\ interest' = [interest EXCEPT ![r] = i]
  /\ due' = [k \in Clients |-> {x \in due[k] : Matches(i, x) \/ x \in PastHub(k, Routers)}]
  /\ UNCHANGED <<topic, aged, groupVars, batch, up, out, wire, clientVars, dropped, moves>>

-----------------------------------------------------------------------------
(* The dashboard-api pod *)

\* A stream is open once the router has its Hello.
Open(r) ==
  /\ r \notin up
  /\ up' = up \cup {r}
  /\ UNCHANGED <<topic, aged, groupVars, batch, interest, out, wire, clientVars, due, dropped, moves>>

\* Mutant: the router's filter is relied upon.
AnyClient(x) == clients

\* The second, authoritative filter.
Recipients(x) == {k \in clients : Matches(scope[k], x)}

\* Mutant: every event is dispatched in a goroutine of its own.
AnyReceived(r) == DOMAIN wire[r]

\* The place of the event that the receiving goroutine handles next.
Received(r) == DOMAIN wire[r] \cap {1}

Full(k) == Len(queue[k]) >= Queue

\* Broker.Dispatch, for an event of the stream to r.
Dispatch(r, i) ==
  LET x == wire[r][i]
      chosen == Recipients(x)
  IN  /\ i \in Received(r)
      /\ wire' = [wire EXCEPT ![r] = SubSeq(@, 1, i - 1) \o SubSeq(@, i + 1, Len(@))]
      /\ queue' = [k \in Clients |->
                     IF k \in chosen /\ ~ Full(k) THEN Append(queue[k], x) ELSE queue[k]]
      /\ due' = [k \in Clients |-> IF k \in chosen /\ Full(k) THEN due[k] \ {x} ELSE due[k]]
      /\ dropped' = [k \in Clients |->
                       IF k \in chosen /\ Full(k) THEN dropped[k] \cup {x} ELSE dropped[k]]
      /\ UNCHANGED <<topic, aged, groupVars, batch, up, interest, out, clients, scope, shown, moves>>

\* An SSE request arrives: a client with the scope that authz grants its user.
Connect(k, s) ==
  /\ k \notin clients
  /\ clients' = clients \cup {k}
  /\ scope' = [scope EXCEPT ![k] = s]
  /\ UNCHANGED <<topic, aged, groupVars, batch, streamVars, queue, shown, due, dropped, moves>>

\* The request ends; what is in its queue is gone.
Disconnect(k) ==
  /\ k \in clients
  /\ clients' = clients \ {k}
  /\ scope' = [scope EXCEPT ![k] = {}]
  /\ queue' = [queue EXCEPT ![k] = << >>]
  /\ shown' = [shown EXCEPT ![k] = << >>]
  /\ due' = [due EXCEPT ![k] = {}]
  /\ dropped' = [dropped EXCEPT ![k] = {}]
  /\ UNCHANGED <<topic, aged, groupVars, batch, streamVars, moves>>

\* UpdateScope: events that the new scope does not allow are due only if queued.
UpdateScope(k, s) ==
  /\ k \in clients
  /\ scope' = [scope EXCEPT ![k] = s]
  /\ due' = [due EXCEPT ![k] = {x \in @ : Matches(s, x) \/ x \in Got(k)}]
  /\ UNCHANGED <<topic, aged, groupVars, batch, streamVars, clients, queue, shown, dropped, moves>>

\* API.stream writes an event to the response; draining the queue repeats it.
Show(k) ==
  /\ queue[k] # << >>
  /\ shown' = [shown EXCEPT ![k] = Append(@, Head(queue[k]))]
  /\ queue' = [queue EXCEPT ![k] = Tail(@)]
  /\ UNCHANGED <<topic, aged, groupVars, batch, streamVars, clients, scope, due, dropped, moves>>

-----------------------------------------------------------------------------
Consume(r) == (\E p \in Partitions : Poll(r, p)) \/ Skip(r) \/ Route(r)

Receive(r) == \E i \in DOMAIN wire[r] : Dispatch(r, i)

Environment ==
  \/ \E e \in Events : Publish(e)
  \/ \E p \in Partitions : Age(p) \/ AutoCommit(p)
  \/ \E p \in Partitions, r \in Routers : Moved(p, r)
  \/ \E r \in Routers : Open(r) \/ Break(r) \/ RouterStops(r)
  \/ \E r \in Routers, i \in Interests : SetInterest(r, i)
  \/ \E k \in Clients, s \in Scopes : Connect(k, s) \/ UpdateScope(k, s)
  \/ \E k \in Clients : Disconnect(k)

Next ==
  \/ Environment
  \/ \E r \in Routers : Consume(r) \/ SendEvent(r) \/ Receive(r)
  \/ \E k \in Clients : Show(k)

Spec == Init /\ [][Next]_vars

\* The consumers, the streams and the SSE writers run.
Fairness ==
  /\ \A r \in Routers : WF_vars(Consume(r)) /\ WF_vars(SendEvent(r)) /\ WF_vars(Receive(r))
  /\ \A k \in Clients : WF_vars(Show(k))

FairSpec == Spec /\ Fairness

-----------------------------------------------------------------------------
(* Properties *)

Records == Partitions \X (Nat \ {0})

TypeOK ==
  /\ topic \in [Partitions -> Seq(Events)]
  /\ aged \in [Partitions -> Nat]
  /\ owner \in [Partitions -> Routers]
  /\ next \in [Partitions -> Nat]
  /\ marked \in [Partitions -> Nat]
  /\ committed \in [Partitions -> Nat]
  /\ batch \in [Routers -> Seq(Records)]
  /\ up \subseteq Routers
  /\ interest \in [Routers -> SUBSET Tags]
  /\ out \in [Routers -> Seq(Records)]
  /\ wire \in [Routers -> Seq(Records)]
  /\ clients \subseteq Clients
  /\ scope \in [Clients -> SUBSET Tags]
  /\ queue \in [Clients -> Seq(Records)]
  /\ shown \in [Clients -> Seq(Records)]
  /\ due \in [Clients -> SUBSET Records]
  /\ dropped \in [Clients -> SUBSET Records]
  /\ moves \in 0 .. MaxMoves

\* x is still to be dispatched by the router that its partition belongs to.
Ahead(x) == x[2] > next[x[1]] \/ x \in Elements(batch[owner[x[1]]])

\* No router will pass over x when it gets to it, nor the pod's filter for k.
Awaited(k, x) ==
  Matches(scope[k], x) /\ Ahead(x) /\ \A r \in Routers : Matches(interest[r], x)

(***************************************************************************)
(* No event vanishes but for a cause that the code has: a full buffer, an  *)
(* age over PUSH_MAX_AGE, a stream that ended, a scope or an interest that *)
(* changed, a consumer that found no committed offset.  A record that none *)
(* of these has hit is with the browser, past the hub, or still ahead of   *)
(* the router, every router having been asked for it - in particular when  *)
(* partitions move between routers with batches at work (push.go:31-54,    *)
(* hub.go:97-116, server.go:55-69, broker.go:94-107).                      *)
(***************************************************************************)
NothingVanishes ==
  \A k \in Clients : \A x \in due[k] :
    \/ x \in Got(k)
    \/ Matches(scope[k], x) /\ x \in PastHub(k, Routers)
    \/ Awaited(k, x)

\* Offsets are committed only behind what the owner has polled.
OffsetsOK ==
  \A p \in Partitions :
    committed[p] <= marked[p] /\ marked[p] <= next[p] /\ next[p] <= Len(topic[p])

\* The records of each partition are in their order, within a sequence and between sets.
Sorted(s) == \A i, j \in DOMAIN s : i < j /\ s[i][1] = s[j][1] => s[i][2] < s[j][2]

Before(A, B) == \A x \in A, y \in B : x[1] = y[1] => x[2] < y[2]

\* A batch is in the order of its partition, also one that its partition has left.
BatchOK == \A r \in Routers : Sorted(batch[r])

\* What a router holds for the pod has been published.
Held(r) == Elements(batch[r]) \cup Elements(out[r]) \cup Elements(wire[r])

HeldOK == \A r \in Routers : \A x \in Held(r) : x[2] <= Len(topic[x[1]])

\* A router's three queues are one line.
InLine(b, o, w) ==
  /\ Sorted(b) /\ Sorted(o) /\ Sorted(w)
  /\ Before(Elements(w), Elements(o))
  /\ Before(Elements(w) \cup Elements(o), Elements(b))

\* Until a partition moves, its records are with its owner, behind those that clients have.
OrderOK ==
  moves = 0 =>
    /\ \A r \in Routers :
         /\ InLine(batch[r], out[r], wire[r])
         /\ \A x \in Held(r) : owner[x[1]] = r /\ x[2] <= next[x[1]]
    /\ \A k \in Clients :
         /\ \A x \in Got(k) : x[2] <= next[x[1]]
         /\ \A r \in Routers : Before(Got(k), Held(r))

\* Only published events are due, and only to clients that are connected.
DueOK ==
  \A k \in Clients :
    /\ k \notin clients => scope[k] = {} /\ due[k] = {}
    /\ \A x \in due[k] : x[2] \in DOMAIN topic[x[1]]

\* NothingVanishes, and what is still ahead of the hub is ahead of what may be committed.
StillComes(k, x) ==
  \/ x \in Got(k)
  \/ Matches(scope[k], x) /\ x \in PastHub(k, Routers)
  \/ Awaited(k, x) /\ x[2] > marked[x[1]]

Covered == \A k \in Clients : \A x \in due[k] : StillComes(k, x)

(***************************************************************************)
(* The inductive invariant behind NothingVanishes and ImplementsLiveFeed:  *)
(* a partition that moves is resumed before everything that has not passed *)
(* a hub, for offsets are marked batch by batch, in order, and by the      *)
(* owner only (push.go:31-54); and no queue on the way reorders.           *)
(***************************************************************************)
IInv ==
  /\ TypeOK
  /\ OffsetsOK
  /\ BatchOK
  /\ DueOK
  /\ Covered
  /\ HeldOK
  /\ OrderOK

(***************************************************************************)
(* What is queued for a browser is a selection of the published events     *)
(* that its scope allowed at that moment, and after a change of scope      *)
(* nothing is added that the new one does not allow; without rebalances    *)
(* each event comes once and in order, although streams break, buffers     *)
(* overflow and two routers feed the pod (broker.go:66-67, 94-107).        *)
(* Dispatch loads the scope and then adds to the queue, while UpdateScope  *)
(* holds the same read lock: the moment is that of the load.               *)
(***************************************************************************)
Feed == [k \in Clients |-> shown[k] \o queue[k]]

Promise == INSTANCE LiveFeed WITH feed <- Feed, disturbed <- (moves > 0)

ImplementsLiveFeed == Promise!Spec

\* Whatever is due is shown in the end, unless one of the causes intervenes
\* (push.go:31-54, server.go:55-69, api.go:99-113).
EveryDueEventShown ==
  \A k \in Clients, p \in Partitions, o \in 1 .. MaxRecords :
    (<<p, o>> \in due[k]) ~> (<<p, o>> \in Elements(shown[k]) \/ <<p, o>> \notin due[k])

\* "drops updates for a slow browser rather than queueing them, since a newer
\* position supersedes an older one" (README.md): a browser whose stream, scope and
\* interest last gets a newer event of the vehicle after each one that was dropped.
DroppedAreSuperseded ==
  \A k \in Clients, p \in Partitions, o \in 1 .. MaxRecords :
    (<<p, o>> \in dropped[k]) ~>
      \/ <<p, o>> \notin dropped[k]
      \/ \E r \in Routers : ~ (Matches(interest[r], <<p, o>>) /\ Matches(scope[k], <<p, o>>))
      \/ \E x \in Elements(shown[k]) :
           x[1] = p /\ x[2] > o /\ VinOf[EventAt(x)] = VinOf[EventAt(<<p, o>>)]
=============================================================================
