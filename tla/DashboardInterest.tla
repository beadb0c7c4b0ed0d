------------------------- MODULE DashboardInterest -------------------------
(***************************************************************************)
(* One dashboard-api pod: how the scopes of its SSE clients become the     *)
(* routing interest that every realtime-router pod holds for it            *)
(* (internal/dashboard/{broker,interest,routerpool,api}.go and Subscribe   *)
(* in internal/router/server.go).                                          *)
(*                                                                         *)
(*   authz --scope--> client --union--> InterestBus --stream--> router     *)
(*                                                                         *)
(* Who runs: one goroutine per SSE request (Broker.Register, the stream,   *)
(* Broker.Unregister), the scope refresher, and one goroutine per router   *)
(* stream.  Broker.recompute is two steps of its caller, for the union is  *)
(* computed under the broker's lock and published after it is released.    *)
(*                                                                         *)
(* A scope or an interest is a set of tags, fleets and VINs alike; {All}   *)
(* stands for the flag that makes the other tags redundant.                *)
(***************************************************************************)
EXTENDS Naturals, Sequences

CONSTANTS
  Clients,     \* SSE requests, one at a time each
  Users,
  UserOf,      \* UserOf[k]: the user of client k
  Tags,        \* fleets and VINs, and All
  All,
  Scopes,      \* the scopes that authz may grant
  Routers,     \* router pods, one stream to each
  Refresher,   \* the goroutine of API.RefreshScopes
  MaxConnects, \* bound: connections of each client
  MaxGrants,   \* bound: changes of grants
  MaxBreaks,   \* bound: streams that fail, refreshes that fail
  MaxInFlight  \* bound: messages in a stream, as gRPC's flow control has one

ASSUME InterestAssumption ==
  /\ UserOf \in [Clients -> Users]
  /\ All \in Tags
  /\ Scopes \subseteq SUBSET Tags
  /\ Refresher \notin Clients
  /\ MaxConnects \in Nat /\ MaxGrants \in Nat /\ MaxBreaks \in Nat
  /\ MaxInFlight \in Nat \ {0}

VARIABLES
  granted,   \* granted[u]: what authz answers for u
  clients,   \* the broker's clients
  scope,     \* scope[k]: the scope that client k is filtered by
  step,      \* step[w]: what goroutine w does next
  union,     \* union[w]: the union that w computed and has not published
  todo,      \* the users that the refresher has yet to ask for
  answer,    \* <<user, scope>>: the answer the refresher holds, or << >>
  bus,       \* the InterestBus's current interest
  link,      \* link[r]: what the goroutine of the stream to r does next
  current,   \* current[r]: the interest that sendInterest has read
  signal,    \* signal[r]: the stream's watch channel, of capacity 1, is full
  pipe,      \* pipe[r]: messages on their way to r
  routed,    \* routed[r]: what r applies to the pod; {} also without a stream
  connects, grants, breaks  \* how often each of these happened

brokerVars == <<clients, scope, step, union, todo, answer>>
streamVars == <<link, current, pipe, routed>>
boundVars == <<connects, grants, breaks>>
vars == <<granted, brokerVars, bus, signal, streamVars, boundVars>>

Workers == Clients \cup {Refresher}

\* SubscribeRequest: Hello opens a stream, an update replaces the interest.
Hello == [type |-> "hello"]
Update(i) == [type |-> "update", interest |-> i]

\* Interests as recompute makes them: all, or fleets and VINs.
Interests == {{All}} \cup SUBSET (Tags \ {All})
Messages == {Hello} \cup {Update(i) : i \in Interests}

Init ==
  /\ granted \in [Users -> Scopes]
  /\ clients = {}
  /\ scope = [k \in Clients |-> {}]
  /\ step = [w \in Workers |-> "idle"]
  /\ union = [w \in Workers |-> {}]
  /\ todo = {}
  /\ answer = << >>
  /\ bus = {}
  /\ link = [r \in Routers |-> "down"]
  /\ current = [r \in Routers |-> {}]
  /\ signal = [r \in Routers |-> FALSE]
  /\ pipe = [r \in Routers |-> << >>]
  /\ routed = [r \in Routers |-> {}]
  /\ connects = [k \in Clients |-> 0]
  /\ grants = 0
  /\ breaks = 0

-----------------------------------------------------------------------------
(* Environment *)

Grant(u, s) ==
  /\ grants < MaxGrants
  /\ granted' = [granted EXCEPT ![u] = s]
  /\ grants' = grants + 1
  /\ UNCHANGED <<brokerVars, bus, signal, streamVars, connects, breaks>>

\* An SSE request arrives and API.stream gets the scope of its user from authz.
Connect(k) ==
  /\ step[k] = "idle" /\ k \notin clients
  /\ connects[k] < MaxConnects
  /\ connects' = [connects EXCEPT ![k] = @ + 1]
  /\ scope' = [scope EXCEPT ![k] = granted[UserOf[k]]]
  /\ step' = [step EXCEPT ![k] = "register"]
  /\ UNCHANGED <<granted, clients, union, todo, answer, bus, signal, streamVars, grants, breaks>>

-----------------------------------------------------------------------------
(* The broker *)

Register(k) ==
  /\ step[k] = "register"
  /\ clients' = clients \cup {k}
  /\ step' = [step EXCEPT ![k] = "compute"]
  /\ UNCHANGED <<granted, scope, union, todo, answer, bus, signal, streamVars, boundVars>>

\* The request's context is done and the deferred Unregister runs.
Unregister(k) ==
  /\ step[k] = "idle" /\ k \in clients
  /\ clients' = clients \ {k}
  /\ step' = [step EXCEPT ![k] = "compute"]
  /\ UNCHANGED <<granted, scope, union, todo, answer, bus, signal, streamVars, boundVars>>

\* The tags the connected clients may see; an All scope makes the others redundant.
Union ==
  LET tags == UNION {scope[k] : k \in clients}
  IN  IF All \in tags THEN {All} ELSE tags

\* recompute, up to the release of the lock.
Compute(w) ==
  /\ step[w] = "compute"
  /\ union' = [union EXCEPT ![w] = Union]
  /\ step' = [step EXCEPT ![w] = "publish"]
  /\ UNCHANGED <<granted, clients, scope, todo, answer, bus, signal, streamVars, boundVars>>

\* Mutant of Watching: the watch channel has no buffer, so that a stream which is
\* sending misses the signal.
Selecting(r) == link[r] = "wait"

Watching(r) == link[r] # "down"

\* The watchers to wake up when the interest becomes i.
Woken(i) == {r \in Routers : Watching(r) /\ i # bus}

\* recompute's call of InterestBus.Set, at once for all watchers under its lock.
Publish(w) ==
  /\ step[w] = "publish"
  /\ bus' = union[w]
  /\ signal' = [r \in Routers |-> signal[r] \/ r \in Woken(union[w])]
  /\ union' = [union EXCEPT ![w] = {}]
  /\ step' = [step EXCEPT ![w] = IF w = Refresher /\ todo # {} THEN "ask" ELSE "idle"]
  /\ UNCHANGED <<granted, clients, scope, todo, answer, streamVars, boundVars>>

-----------------------------------------------------------------------------
(* API.RefreshScopes *)

\* The ticker fires: the users to ask for are those connected now.
Tick ==
  /\ step[Refresher] = "idle"
  /\ clients # {}
  /\ todo' = {UserOf[k] : k \in clients}
  /\ step' = [step EXCEPT ![Refresher] = "ask"]
  /\ UNCHANGED <<granted, clients, scope, union, answer, bus, signal, streamVars, boundVars>>

Ask(u) ==
  /\ step[Refresher] = "ask" /\ u \in todo
  /\ answer' = <<u, granted[u]>>
  /\ todo' = todo \ {u}
  /\ step' = [step EXCEPT ![Refresher] = "store"]
  /\ UNCHANGED <<granted, clients, scope, union, bus, signal, streamVars, boundVars>>

\* GetUserScope fails: the user keeps the scope it has until the next tick.
AskFails(u) ==
  /\ step[Refresher] = "ask" /\ u \in todo
  /\ breaks < MaxBreaks /\ breaks' = breaks + 1
  /\ todo' = todo \ {u}
  /\ step' = [step EXCEPT ![Refresher] = IF todo' = {} THEN "idle" ELSE "ask"]
  /\ UNCHANGED <<granted, clients, scope, union, answer, bus, signal, streamVars, connects, grants>>

\* Mutants of UpdateScope: the interest is not recomputed;
UpdateOnly ==
  /\ step[Refresher] = "store"
  /\ scope' = [k \in Clients |->
                 IF k \in clients /\ UserOf[k] = answer[1] THEN answer[2] ELSE scope[k]]
  /\ answer' = << >>
  /\ step' = [step EXCEPT ![Refresher] = IF todo = {} THEN "idle" ELSE "ask"]
  /\ UNCHANGED <<granted, clients, union, todo, bus, signal, streamVars, boundVars>>

\* only one connection of the user gets the new scope.
UpdateOne ==
  /\ step[Refresher] = "store"
  /\ \E k \in Clients :
       scope' = IF k \in clients /\ UserOf[k] = answer[1]
                THEN [scope EXCEPT ![k] = answer[2]] ELSE scope
  /\ answer' = << >>
  /\ step' = [step EXCEPT ![Refresher] = "compute"]
  /\ UNCHANGED <<granted, clients, union, todo, bus, signal, streamVars, boundVars>>

\* Broker.UpdateScope stores the answer in every client of the user.
UpdateScope ==
  /\ step[Refresher] = "store"
  /\ scope' = [k \in Clients |->
                 IF k \in clients /\ UserOf[k] = answer[1] THEN answer[2] ELSE scope[k]]
  /\ answer' = << >>
  /\ step' = [step EXCEPT ![Refresher] = "compute"]
  /\ UNCHANGED <<granted, clients, union, todo, bus, signal, streamVars, boundVars>>

-----------------------------------------------------------------------------
(* RouterPool.stream, and Subscribe on the router *)

\* Subscribe and Watch: from here on every change of the interest is signalled.
Open(r) ==
  /\ link[r] = "down"
  /\ link' = [link EXCEPT ![r] = "hello"]
  /\ signal' = [signal EXCEPT ![r] = FALSE]
  /\ UNCHANGED <<granted, brokerVars, bus, current, pipe, routed, boundVars>>

SendHello(r) ==
  /\ link[r] = "hello"
  /\ pipe' = [pipe EXCEPT ![r] = Append(@, Hello)]
  /\ link' = [link EXCEPT ![r] = "read"]
  /\ UNCHANGED <<granted, brokerVars, bus, signal, current, routed, boundVars>>

\* sendInterest reads the bus's current value, whatever the signal was for ...
Current(r) ==
  /\ link[r] = "read"
  /\ current' = [current EXCEPT ![r] = bus]
  /\ link' = [link EXCEPT ![r] = "send"]
  /\ UNCHANGED <<granted, brokerVars, bus, signal, pipe, routed, boundVars>>

\* ... and sends it when the stream has room; the bus may have changed by then.
SendInterest(r) ==
  /\ link[r] = "send" /\ Len(pipe[r]) < MaxInFlight
  /\ pipe' = [pipe EXCEPT ![r] = Append(@, Update(current[r]))]
  /\ link' = [link EXCEPT ![r] = "wait"]
  /\ UNCHANGED <<granted, brokerVars, bus, signal, current, routed, boundVars>>

Wake(r) ==
  /\ link[r] = "wait" /\ signal[r]
  /\ signal' = [signal EXCEPT ![r] = FALSE]
  /\ link' = [link EXCEPT ![r] = "read"]
  /\ UNCHANGED <<granted, brokerVars, bus, current, pipe, routed, boundVars>>

\* What the router applies after message m: nothing yet on Hello.
Applied(m) == IF m.type = "hello" THEN {} ELSE m.interest

Receive(r) ==
  /\ pipe[r] # << >>
  /\ routed' = [routed EXCEPT ![r] = Applied(Head(pipe[r]))]
  /\ pipe' = [pipe EXCEPT ![r] = Tail(@)]
  /\ UNCHANGED <<granted, brokerVars, bus, signal, link, current, boundVars>>

\* The stream fails or its router goes away; maintain will open another one.
Break(r) ==
  /\ link[r] # "down"
  /\ breaks < MaxBreaks /\ breaks' = breaks + 1
  /\ link' = [link EXCEPT ![r] = "down"]
  /\ current' = [current EXCEPT ![r] = {}]
  /\ signal' = [signal EXCEPT ![r] = FALSE]
  /\ pipe' = [pipe EXCEPT ![r] = << >>]
  /\ routed' = [routed EXCEPT ![r] = {}]
  /\ UNCHANGED <<granted, brokerVars, bus, connects, grants>>

-----------------------------------------------------------------------------
Recompute(w) == Compute(w) \/ Publish(w)

Serve(k) == Register(k) \/ Recompute(k)

Refresh == Tick \/ (\E u \in Users : Ask(u)) \/ UpdateScope \/ Recompute(Refresher)

Stream(r) == Open(r) \/ SendHello(r) \/ Current(r) \/ SendInterest(r) \/ Wake(r)

Environment ==
  \/ \E u \in Users, s \in Scopes : Grant(u, s)
  \/ \E k \in Clients : Connect(k) \/ Unregister(k)
  \/ \E u \in Users : AskFails(u)
  \/ \E r \in Routers : Break(r)

Next ==
  \/ Environment
  \/ Refresh
  \/ \E k \in Clients : Serve(k)
  \/ \E r \in Routers : Stream(r) \/ Receive(r)

Spec == Init /\ [][Next]_vars

\* The goroutines run and messages arrive; clients need not come or go.
Fairness ==
  /\ WF_vars(Refresh)
  /\ \A k \in Clients : WF_vars(Serve(k))
  /\ \A r \in Routers : WF_vars(Stream(r)) /\ WF_vars(Receive(r))

FairSpec == Spec /\ Fairness

-----------------------------------------------------------------------------
(* Properties *)

TypeOK ==
  /\ granted \in [Users -> Scopes]
  /\ clients \subseteq Clients
  /\ scope \in [Clients -> Scopes \cup {{}}]
  /\ step \in [Workers -> {"idle", "register", "compute", "publish", "ask", "store"}]
  /\ union \in [Workers -> Interests]
  /\ todo \subseteq Users
  /\ answer \in {<< >>} \cup (Users \X Scopes)
  /\ bus \in Interests
  /\ link \in [Routers -> {"down", "hello", "read", "send", "wait"}]
  /\ current \in [Routers -> Interests]
  /\ signal \in [Routers -> BOOLEAN]
  /\ pipe \in [Routers -> Seq(Messages)]
  /\ routed \in [Routers -> Interests]
  /\ connects \in [Clients -> 0..MaxConnects]
  /\ grants \in 0..MaxGrants
  /\ breaks \in 0..MaxBreaks

\* The interest that the pod sent last to r, or what r applies if all has arrived.
Told(r) == IF pipe[r] = << >> THEN routed[r] ELSE Applied(pipe[r][Len(pipe[r])])

(***************************************************************************)
(* A stream that sits in its select without a signal has already sent the  *)
(* interest that the bus holds: no change between Watch, sendInterest and  *)
(* the next receive from the channel of capacity 1 is lost                 *)
(* (routerpool.go:120-160, interest.go:29-34).                             *)
(***************************************************************************)
NoLostWakeup == \A r \in Routers : link[r] = "wait" /\ ~ signal[r] => Told(r) = bus

\* The refresher that is about to store an answer has one.
Answered == step[Refresher] = "store" => answer # << >>

\* What a stream is about to send is current, or there is a signal to send again.
CurrentIsFresh == \A r \in Routers : link[r] = "send" /\ ~ signal[r] => current[r] = bus

(***************************************************************************)
(* The inductive invariant from which NoLostWakeup follows: a stream that  *)
(* is between reading the bus and sending what it read is covered by the   *)
(* signal too (routerpool.go:127-160).                                     *)
(***************************************************************************)
IInv ==
  /\ TypeOK
  /\ Answered
  /\ CurrentIsFresh
  /\ NoLostWakeup

(***************************************************************************)
(* A grant that changes takes effect on open streams: whatever refreshes,  *)
(* connections and failed lookups interleave, in the end every client is   *)
(* filtered by what authz grants its user (api.go:170-190, the comment of  *)
(* RefreshScopes).                                                         *)
(***************************************************************************)
ScopesReachClients == <>[](\A k \in clients : scope[k] = granted[UserOf[k]])

(***************************************************************************)
(* As long as anybody is connected, every router ends up with exactly the  *)
(* union of the clients' scopes: races of recompute and broken streams are *)
(* repaired by the next refresh and by maintain (broker.go:124-157,        *)
(* routerpool.go:81-163).                                                  *)
(***************************************************************************)
InterestReachesRouters == <>[](clients # {} => \A r \in Routers : routed[r] = Union)

(***************************************************************************)
(* A pod that its last client has left for good asks for nothing any more: *)
(* "a pod with no connected user for a fleet receives none of that fleet's *)
(* traffic" (README.md, on realtime-router).                               *)
(***************************************************************************)
InterestDrains == <>[](clients = {}) => <>[](bus = {})
=============================================================================
