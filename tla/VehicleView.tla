---------------------------- MODULE VehicleView ----------------------------
(***************************************************************************)
(* What one user's page shows: API.stream and API.latest of dashboard-api  *)
(* (internal/dashboard/api.go) and the web client's Dashboard and          *)
(* useTelemetryStream (web/src), fed by the canonical topic.               *)
(*                                                                         *)
(*   canonical --persister--> index --latest--> answer --+                 *)
(*   canonical --push path--> wire --SSE--> pending -----+--merge--> shown *)
(*                                                                         *)
(* The persister and the push path appear as what Persister and PushPath   *)
(* show of them without trouble: canonical records are indexed and pushed  *)
(* in the order of the topic.  The causes for which the push path drops an *)
(* event are PushPath's subject.                                           *)
(***************************************************************************)
EXTENDS Naturals, Sequences, SequencesExt, FiniteSetsExt

CONSTANTS
  Vins, Fleets,
  Scopes,    \* what authz may grant the user: sets of fleets and vehicles
  None,
  PageSize,  \* API.latest asks for that many rows: 5000
  MaxMoves,  \* bound: vehicles that change their fleet
  MaxGrants, \* bound: changes of the user's grants
  MaxBreaks  \* bound: requests of the page that fail or break

ASSUME ViewAssumption == None \notin [vin : Vins, ts : Nat, fleet : Fleets] /\ PageSize \in Nat

VARIABLES
  fleet,     \* fleet[v]: v's fleet, which its reports are stamped with
  left,      \* auxiliary: left[v]: the fleets that v has left
  canonical, \* the canonical topic: [vin, ts, fleet]; one partition
  horizon,   \* events up to this ts are more than 24 hours old
  indexed,   \* the first that many of them are searchable
  pushed,    \* the first that many of them have passed Broker.Dispatch
  granted,   \* what authz answers for the user
  stream,    \* the EventSource: "none", "down", "asked", "live", "failed"
  scope,     \* the scope of its connection, {} without
  wire,      \* written to the connection, not received
  latest,    \* the snapshot: "none", "wanted", "asked", "answered", "done"
  asked,     \* the scope that API.latest filters by
  answer,    \* answer[v]: the row for v in the snapshot, or None
  pending,   \* useTelemetryStream's buffer
  shown,     \* shown[v]: the event that the page shows of v, or None
  got,       \* auxiliary: the events that have been merged
  owed,      \* auxiliary: the events that the page's requests owe it
  missed,    \* auxiliary: events of vehicles its user may see that the snapshot has no row for
  full,      \* auxiliary: whether the snapshot had no room for some vehicle that matched
  held,      \* auxiliary: the scopes the user has had since the page opened
  moves, grants, breaks

sourceVars == <<fleet, left, canonical, horizon, indexed>>
missVars == <<missed, full>>
snapshotVars == <<latest, asked, answer, missVars>>
pageVars == <<pending, shown, got>>
authVars == <<granted, held, moves, grants>>
viewVars == <<sourceVars, pushed, stream, scope, wire, snapshotVars, pageVars, owed, authVars, breaks>>

Event(v, ts, f) == [vin |-> v, ts |-> ts, fleet |-> f]
NoRows == [v \in Vins |-> None]

ViewInit ==
  /\ fleet \in [Vins -> Fleets]
  /\ left = [v \in Vins |-> {}]
  /\ canonical = << >> /\ horizon = 0 /\ indexed = 0 /\ pushed = 0
  /\ granted \in Scopes
  /\ stream = "none" /\ scope = {} /\ wire = << >>
  /\ latest = "none" /\ asked = {} /\ answer = NoRows
  /\ pending = << >> /\ shown = NoRows
  /\ got = {} /\ owed = {} /\ missed = {} /\ full = FALSE /\ held = {}
  /\ moves = 0 /\ grants = 0 /\ breaks = 0

Broken == breaks < MaxBreaks /\ breaks' = breaks + 1

\* Scope.Allows, and the filters of latest's query.
Allows(s, e) == {e.fleet, e.vin} \cap s # {}

-----------------------------------------------------------------------------
(* Environment *)

Move(v, f) ==
  /\ moves < MaxMoves /\ moves' = moves + 1
  /\ fleet[v] # f
  /\ fleet' = [fleet EXCEPT ![v] = f]
  /\ left' = [left EXCEPT ![v] = @ \cup {fleet[v]}]
  /\ UNCHANGED <<canonical, horizon, indexed, pushed, stream, scope, wire, snapshotVars, pageVars, owed, granted, held, grants, breaks>>

Grant(s) ==
  /\ grants < MaxGrants /\ grants' = grants + 1
  /\ granted # s
  /\ granted' = s
  /\ held' = IF stream = "none" THEN held ELSE held \cup {s}
  /\ UNCHANGED <<sourceVars, pushed, stream, scope, wire, snapshotVars, pageVars, owed, moves, breaks>>

\* A day passes after a report.
Age ==
  /\ \E i \in DOMAIN canonical : canonical[i].ts > horizon
  /\ horizon' = horizon + 1
  /\ UNCHANGED <<fleet, left, canonical, indexed, pushed, stream, scope, wire, snapshotVars, pageVars, owed, authVars, breaks>>

\* The persister.  A document's id is the event's: a later copy replaces an earlier one.
Index ==
  /\ indexed < Len(canonical)
  /\ indexed' = indexed + 1
  /\ UNCHANGED <<fleet, left, canonical, horizon, pushed, stream, scope, wire, snapshotVars, pageVars, owed, authVars, breaks>>

Documents ==
  {canonical[i] : i \in {j \in 1 .. indexed :
     \A k \in j + 1 .. indexed :
       canonical[k].vin = canonical[j].vin => canonical[k].ts # canonical[j].ts}}

\* The push path's next event gets to the broker, if the stream is one of its clients.
Push ==
  LET e == canonical[pushed + 1]
  IN  /\ pushed < Len(canonical)
      /\ pushed' = pushed + 1
      /\ IF stream = "live" /\ Allows(scope, e)
         THEN wire' = Append(wire, e) /\ owed' = owed \cup {e}
         ELSE UNCHANGED <<wire, owed>>
      /\ UNCHANGED <<sourceVars, stream, scope, snapshotVars, pageVars, authVars, breaks>>

-----------------------------------------------------------------------------
(* API.stream and the EventSource *)

\* The page mounts: both effects run, the snapshot's fetch and the EventSource.
Mount ==
  /\ stream = "none"
  /\ stream' = "down" /\ latest' = "wanted"
  /\ held' = {granted}
  /\ UNCHANGED <<sourceVars, pushed, scope, wire, asked, answer, missVars, pageVars, owed, granted, moves, grants, breaks>>

\* A request for the stream, the first or the EventSource's next: authz has answered.
StreamAsks ==
  /\ stream = "down"
  /\ stream' = "asked"
  /\ scope' = granted
  /\ UNCHANGED <<sourceVars, pushed, wire, snapshotVars, pageVars, owed, authVars, breaks>>

\* Authz does not answer.  An EventSource does not ask again after a status of 502.
StreamRefused ==
  /\ stream = "down" /\ Broken
  /\ stream' = "failed"
  /\ UNCHANGED <<sourceVars, pushed, scope, wire, snapshotVars, pageVars, owed, authVars>>

Register ==
  /\ stream = "asked"
  /\ stream' = "live"
  /\ UNCHANGED <<sourceVars, pushed, scope, wire, snapshotVars, pageVars, owed, authVars, breaks>>

\* The connection breaks, or srv.Close ends it with its pod.
StreamEnds ==
  /\ stream \in {"asked", "live"} /\ Broken
  /\ stream' = "down" /\ scope' = {} /\ wire' = << >>
  /\ owed' = owed \ Range(wire)
  /\ UNCHANGED <<sourceVars, pushed, snapshotVars, pageVars, authVars>>

\* RefreshScopes.
RefreshScope ==
  /\ stream = "live" /\ scope # granted
  /\ scope' = granted
  /\ UNCHANGED <<sourceVars, pushed, stream, wire, snapshotVars, pageVars, owed, authVars, breaks>>

-----------------------------------------------------------------------------
(* API.latest *)

LatestAsks ==
  /\ latest = "wanted"
  /\ latest' = "asked" /\ asked' = granted
  /\ UNCHANGED <<sourceVars, pushed, stream, scope, wire, answer, missVars, pageVars, owed, authVars, breaks>>

\* The page shows an error and does not ask again.
LatestFails ==
  /\ latest \in {"wanted", "asked"} /\ Broken
  /\ latest' = "failed" /\ asked' = {}
  /\ UNCHANGED <<sourceVars, pushed, stream, scope, wire, answer, missVars, pageVars, owed, authVars>>

Recent == {d \in Documents : d.ts > horizon}

\* Mutant of Matching: a user without grants has no filter.
MatchingAny(v) == {d \in Recent : d.vin = v /\ (asked = {} \/ Allows(asked, d))}

\* A user without grants gets no rows.
Matching(v) == {d \in Recent : d.vin = v /\ Allows(asked, d)}

IsNewest(d, events) == d \in events /\ \A e \in events : d.ts >= e.ts

\* The vehicles that get a row: all that match, or PageSize of them, the newest first.
Listed ==
  LET matched == {v \in Vins : Matching(v) # {}}
  IN  {list \in SUBSET matched :
         /\ Cardinality(list) <= PageSize
         /\ list = matched \/
              /\ Cardinality(list) = PageSize
              /\ \A v \in list, w \in matched \ list :
                   \E d \in Matching(v) : \A e \in Matching(w) : d.ts >= e.ts}

\* What the user may see of the last day: of the vehicles that are granted, alone or as
\* members of a fleet, whatever the documents are stamped with.
MaySee == {d \in Recent : {d.vin, fleet[d.vin]} \cap asked # {}}

\* The query: filter, sort and collapse, so that each vehicle's row is its newest match.
Search ==
  /\ latest = "asked"
  /\ latest' = "answered" /\ asked' = {}
  /\ \E list \in Listed :
       /\ answer' = [v \in Vins |->
                       IF v \in list THEN CHOOSE d \in Matching(v) : IsNewest(d, Matching(v)) ELSE None]
       /\ owed' = owed \cup UNION {Matching(v) : v \in list}
       /\ full' = (\E v \in Vins \ list : Matching(v) # {})
  /\ missed' = {d \in MaySee : answer'[d.vin] = None \/ answer'[d.vin].ts < d.ts}
  /\ UNCHANGED <<sourceVars, pushed, stream, scope, wire, pageVars, authVars, breaks>>

-----------------------------------------------------------------------------
(* useTelemetryStream *)

\* A vehicle's row after one event of it.
Newer(row, e) == IF row = None \/ e.ts >= row.ts THEN e ELSE row

Put(rows, e) == [rows EXCEPT ![e.vin] = Newer(@, e)]

\* merge: the loop over a batch of events.
Merge(rows, events) ==
  LET next[n \in 0 .. Len(events)] == IF n = 0 THEN rows ELSE Put(next[n - 1], events[n])
  IN  next[Len(events)]

Receive ==
  /\ wire # << >>
  /\ pending' = Append(pending, Head(wire))
  /\ wire' = Tail(wire)
  /\ UNCHANGED <<sourceVars, pushed, stream, scope, snapshotVars, shown, got, owed, authVars, breaks>>

\* Mutant of Flush: the updater reads the buffer only after it has been replaced.
FlushLate ==
  /\ pending # << >>
  /\ pending' = << >>
  /\ UNCHANGED <<sourceVars, pushed, stream, scope, wire, snapshotVars, shown, got, owed, authVars, breaks>>

\* The timer of FLUSH_MS.
Flush ==
  /\ pending # << >>
  /\ shown' = Merge(shown, pending)
  /\ got' = got \cup Range(pending)
  /\ pending' = << >>
  /\ UNCHANGED <<sourceVars, pushed, stream, scope, wire, snapshotVars, owed, authVars, breaks>>

Rows == {answer[v] : v \in Vins} \ {None}

\* Mutant of ShowAnswer: the snapshot replaces what is there.
ReplaceByAnswer ==
  /\ latest = "answered"
  /\ latest' = "done" /\ answer' = NoRows
  /\ shown' = answer
  /\ got' = got \cup Rows
  /\ UNCHANGED <<sourceVars, pushed, stream, scope, wire, asked, missVars, pending, owed, authVars, breaks>>

\* The snapshot arrives and is merged like a batch of events, each of another vehicle.
ShowAnswer ==
  /\ latest = "answered"
  /\ latest' = "done" /\ answer' = NoRows
  /\ shown' = [v \in Vins |-> IF answer[v] = None THEN shown[v] ELSE Newer(shown[v], answer[v])]
  /\ got' = got \cup Rows
  /\ UNCHANGED <<sourceVars, pushed, stream, scope, wire, asked, missVars, pending, owed, authVars, breaks>>
-----------------------------------------------------------------------------

Stream == StreamAsks \/ StreamRefused \/ Register \/ StreamEnds \/ RefreshScope

Snapshot == LatestAsks \/ LatestFails \/ Search \/ ShowAnswer

ViewNext ==
  \/ \E v \in Vins, f \in Fleets : Move(v, f)
  \/ \E s \in Scopes : Grant(s)
  \/ Mount \/ Age \/ Index \/ Push \/ Receive \/ Flush
  \/ Stream \/ Snapshot
=============================================================================
