------------------------------ MODULE Journey ------------------------------
(***************************************************************************)
(* The journey of a report, from the vehicle to the page: Ingest and       *)
(* VehicleView, with telemetry-processor between them as what              *)
(* TelemetryProcessor shows of it - raw records are handled in order, a    *)
(* report that is in the canonical topic is published again only if        *)
(* something went wrong, and every publication is stamped with the fleet   *)
(* the vehicle has at that time.                                           *)
(***************************************************************************)
EXTENDS Ingest, VehicleView

ASSUME SameVehicles == Vins = Vehicles

vars == <<ingestVars, viewVars>>

Init == IngestInit /\ ViewInit

Known(r) == \E i \in DOMAIN canonical : <<canonical[i].vin, canonical[i].ts>> = r

Forward(r) ==
  /\ canonical' = Append(canonical, Event(r[1], r[2], fleet[r[1]]))
  /\ UNCHANGED <<fleet, left, horizon, indexed, pushed, stream, scope, wire, snapshotVars, pageVars, owed, authVars, breaks>>

\* telemetry-processor handles the next raw record.
Process ==
  LET r == Head(raw)
  IN  /\ raw # << >>
      /\ raw' = Tail(raw)
      /\ \/ ~ Known(r) /\ Forward(r) /\ UNCHANGED trouble
         \/ Known(r) /\ UNCHANGED <<viewVars, trouble>>
         \/ Known(r) /\ Forward(r) /\ Troubled
      /\ UNCHANGED <<taken, online, again, mqtt, jobs, dlq, lostVars, excused>>

Next ==
  \/ IngestNext /\ UNCHANGED viewVars
  \/ ViewNext /\ UNCHANGED ingestVars
  \/ Process

Spec == Init /\ [][Next]_vars

\* The EventSource asks for a stream when it has none, and the handler goes on.
Fairness ==
  /\ WF_vars(StreamAsks /\ UNCHANGED ingestVars)
  /\ WF_vars(Register /\ UNCHANGED ingestVars)

FairSpec == Spec /\ Fairness

-----------------------------------------------------------------------------
(* Properties *)

Reports == Vehicles \X (1 .. MaxReports)
EventSet == [vin : Vehicles, ts : 1 .. MaxReports, fleet : Fleets]
Row == EventSet \cup {None}

\* The types of what carries a report from the vehicle to the canonical topic.
CarriersOK ==
  /\ taken \in [Vehicles -> 0 .. MaxReports]
  /\ mqtt \subseteq Copies /\ dlq \subseteq Copies
  /\ undelivered \subseteq Copies /\ discarded \subseteq Copies
  /\ jobs \subseteq [copy : Copies, try : 1 .. Attempts]
  /\ raw \in Seq(Reports) /\ excused \subseteq Reports
  /\ canonical \in Seq(EventSet)

\* The types of what carries an event from the canonical topic to the page.
PageTypes ==
  /\ fleet \in [Vehicles -> Fleets] /\ left \in [Vehicles -> SUBSET Fleets]
  /\ horizon \in 0 .. MaxReports
  /\ indexed \in 0 .. Len(canonical) /\ pushed \in 0 .. Len(canonical)
  /\ stream \in {"none", "down", "asked", "live", "failed"}
  /\ latest \in {"none", "wanted", "asked", "answered", "done", "failed"}
  /\ answer \in [Vehicles -> Row]
  /\ shown \in [Vehicles -> Row]
  /\ wire \in Seq(EventSet) /\ pending \in Seq(EventSet)
  /\ got \subseteq EventSet /\ owed \subseteq EventSet /\ missed \subseteq EventSet
  /\ full \in BOOLEAN

\* Type invariant of the journey's state, from mqtt to what the page shows.
TypeOK ==
  /\ CarriersOK
  /\ online \subseteq Vehicles
  /\ again \subseteq {v \in Vehicles : taken[v] > 0}
  /\ PageTypes

(***************************************************************************)
(* A report that a vehicle made while it was connected is on its way,      *)
(* published or dead-lettered, unless MQTT lost it or the rule's delivery  *)
(* to Lambda failed, which IoT Core only logs: no failure of the bridge or *)
(* of Kafka loses it (bridge.go:63-88, lambda.tf:48-52, README.md:40-42).  *)
(* Without a dead-letter queue, one may be discarded when Lambda's retries *)
(* run out.                                                                *)
(***************************************************************************)
NoReportVanishes ==
  \A v \in Vehicles : \A n \in 1 .. taken[v] :
    \/ <<v, n>> \in excused \cup Range(raw) \/ Known(<<v, n>>)
    \/ \E c \in mqtt \cup {j.copy : j \in jobs} \cup dlq \cup undelivered : ReportOf(c) = <<v, n>>
    \/ ~ HasDLQ /\ \E c \in discarded : ReportOf(c) = <<v, n>>

\* NoReportVanishes is inductive together with these types.
IInv ==
  /\ CarriersOK
  /\ fleet \in [Vehicles -> Fleets]
  /\ \A v \in again : taken[v] > 0
  /\ NoReportVanishes

(***************************************************************************)
(* Of every vehicle the page shows the newest event that it has got, by    *)
(* stream or snapshot, in whatever order the two answer and Lambda's       *)
(* retries let the reports through; what is shown is one of those events   *)
(* (useTelemetryStream.ts:19-22, 56-63).                                   *)
(***************************************************************************)
ShownIsNewest ==
  /\ \A e \in got : shown[e.vin] # None /\ shown[e.vin].ts >= e.ts
  /\ \A v \in Vehicles : shown[v] = None \/ shown[v] \in got

(***************************************************************************)
(* The page shows a vehicle only if the user was granted it, or the fleet  *)
(* it is assigned to, at some time since the page was opened.  There is    *)
(* one exception, in which the code departs from "user sees every vehicle  *)
(* currently assigned to the fleet" (schema.sql:25): a vehicle that has    *)
(* left the granted fleet is shown with what it reported as its member.    *)
(* So whenever grants change between a lookup of the scope and its use     *)
(* and whenever the vehicle moves between report and search, and for users *)
(* without any grant (api.go:78-86, 118-141).                              *)
(***************************************************************************)
ShownWasGranted ==
  \A v \in Vehicles : shown[v] = None \/
    \E s \in held :
      \/ {v, fleet[v]} \cap s # {}
      \/ shown[v].fleet \in left[v] \cap s

(***************************************************************************)
(* What a live stream was given, and what matched of a vehicle that the    *)
(* snapshot has a row for, is on its way to the page or covered by what it *)
(* shows, unless the stream has ended first: buffering, flushing and       *)
(* merging, with the stream and the snapshot in either order, lose         *)
(* nothing.  And the snapshot has "the most recent position of every       *)
(* vehicle the user may see (last 24h)" (api.go:116) but for two cases:    *)
(* more vehicles match than the page's size, or the document is stamped    *)
(* with a fleet that the vehicle has left, so that a vehicle which has     *)
(* moved into the user's fleet is shown only with its next report          *)
(* (api.go:99-113, 118-146, useTelemetryStream.ts:19-50).                  *)
(***************************************************************************)
NothingUnseen ==
  /\ \A e \in owed :
       \/ shown[e.vin] # None /\ shown[e.vin].ts >= e.ts
       \/ e \in Range(wire) \cup Range(pending)
       \/ latest = "answered" /\ answer[e.vin] # None /\ answer[e.vin].ts >= e.ts
  /\ \A e \in missed : full \/ e.fleet \in left[e.vin]

\* The rows of the page and of the snapshot are events of their vehicles.
RowsOK ==
  \A v \in Vehicles :
    /\ shown[v] = None \/ shown[v].vin = v
    /\ answer[v] = None \/ answer[v].vin = v

\* Whatever is on its way to the page was allowed by a scope that its user has had.
ScopesOK ==
  /\ stream = "none" => held = {} /\ latest = "none"
  /\ stream # "none" => granted \in held
  /\ scope \in held \cup {{}} /\ asked \in held \cup {{}}
  /\ \A e \in got \cup Range(wire) \cup Range(pending) \cup Rows : \E s \in held : Allows(s, e)

\* Every event bears its vehicle's fleet or one that the vehicle has left.
StampsKnown ==
  \A e \in Range(canonical) \cup got \cup Range(wire) \cup Range(pending) \cup Rows :
    e.fleet \in {fleet[e.vin]} \cup left[e.vin]

\* The inductive invariant behind the three properties of the page.
PageInv ==
  /\ RowsOK
  /\ ScopesOK
  /\ StampsKnown
  /\ ShownIsNewest
  /\ ShownWasGranted
  /\ NothingUnseen

\* "EventSource retries on its own" (useTelemetryStream.ts:35): a page whose stream is
\* not live gets a live one.
StreamRecovers == (stream = "down") ~> (stream = "live")
=============================================================================
