---------------------------- MODULE JourneyProofs ----------------------------
(***************************************************************************)
(* Proofs about the journey of a report, for any number of vehicles,       *)
(* reports, failures and attempts: none is lost between a connected        *)
(* vehicle and the canonical topic unless MQTT or the IoT rule loses it,   *)
(* and the page shows the newest it got, nothing but what its user may see *)
(* or a vehicle left behind in a granted fleet, and all that it was given. *)
(***************************************************************************)
EXTENDS Journey, WellFoundedInduction, TLAPS

USE DEF Row, lostVars, missVars

\* Where a report may be while it is on its way.
Carried(r) ==
  \/ r \in excused \cup Range(raw) \/ Known(r)
  \/ \E c \in mqtt \cup {j.copy : j \in jobs} \cup dlq \cup undelivered : ReportOf(c) = r
  \/ ~ HasDLQ /\ \E c \in discarded : ReportOf(c) = r

\* The parts of a copy.
LEMMA Copied ==
  ASSUME NEW c \in Copies
  PROVE  /\ ReportOf(c) \in Reports
         /\ c[1] \in Vehicles /\ c[2] \in 1 .. MaxReports
  BY DEF Copies, ReportOf, Reports

LEMMA RangeOfAppend ==
  ASSUME NEW S, NEW s \in Seq(S), NEW x \in S
  PROVE  /\ Append(s, x) \in Seq(S)
         /\ Range(Append(s, x)) = Range(s) \cup {x}
  <1>1. Append(s, x) \in Seq(S) /\ Len(Append(s, x)) = Len(s) + 1
    OBVIOUS
  <1>2. DOMAIN Append(s, x) = DOMAIN s \cup {Len(s) + 1}
    OBVIOUS
  <1>3. \A i \in DOMAIN s : Append(s, x)[i] = s[i]
    OBVIOUS
  <1>4. Append(s, x)[Len(s) + 1] = x
    OBVIOUS
  <1> QED BY <1>1, <1>2, <1>3, <1>4 DEF Range

LEMMA RangeOfTail ==
  ASSUME NEW S, NEW s \in Seq(S), s # << >>
  PROVE  /\ Head(s) \in S
         /\ Tail(s) \in Seq(S)
         /\ Range(s) = Range(Tail(s)) \cup {Head(s)}
  <1>1. Head(s) \in S /\ Tail(s) \in Seq(S) /\ Len(s) \in Nat \ {0}
    OBVIOUS
  <1>2. DOMAIN s = 1 .. Len(s) /\ DOMAIN Tail(s) = 1 .. Len(s) - 1
    OBVIOUS
  <1>3. \A i \in 1 .. Len(s) - 1 : Tail(s)[i] = s[i + 1]
    OBVIOUS
  <1>4. \A i \in DOMAIN s : i = 1 \/ (i - 1 \in DOMAIN Tail(s) /\ s[i] = Tail(s)[i - 1])
    BY <1>1, <1>2, <1>3
  <1>5. Range(s) \subseteq Range(Tail(s)) \cup {Head(s)}
    BY <1>1, <1>4 DEF Range
  <1>6. \A i \in DOMAIN Tail(s) : i + 1 \in DOMAIN s /\ s[i + 1] = Tail(s)[i]
    BY <1>1, <1>2, <1>3
  <1>7. Head(s) = s[1] /\ 1 \in DOMAIN s
    BY <1>1, <1>2
  <1>8. Range(Tail(s)) \cup {Head(s)} \subseteq Range(s)
    BY <1>6, <1>7 DEF Range
  <1> QED BY <1>1, <1>5, <1>8

-----------------------------------------------------------------------------
(* The vehicle and MQTT *)

\* A vehicle's steps: what it takes is published or, offline, skipped.
LEMMA VehicleStep ==
  ASSUME IInv, UNCHANGED viewVars, NEW v \in Vehicles, Report(v) \/ SkipReport(v) \/ Repeat(v)
  PROVE  IInv'
  <1> USE IngestAssumption DEF viewVars, sourceVars, lostVars
  <1>1. CASE Report(v)
    <2>1. CarriersOK'
      BY <1>1 DEF IInv, CarriersOK, Report, Copies
    <2>2. ASSUME NEW w \in Vehicles, NEW n \in 1 .. taken'[w]
          PROVE  Carried(<<w, n>>)'
      <3>1. CASE w = v /\ n = taken[v] + 1
        <4>1. <<v, n, 1>> \in mqtt' /\ ReportOf(<<v, n, 1>>) = <<w, n>>
          BY <1>1, <3>1 DEF Report, ReportOf
        <4> QED BY <4>1 DEF Carried
      <3>2. CASE ~ (w = v /\ n = taken[v] + 1)
        <4>1. n \in 1 .. taken[w]
          BY <1>1, <3>2 DEF IInv, CarriersOK, Report
        <4>2. Carried(<<w, n>>)
          BY <4>1 DEF IInv, NoReportVanishes, Carried
        <4> QED BY <1>1, <4>2 DEF Report, Carried, Known
      <3> QED BY <3>1, <3>2
    <2>3. \A w \in again' : taken'[w] > 0
      BY <1>1 DEF IInv, CarriersOK, Report
    <2> QED BY <1>1, <2>1, <2>2, <2>3 DEF IInv, NoReportVanishes, Carried, Report
  <1>2. CASE SkipReport(v)
    <2>1. CarriersOK'
      BY <1>2 DEF IInv, CarriersOK, SkipReport, Reports
    <2>2. ASSUME NEW w \in Vehicles, NEW n \in 1 .. taken'[w]
          PROVE  Carried(<<w, n>>)'
      <3>1. CASE w = v /\ n = taken[v] + 1
        BY <1>2, <3>1 DEF SkipReport, Carried
      <3>2. CASE ~ (w = v /\ n = taken[v] + 1)
        <4>1. n \in 1 .. taken[w]
          BY <1>2, <3>2 DEF IInv, CarriersOK, SkipReport
        <4>2. Carried(<<w, n>>)
          BY <4>1 DEF IInv, NoReportVanishes, Carried
        <4> QED BY <1>2, <4>2 DEF SkipReport, Carried, Known
      <3> QED BY <3>1, <3>2
    <2>3. \A w \in again' : taken'[w] > 0
      BY <1>2 DEF IInv, CarriersOK, SkipReport
    <2> QED BY <1>2, <2>1, <2>2, <2>3 DEF IInv, NoReportVanishes, Carried, SkipReport
  <1>3. CASE Repeat(v)
    <2>1. CarriersOK'
      BY <1>3 DEF IInv, CarriersOK, Repeat, Copies
    <2>2. ASSUME NEW w \in Vehicles, NEW n \in 1 .. taken'[w]
          PROVE  Carried(<<w, n>>)'
      <3>1. Carried(<<w, n>>)
        BY <1>3 DEF IInv, NoReportVanishes, Carried, Repeat
      <3> QED BY <1>3, <3>1 DEF Repeat, Carried, Known
    <2> QED BY <1>3, <2>1, <2>2 DEF IInv, NoReportVanishes, Carried, Repeat
  <1> QED BY <1>1, <1>2, <1>3

\* Connections open and break, and IoT Core takes copies: a copy that leaves mqtt is
\* excused or has an invocation.
LEMMA TransportStep ==
  ASSUME IInv, UNCHANGED viewVars,
         \/ \E v \in Vehicles : Connected(v) \/ ConnectionLost(v)
         \/ \E c \in Copies : Accept(c) \/ RuleFails(c)
  PROVE  IInv'
  <1> USE IngestAssumption DEF viewVars, sourceVars, lostVars
  <1>1. ASSUME NEW v \in Vehicles, Connected(v)
        PROVE  IInv'
    BY <1>1 DEF IInv, CarriersOK, Connected, NoReportVanishes, Known
  <1>2. ASSUME NEW v \in Vehicles, ConnectionLost(v)
        PROVE  IInv'
    <2>1. PICK gone \in SUBSET {c \in mqtt : c[1] = v} :
             mqtt' = mqtt \ gone /\ excused' = excused \cup {ReportOf(c) : c \in gone}
      BY <1>2 DEF ConnectionLost
    <2>2. \A c \in gone : ReportOf(c) \in Reports
      BY <2>1, Copied DEF IInv, CarriersOK
    <2>3. CarriersOK'
      BY <1>2, <2>1, <2>2 DEF IInv, CarriersOK, ConnectionLost
    <2>4. ASSUME NEW w \in Vehicles, NEW n \in 1 .. taken'[w]
          PROVE  Carried(<<w, n>>)'
      <3>1. Carried(<<w, n>>)
        BY <1>2 DEF IInv, NoReportVanishes, Carried, ConnectionLost
      <3>2. UNCHANGED <<raw, jobs, dlq, undelivered, discarded, canonical>>
        BY <1>2 DEF ConnectionLost
      <3>3. ASSUME NEW c \in mqtt, ReportOf(c) = <<w, n>>
            PROVE  Carried(<<w, n>>)'
        <4>1. CASE c \in gone
          BY <2>1, <3>3, <4>1 DEF Carried
        <4>2. CASE c \notin gone
          BY <2>1, <3>3, <4>2 DEF Carried
        <4> QED BY <4>1, <4>2
      <3> QED BY <2>1, <3>1, <3>2, <3>3 DEF Carried, Known
    <2> QED BY <1>2, <2>3, <2>4 DEF IInv, NoReportVanishes, Carried, ConnectionLost
  <1>3. ASSUME NEW d \in Copies, Accept(d)
        PROVE  IInv'
    <2>1. CarriersOK'
      BY <1>3 DEF IInv, CarriersOK, Accept, Job
    <2>2. ASSUME NEW w \in Vehicles, NEW n \in 1 .. taken'[w]
          PROVE  Carried(<<w, n>>)'
      <3>1. Carried(<<w, n>>)
        BY <1>3 DEF IInv, NoReportVanishes, Carried, Accept
      <3>2. UNCHANGED <<raw, dlq, undelivered, discarded, excused, canonical>>
        BY <1>3 DEF Accept
      <3>3. Job(d, 1) \in jobs' /\ Job(d, 1).copy = d /\ jobs \subseteq jobs'
        BY <1>3 DEF Accept, Job
      <3>4. mqtt \subseteq mqtt' \cup {j.copy : j \in jobs'}
        BY <1>3, <3>3 DEF Accept
      <3> QED BY <3>1, <3>2, <3>3, <3>4 DEF Carried, Known
    <2> QED BY <1>3, <2>1, <2>2 DEF IInv, NoReportVanishes, Carried, Accept
  <1>4. ASSUME NEW d \in Copies, RuleFails(d)
        PROVE  IInv'
    <2>1. CarriersOK'
      BY <1>4 DEF IInv, CarriersOK, RuleFails
    <2>2. ASSUME NEW w \in Vehicles, NEW n \in 1 .. taken'[w]
          PROVE  Carried(<<w, n>>)'
      <3>1. Carried(<<w, n>>)
        BY <1>4 DEF IInv, NoReportVanishes, Carried, RuleFails
      <3>2. UNCHANGED <<jobs, raw, dlq, discarded, excused, canonical>>
        BY <1>4 DEF RuleFails
      <3>3. undelivered' = undelivered \cup {d} /\ mqtt \subseteq mqtt' \cup {d}
        BY <1>4 DEF RuleFails
      <3> QED BY <3>1, <3>2, <3>3 DEF Carried, Known
    <2> QED BY <1>4, <2>1, <2>2 DEF IInv, NoReportVanishes, Carried, RuleFails
  <1> QED BY <1>1, <1>2, <1>3, <1>4

-----------------------------------------------------------------------------
(* The bridge and the processor *)

\* An invocation leaves its report in the raw topic, in another attempt or in the
\* dead-letter queue; without one it may be discarded.
LEMMA BridgeStep ==
  ASSUME IInv, UNCHANGED viewVars, NEW j \in jobs, Invoke(j)
  PROVE  IInv'
  <1> USE IngestAssumption DEF viewVars, sourceVars, lostVars
  <1> DEFINE r == ReportOf(j.copy)
  <1>1. /\ j \in [copy : Copies, try : 1 .. Attempts] /\ r \in Reports
        /\ raw \in Seq(Reports)
    BY Copied DEF IInv, CarriersOK
  <1>2. /\ Append(raw, r) \in Seq(Reports)
        /\ Range(Append(raw, r)) = Range(raw) \cup {r}
    BY <1>1, RangeOfAppend
  <1>3. UNCHANGED <<taken, mqtt, undelivered, excused, canonical, again, fleet>>
    BY DEF Invoke, Produced, ProduceFails
  <1>4. raw' \in Seq(Reports) /\ Range(raw) \subseteq Range(raw')
    BY <1>1, <1>2 DEF Invoke, Produced, ProduceFails
  <1>5. dlq \subseteq dlq' /\ discarded \subseteq discarded'
    BY DEF Invoke, Produced, ProduceFails, Retry, GiveUp
  <1>6. CarriersOK'
    <2>1. jobs' \subseteq [copy : Copies, try : 1 .. Attempts]
      BY <1>1 DEF Invoke, Produced, ProduceFails, Retry, GiveUp, TriesLeft, Job, IInv, CarriersOK
    <2>2. dlq' \subseteq Copies /\ discarded' \subseteq Copies
      BY <1>1 DEF Invoke, Produced, ProduceFails, Retry, GiveUp, IInv, CarriersOK
    <2> QED BY <1>3, <1>4, <2>1, <2>2 DEF IInv, CarriersOK
  <1>7. jobs \ {j} \subseteq jobs'
    BY DEF Invoke, Produced, ProduceFails, Retry, GiveUp
  <1>8. \/ r \in Range(raw') \/ j.copy \in dlq' \cup {k.copy : k \in jobs'}
        \/ ~ HasDLQ /\ j.copy \in discarded'
    <2>1. CASE Produced(j)
      BY <1>2, <2>1 DEF Produced
    <2>2. CASE ProduceFails(j)
      <3>1. Job(j.copy, j.try + 1).copy = j.copy
        BY DEF Job
      <3> QED BY <2>2, <3>1 DEF ProduceFails, Retry, GiveUp
    <2> QED BY <2>1, <2>2 DEF Invoke
  <1>9. ASSUME NEW w \in Vehicles, NEW n \in 1 .. taken'[w]
        PROVE  Carried(<<w, n>>)'
    <2>1. Carried(<<w, n>>)
      BY <1>3 DEF IInv, NoReportVanishes, Carried
    <2>2. CASE r = <<w, n>>
      BY <1>8, <2>2 DEF Carried
    <2>3. CASE r # <<w, n>>
      <3>1. \A k \in jobs : ReportOf(k.copy) = <<w, n>> => k \in jobs'
        BY <1>7, <2>3
      <3> QED BY <1>3, <1>4, <1>5, <2>1, <3>1 DEF Carried, Known
    <2> QED BY <2>2, <2>3
  <1> QED BY <1>3, <1>6, <1>9 DEF IInv, NoReportVanishes, Carried

\* What has been published stays known.
LEMMA ForwardKnown ==
  ASSUME CarriersOK, fleet \in [Vehicles -> Fleets], NEW r \in Reports, Forward(r)
  PROVE  /\ canonical' \in Seq(EventSet)
         /\ fleet' = fleet
         /\ Known(r)'
         /\ \A q : Known(q) => Known(q)'
  <1> DEFINE e == Event(r[1], r[2], fleet[r[1]])
  <1>1. e \in EventSet /\ <<e.vin, e.ts>> = r
    BY DEF Event, EventSet, Reports
  <1>2. canonical \in Seq(EventSet) /\ canonical' = Append(canonical, e)
    BY DEF Forward, CarriersOK
  <1>3. canonical' \in Seq(EventSet) /\ DOMAIN canonical' = 1 .. Len(canonical) + 1
    BY <1>1, <1>2
  <1>4. canonical'[Len(canonical) + 1] = e /\ Len(canonical) + 1 \in DOMAIN canonical'
    BY <1>1, <1>2, <1>3
  <1>5. \A i \in DOMAIN canonical : i \in DOMAIN canonical' /\ canonical'[i] = canonical[i]
    BY <1>1, <1>2, <1>3
  <1>6. fleet' = fleet
    BY DEF Forward
  <1>7. Known(r)'
    BY <1>1, <1>4 DEF Known
  <1>8. \A q : Known(q) => Known(q)'
    BY <1>5 DEF Known
  <1> QED BY <1>3, <1>6, <1>7, <1>8

\* The processor passes over a record only if its report is in the canonical topic.
LEMMA ProcessStep ==
  ASSUME IInv, Process
  PROVE  IInv'
  <1> USE IngestAssumption
  <1>1. raw \in Seq(Reports) /\ raw # << >> /\ raw' = Tail(raw)
    BY DEF IInv, CarriersOK, Process
  <1>2. PICK r \in Reports : r = Head(raw)
    BY <1>1, RangeOfTail
  <1>3. raw' \in Seq(Reports) /\ Range(raw) = Range(raw') \cup {r}
    BY <1>1, <1>2, RangeOfTail
  <1>4. UNCHANGED <<taken, again, mqtt, jobs, dlq, undelivered, discarded, excused>>
    BY DEF Process, lostVars
  <1>5. /\ canonical' \in Seq(EventSet) /\ fleet' = fleet
        /\ Known(r)'
        /\ \A q : Known(q) => Known(q)'
    <2>1. CASE Forward(r)
      BY <2>1, ForwardKnown DEF IInv
    <2>2. CASE Known(r) /\ UNCHANGED viewVars
      <3>1. canonical' = canonical /\ fleet' = fleet
        BY <2>2 DEF viewVars, sourceVars
      <3> QED BY <2>2, <3>1 DEF IInv, CarriersOK, Known
    <2> QED BY <1>2, <2>1, <2>2 DEF Process
  <1>6. CarriersOK'
    BY <1>3, <1>4, <1>5 DEF IInv, CarriersOK
  <1>7. ASSUME NEW w \in Vehicles, NEW n \in 1 .. taken'[w]
        PROVE  Carried(<<w, n>>)'
    <2>1. Carried(<<w, n>>)
      BY <1>4 DEF IInv, NoReportVanishes, Carried
    <2> QED BY <1>3, <1>4, <1>5, <2>1 DEF Carried
  <1> QED BY <1>4, <1>5, <1>6, <1>7 DEF IInv, NoReportVanishes, Carried

-----------------------------------------------------------------------------
(* The page *)

\* Nothing that the page, its user or the persister does touches a report's carriers.
LEMMA ViewStep ==
  ASSUME IInv, ViewNext, UNCHANGED ingestVars
  PROVE  IInv'
  <1>1. UNCHANGED <<taken, again, mqtt, jobs, raw, dlq, undelivered, discarded, excused>>
    BY DEF ingestVars, lostVars
  <1>2. canonical' = canonical
    BY DEF ViewNext, Move, Grant, Mount, Age, Index, Push, Receive, Flush, Stream, StreamAsks,
           StreamRefused, Register, StreamEnds, RefreshScope, Snapshot, LatestAsks,
           LatestFails, Search, ShowAnswer, sourceVars
  <1>3. fleet' \in [Vehicles -> Fleets]
    <2>1. CASE \E v \in Vins, f \in Fleets : Move(v, f)
      BY <2>1, SameVehicles DEF Move, IInv
    <2>2. CASE ~ \E v \in Vins, f \in Fleets : Move(v, f)
      <3>1. fleet' = fleet
        BY <2>2 DEF ViewNext, Grant, Mount, Age, Index, Push, Receive, Flush, Stream, StreamAsks,
               StreamRefused, Register, StreamEnds, RefreshScope, Snapshot, LatestAsks,
               LatestFails, Search, ShowAnswer, sourceVars
      <3> QED BY <3>1 DEF IInv
    <2> QED BY <2>1, <2>2
  <1> QED BY <1>1, <1>2, <1>3 DEF IInv, CarriersOK, NoReportVanishes, Known

-----------------------------------------------------------------------------
(* Theorems *)

LEMMA InitOK == Init => IInv
  <1> SUFFICES ASSUME Init PROVE IInv
    OBVIOUS
  <1> USE IngestAssumption
  <1>1. /\ taken = [v \in Vehicles |-> 0] /\ again = {} /\ mqtt = {} /\ jobs = {} /\ raw = << >>
        /\ dlq = {} /\ undelivered = {} /\ discarded = {} /\ excused = {} /\ canonical = << >> /\ fleet \in [Vehicles -> Fleets]
    BY SameVehicles DEF Init, IngestInit, ViewInit
  <1>2. CarriersOK
    BY <1>1 DEF CarriersOK
  <1>3. NoReportVanishes
    BY <1>1 DEF NoReportVanishes
  <1> QED BY <1>1, <1>2, <1>3 DEF IInv

LEMMA NextOK == IInv /\ [Next]_vars => IInv'
  <1> SUFFICES ASSUME IInv, [Next]_vars PROVE IInv'
    OBVIOUS
  <1>1. CASE IngestNext /\ UNCHANGED viewVars
    BY <1>1, VehicleStep, TransportStep, BridgeStep DEF IngestNext
  <1>2. CASE ViewNext /\ UNCHANGED ingestVars
    BY <1>2, ViewStep
  <1>3. CASE Process
    BY <1>3, ProcessStep
  <1>4. CASE UNCHANGED vars
    BY <1>4 DEF vars, ingestVars, lostVars, viewVars, sourceVars, IInv, CarriersOK, NoReportVanishes, Known
  <1> QED BY <1>1, <1>2, <1>3, <1>4 DEF Next

\* In every behaviour the carriers of reports are well typed and no report vanishes.
THEOREM Inductive == Spec => []IInv
  BY InitOK, NextOK, PTL DEF Spec

(***************************************************************************)
(* A report made while its vehicle was connected is on its way, published  *)
(* or dead-lettered unless MQTT lost it or the rule's delivery failed, for *)
(* any number of vehicles, reports, attempts and failures, and without a   *)
(* dead-letter queue but for what Lambda discards after its last attempt   *)
(* (bridge.go:63-88, iot.tf:67-75, lambda.tf:48-52).                       *)
(***************************************************************************)
THEOREM NoReportIsLost == Spec => []NoReportVanishes
  <1>1. IInv => NoReportVanishes
    BY DEF IInv
  <1> QED BY <1>1, Inductive, PTL

-----------------------------------------------------------------------------
(* What merge computes *)

\* Induction over the events of a batch is the choice of a least counterexample.
LEMMA Least ==
  ASSUME NEW S \in SUBSET Nat, S # {}
  PROVE  \E n \in S : \A m \in S : n <= m
  <1> DEFINE Less == OpToRel(<, Nat)
  <1>1. IsWellFoundedOn(Less, Nat)
    BY NatLessThanWellFounded
  <1>2. \A m, n \in Nat : <<m, n>> \in Less <=> m < n
    BY DEF OpToRel
  <1> HIDE DEF Less
  <1>3. PICK n \in S : \A m \in S : ~ (<<m, n>> \in Less)
    BY <1>1, WFMin
  <1>4. ASSUME NEW m \in S
        PROVE  n <= m
    <2>1. m \in Nat /\ n \in Nat
      OBVIOUS
    <2>2. ~ (m < n)
      BY <1>2, <1>3, <2>1
    <2> QED BY <2>1, <2>2
  <1> QED BY <1>4

\* g holds what merge's variable next is after the first n events, and before them.
Trace(g, n, rows, events) ==
  g = [i \in 0 .. n |-> IF i = 0 THEN rows ELSE Put(g[i - 1], events[i])]

LEMMA TraceExists ==
  ASSUME NEW rows, NEW events, NEW N \in Nat
  PROVE  \E g : Trace(g, N, rows, events)
  <1> DEFINE Bad == {n \in Nat : ~ \E g : Trace(g, n, rows, events)}
  <1>1. SUFFICES ASSUME Bad # {} PROVE FALSE
    BY <1>1
  <1>2. PICK n \in Bad : \A m \in Bad : n <= m
    <2> HIDE DEF Bad
    <2>1. Bad \in SUBSET Nat
      BY DEF Bad
    <2> QED BY <1>1, <2>1, Least
  <1>3. CASE n = 0
    <2> DEFINE g == [i \in 0 .. 0 |-> rows]
    <2>1. Trace(g, n, rows, events)
      BY <1>3 DEF Trace
    <2> HIDE DEF g
    <2> QED BY <2>1, <1>2
  <1>4. CASE n # 0
    <2>1. n \in Nat /\ n - 1 \in Nat /\ n - 1 \notin Bad
      BY <1>2, <1>4
    <2>2. PICK g : Trace(g, n - 1, rows, events)
      BY <2>1
    <2> DEFINE h == [i \in 0 .. n |-> IF i = n THEN Put(g[n - 1], events[n]) ELSE g[i]]
    <2>3. \A i \in 0 .. n - 1 : h[i] = g[i]
      BY <2>1
    <2>4. \A i \in 0 .. n - 1 : g[i] = IF i = 0 THEN rows ELSE Put(g[i - 1], events[i])
      BY <2>2 DEF Trace
    <2>5. ASSUME NEW i \in 0 .. n
          PROVE  h[i] = IF i = 0 THEN rows ELSE Put(h[i - 1], events[i])
      <3>1. CASE i = n
        BY <3>1, <2>1, <2>3, <1>4
      <3>2. CASE i # n
        <4>1. i \in 0 .. n - 1 /\ h[i] = g[i]
          BY <3>2, <2>1, <2>3
        <4>2. i # 0 => h[i - 1] = g[i - 1]
          BY <4>1, <2>1, <2>3
        <4> QED BY <4>1, <4>2, <2>4
      <3> QED BY <3>1, <3>2
    <2>6. Trace(h, n, rows, events)
      BY <2>5 DEF Trace
    <2> HIDE DEF h
    <2> QED BY <2>6, <1>2
  <1> QED BY <1>3, <1>4

\* Merge is the last value of its trace.
LEMMA MergeTrace ==
  ASSUME NEW rows, NEW S, NEW events \in Seq(S)
  PROVE  \E g : Trace(g, Len(events), rows, events) /\ Merge(rows, events) = g[Len(events)]
  <1> DEFINE G == CHOOSE g : g = [i \in 0 .. Len(events) |->
                                    IF i = 0 THEN rows ELSE Put(g[i - 1], events[i])]
  <1>1. \E g : g = [i \in 0 .. Len(events) |-> IF i = 0 THEN rows ELSE Put(g[i - 1], events[i])]
    <2>1. Len(events) \in Nat
      OBVIOUS
    <2>2. \E g : Trace(g, Len(events), rows, events)
      BY <2>1, TraceExists
    <2> QED BY <2>2 DEF Trace
  <1>2. Trace(G, Len(events), rows, events)
    BY <1>1 DEF Trace
  <1>3. Merge(rows, events) = G[Len(events)]
    BY DEF Merge
  <1> QED BY <1>2, <1>3

\* A table of rows as the page keeps it, and that it shows e or something newer.
TableOK(rows) ==
  /\ rows \in [Vehicles -> EventSet \cup {None}]
  /\ \A v \in Vehicles : rows[v] = None \/ rows[v].vin = v

Covers(rows, e) == rows[e.vin] # None /\ rows[e.vin].ts >= e.ts

LEMMA EventFields ==
  ASSUME NEW e \in EventSet
  PROVE  e # None /\ e.vin \in Vehicles /\ e.ts \in Nat /\ e.ts \in 1 .. MaxReports
  <1>1. e \in [vin : Vins, ts : Nat, fleet : Fleets]
    BY SameVehicles DEF EventSet
  <1> QED BY <1>1, ViewAssumption DEF EventSet

LEMMA NewerOK ==
  ASSUME NEW row \in EventSet \cup {None}, NEW e \in EventSet
  PROVE  /\ Newer(row, e) \in {row, e} /\ Newer(row, e) # None
         /\ Newer(row, e).ts >= e.ts
         /\ row # None => Newer(row, e).ts >= row.ts
  <1>1. e # None /\ e.ts \in Nat
    BY EventFields
  <1>2. row # None => row.ts \in Nat
    BY EventFields
  <1> QED BY <1>1, <1>2 DEF Newer

LEMMA PutOK ==
  ASSUME NEW rows, TableOK(rows), NEW e \in EventSet
  PROVE  /\ TableOK(Put(rows, e))
         /\ Covers(Put(rows, e), e)
         /\ \A f \in EventSet : Covers(rows, f) => Covers(Put(rows, e), f)
         /\ \A v \in Vehicles : Put(rows, e)[v] \in {rows[v], e}
  <1> DEFINE new == Newer(rows[e.vin], e)
  <1>1. e.vin \in Vehicles /\ rows[e.vin] \in EventSet \cup {None}
    BY EventFields DEF TableOK
  <1>2. /\ new \in {rows[e.vin], e} /\ new # None /\ new.ts >= e.ts
        /\ rows[e.vin] # None => new.ts >= rows[e.vin].ts
    BY <1>1, NewerOK
  <1>3. /\ DOMAIN Put(rows, e) = Vehicles
        /\ Put(rows, e) = [v \in Vehicles |-> IF v = e.vin THEN new ELSE rows[v]]
    BY <1>1 DEF Put, TableOK
  <1> HIDE DEF new
  <1>4. TableOK(Put(rows, e))
    BY <1>1, <1>2, <1>3 DEF TableOK
  <1>5. Covers(Put(rows, e), e)
    BY <1>1, <1>2, <1>3 DEF Covers
  <1>6. ASSUME NEW f \in EventSet, Covers(rows, f)
        PROVE  Covers(Put(rows, e), f)
    <2>1. f.vin \in Vehicles /\ f.ts \in Nat
      BY EventFields
    <2>2. CASE f.vin = e.vin
      <3>1. rows[e.vin] # None /\ rows[e.vin].ts >= f.ts /\ new.ts >= rows[e.vin].ts
        BY <1>2, <1>6, <2>2 DEF Covers
      <3>2. rows[e.vin].ts \in Nat /\ new.ts \in Nat
        BY <1>1, <1>2, <3>1, EventFields
      <3>3. new.ts >= f.ts
        BY <2>1, <3>1, <3>2
      <3> QED BY <1>2, <1>3, <2>1, <2>2, <3>3 DEF Covers
    <2>3. CASE f.vin # e.vin
      BY <1>3, <1>6, <2>1, <2>3 DEF Covers
    <2> QED BY <2>2, <2>3
  <1>7. \A v \in Vehicles : Put(rows, e)[v] \in {rows[v], e}
    BY <1>2, <1>3
  <1> QED BY <1>4, <1>5, <1>6, <1>7

\* After a merge every event of the batch, and what was covered before, is covered; a
\* row is the old one or an event of the batch.
LEMMA MergeOK ==
  ASSUME NEW rows, TableOK(rows), NEW events \in Seq(EventSet)
  PROVE  /\ TableOK(Merge(rows, events))
         /\ \A e \in Range(events) : Covers(Merge(rows, events), e)
         /\ \A f \in EventSet : Covers(rows, f) => Covers(Merge(rows, events), f)
         /\ \A v \in Vehicles : Merge(rows, events)[v] \in {rows[v]} \cup Range(events)
  <1> DEFINE N == Len(events)
  <1>1. PICK g : Trace(g, N, rows, events) /\ Merge(rows, events) = g[N]
    BY MergeTrace
  <1>2. N \in Nat /\ \A i \in 1 .. N : events[i] \in EventSet
    OBVIOUS
  <1>3. \A i \in 0 .. N : g[i] = IF i = 0 THEN rows ELSE Put(g[i - 1], events[i])
    BY <1>1 DEF Trace
  <1> DEFINE Good(n) == /\ TableOK(g[n])
                        /\ \A i \in 1 .. n : Covers(g[n], events[i])
                        /\ \A f \in EventSet : Covers(rows, f) => Covers(g[n], f)
                        /\ \A v \in Vehicles : g[n][v] = rows[v] \/ \E i \in 1 .. n : g[n][v] = events[i]
             Bad == {n \in 0 .. N : ~ Good(n)}
  <1>4. Bad = {}
    <2>1. SUFFICES ASSUME Bad # {} PROVE FALSE
      OBVIOUS
    <2>2. PICK n \in Bad : \A m \in Bad : n <= m
      <3>1. Bad \in SUBSET Nat
        OBVIOUS
      <3> HIDE DEF Bad
      <3> QED BY <2>1, <3>1, Least
    <2>3. n # 0
      <3>1. Good(0)
        BY <1>2, <1>3
      <3> QED BY <2>2, <3>1
    <2>4. n \in 1 .. N /\ n - 1 \in 0 .. N /\ n - 1 \notin Bad
      BY <1>2, <2>2, <2>3
    <2>5. Good(n - 1)
      BY <2>4
    <2>6. events[n] \in EventSet /\ g[n] = Put(g[n - 1], events[n])
      BY <1>2, <1>3, <2>4
    <2>7. /\ TableOK(g[n])
          /\ Covers(g[n], events[n])
          /\ \A f \in EventSet : Covers(g[n - 1], f) => Covers(g[n], f)
          /\ \A v \in Vehicles : g[n][v] \in {g[n - 1][v], events[n]}
      BY <2>5, <2>6, PutOK
    <2>8. ASSUME NEW i \in 1 .. n
          PROVE  Covers(g[n], events[i])
      <3>1. CASE i = n
        BY <2>7, <3>1
      <3>2. CASE i # n
        <4>1. i \in 1 .. n - 1 /\ i \in 1 .. N
          BY <1>2, <2>4, <3>2
        <4> QED BY <1>2, <2>5, <2>7, <4>1
      <3> QED BY <3>1, <3>2
    <2>9. ASSUME NEW v \in Vehicles
          PROVE  g[n][v] = rows[v] \/ \E i \in 1 .. n : g[n][v] = events[i]
      <3>1. g[n - 1][v] = rows[v] \/ \E i \in 1 .. n - 1 : g[n - 1][v] = events[i]
        BY <2>5
      <3>2. n \in 1 .. n /\ \A i \in 1 .. n - 1 : i \in 1 .. n
        BY <2>4
      <3> QED BY <2>7, <3>1, <3>2
    <2>10. Good(n)
      BY <2>5, <2>7, <2>8, <2>9
    <2> QED BY <2>2, <2>10
  <1>5. Good(N)
    BY <1>2, <1>4
  <1>6. \A i \in 1 .. N : i \in DOMAIN events
    OBVIOUS
  <1>7. \A e \in Range(events) : \E i \in 1 .. N : e = events[i]
    BY <1>2 DEF Range
  <1>8. \A i \in 1 .. N : events[i] \in Range(events)
    BY <1>6 DEF Range
  <1> HIDE DEF N
  <1> QED BY <1>1, <1>5, <1>7, <1>8

-----------------------------------------------------------------------------
(* The page: types *)

\* No step of the page, its user or the persister changes the canonical topic.
LEMMA CanonicalStays ==
  ASSUME ViewNext
  PROVE  canonical' = canonical
  BY DEF ViewNext, Move, Grant, Mount, Age, Index, Push, Receive, Flush, Stream, StreamAsks, StreamRefused,
     Register, StreamEnds, RefreshScope, Snapshot, LatestAsks, LatestFails, Search, ShowAnswer, sourceVars

\* An event that is indexed is an event of the topic.
LEMMA DocumentsType ==
  ASSUME TypeOK, NEW d \in Documents
  PROVE  d \in EventSet
  <1>1. PICK i \in 1 .. indexed : d = canonical[i]
    BY DEF Documents
  <1>2. canonical \in Seq(EventSet) /\ indexed \in 0 .. Len(canonical)
    BY DEF TypeOK, CarriersOK, PageTypes
  <1>3. Len(canonical) \in Nat /\ i \in 1 .. Len(canonical)
    BY <1>2
  <1> QED BY <1>1, <1>2, <1>3

LEMMA DocumentsIn ==
  ASSUME TypeOK, NEW d \in Documents
  PROVE  d \in Range(canonical)
  <1>1. PICK i \in 1 .. indexed : d = canonical[i]
    BY DEF Documents
  <1>2. canonical \in Seq(EventSet) /\ indexed \in 0 .. Len(canonical)
    BY DEF TypeOK, CarriersOK, PageTypes
  <1>3. Len(canonical) \in Nat /\ i \in DOMAIN canonical
    BY <1>2
  <1> QED BY <1>1, <1>3 DEF Range

\* Of the documents that match, one is the newest.
LEMMA NewestMatch ==
  ASSUME TypeOK, NEW v \in Vehicles, Matching(v) # {}
  PROVE  \E d \in Matching(v) : \A e \in Matching(v) : d.ts >= e.ts
  <1>1. \A d \in Matching(v) : d.ts \in Nat /\ d.ts \in 1 .. MaxReports
    BY DocumentsType, EventFields DEF Matching, Recent
  <1> DEFINE Ages == {MaxReports - d.ts : d \in Matching(v)}
  <1>2. Ages \in SUBSET Nat /\ Ages # {}
    BY <1>1, IngestAssumption
  <1>3. PICK n \in Ages : \A m \in Ages : n <= m
    <2> HIDE DEF Ages
    <2> QED BY <1>2, Least
  <1>4. PICK d \in Matching(v) : n = MaxReports - d.ts
    OBVIOUS
  <1>5. ASSUME NEW e \in Matching(v)
        PROVE  d.ts >= e.ts
    <2>1. MaxReports - d.ts <= MaxReports - e.ts
      BY <1>3, <1>4
    <2> QED BY <1>1, <2>1, IngestAssumption
  <1> QED BY <1>5

\* The vehicles that Search gives a row, and their rows.
LEMMA SearchRow ==
  ASSUME TypeOK, Search
  PROVE  \E list \in SUBSET Vehicles :
           /\ owed' = owed \cup UNION {Matching(v) : v \in list}
           /\ full' \in BOOLEAN
           /\ ~ full' => \A v \in Vehicles : Matching(v) # {} => v \in list
           /\ answer' \in [Vehicles -> EventSet \cup {None}]
           /\ \A v \in Vehicles \ list : answer'[v] = None
           /\ \A v \in list : /\ answer'[v] \in Matching(v) /\ answer'[v] \in EventSet
                              /\ answer'[v] # None
                              /\ \A e \in Matching(v) : answer'[v].ts >= e.ts
  <1> DEFINE row(v) == CHOOSE d \in Matching(v) : IsNewest(d, Matching(v))
  <1>1. PICK list \in Listed :
          /\ answer' = [v \in Vins |-> IF v \in list THEN row(v) ELSE None]
          /\ owed' = owed \cup UNION {Matching(v) : v \in list}
          /\ full' = (\E v \in Vins \ list : Matching(v) # {})
    BY DEF Search
  <1>2. /\ list \subseteq Vehicles
        /\ \A v \in list : Matching(v) # {}
        /\ ~ full' => \A v \in Vehicles : Matching(v) # {} => v \in list
    BY <1>1, SameVehicles DEF Listed
  <1>3. ASSUME NEW v \in list
        PROVE  row(v) \in Matching(v) /\ \A e \in Matching(v) : row(v).ts >= e.ts
    <2>1. \E d \in Matching(v) : IsNewest(d, Matching(v))
      BY <1>2, NewestMatch DEF IsNewest
    <2>2. row(v) \in Matching(v) /\ IsNewest(row(v), Matching(v))
      BY <2>1
    <2> HIDE DEF row
    <2> QED BY <2>2 DEF IsNewest
  <1>4. \A v \in Vehicles : \A d \in Matching(v) : d \in EventSet /\ d # None
    BY DocumentsType, EventFields DEF Matching, Recent
  <1> HIDE DEF row
  <1>5. \A v \in Vehicles : answer'[v] = IF v \in list THEN row(v) ELSE None
    BY <1>1, SameVehicles
  <1>6. \A v \in Vehicles : answer'[v] \in EventSet \cup {None}
    BY <1>2, <1>3, <1>4, <1>5
  <1>7. answer' \in [Vehicles -> EventSet \cup {None}]
    BY <1>1, <1>6, SameVehicles
  <1>8. full' \in BOOLEAN
    BY <1>1
  <1> QED BY <1>1, <1>2, <1>3, <1>4, <1>5, <1>7, <1>8

\* The page when a snapshot arrives: a row of the snapshot is merged into the page's row.
LEMMA ShowAnswerRows ==
  ASSUME TypeOK, RowsOK, ShowAnswer
  PROVE  /\ TableOK(shown')
         /\ \A v \in Vehicles : shown'[v] \in {shown[v], answer[v]}
         /\ \A v \in Vehicles : answer[v] # None => shown'[v] # None /\ shown'[v].ts >= answer[v].ts
         /\ \A e \in EventSet : Covers(shown, e) => Covers(shown', e)
  <1>1. \A v \in Vehicles : shown[v] \in EventSet \cup {None} /\ answer[v] \in EventSet \cup {None}
    BY DEF TypeOK, PageTypes
  <1>2. shown' = [v \in Vehicles |-> IF answer[v] = None THEN shown[v] ELSE Newer(shown[v], answer[v])]
    BY SameVehicles DEF ShowAnswer
  <1>3. ASSUME NEW v \in Vehicles
        PROVE  /\ shown'[v] \in {shown[v], answer[v]}
               /\ answer[v] # None => shown'[v] # None /\ shown'[v].ts >= answer[v].ts
               /\ shown[v] # None => shown'[v] # None /\ shown'[v].ts >= shown[v].ts
    <2>1. CASE answer[v] = None
      <3>1. shown'[v] = shown[v]
        BY <1>2, <2>1
      <3>2. shown[v] # None => shown[v].ts \in Nat
        BY <1>1, EventFields
      <3> QED BY <2>1, <3>1, <3>2
    <2>2. CASE answer[v] # None
      <3>1. shown'[v] = Newer(shown[v], answer[v])
        BY <1>2, <2>2
      <3> QED BY <1>1, <2>2, <3>1, NewerOK
    <2> QED BY <2>1, <2>2
  <1>4. TableOK(shown')
    BY <1>1, <1>2, <1>3 DEF TableOK, RowsOK
  <1>5. ASSUME NEW e \in EventSet, Covers(shown, e)
        PROVE  Covers(shown', e)
    <2>1. e.vin \in Vehicles /\ e.ts \in Nat
      BY EventFields
    <2>2. /\ shown[e.vin] # None /\ shown[e.vin].ts >= e.ts
          /\ shown'[e.vin] # None /\ shown'[e.vin].ts >= shown[e.vin].ts
      BY <1>3, <1>5, <2>1 DEF Covers
    <2>3. shown[e.vin].ts \in Nat /\ shown'[e.vin].ts \in Nat
      BY <1>1, <1>4, <2>1, <2>2, EventFields DEF TableOK
    <2> QED BY <2>1, <2>2, <2>3 DEF Covers
  <1> QED BY <1>3, <1>4, <1>5

\* The page when its timer fires.
LEMMA FlushRows ==
  ASSUME TypeOK, RowsOK, Flush
  PROVE  /\ TableOK(shown')
         /\ \A e \in Range(pending) : Covers(shown', e)
         /\ \A e \in EventSet : Covers(shown, e) => Covers(shown', e)
         /\ \A v \in Vehicles : shown'[v] \in {shown[v]} \cup Range(pending)
  <1>1. TableOK(shown) /\ pending \in Seq(EventSet)
    BY DEF TypeOK, PageTypes, RowsOK, TableOK
  <1>2. shown' = Merge(shown, pending)
    BY DEF Flush
  <1> QED BY <1>1, <1>2, MergeOK

LEMMA RangeType ==
  ASSUME NEW S, NEW s \in Seq(S)
  PROVE  Range(s) \subseteq S
  BY DEF Range

\* The event that Push takes from the topic.
LEMMA PushType ==
  ASSUME TypeOK, Push
  PROVE  canonical[pushed + 1] \in EventSet
  <1>1. canonical \in Seq(EventSet) /\ pushed \in 0 .. Len(canonical) /\ pushed < Len(canonical)
    BY DEF TypeOK, CarriersOK, PageTypes, Push
  <1>2. pushed + 1 \in 1 .. Len(canonical)
    BY <1>1
  <1> QED BY <1>1, <1>2

LEMMA CanonicalTypes ==
  ASSUME TypeOK, NEW i \in DOMAIN canonical
  PROVE  canonical[i] \in EventSet
  BY DEF TypeOK, CarriersOK

LEMMA PageTypesView ==
  ASSUME TypeOK, RowsOK, ViewNext
  PROVE  PageTypes'
  <1>0. /\ PageTypes /\ canonical' = canonical /\ Len(canonical) \in Nat
        /\ wire \in Seq(EventSet) /\ pending \in Seq(EventSet)
    BY CanonicalStays DEF TypeOK, CarriersOK, PageTypes
  <1>1. CASE Index
    BY <1>0, <1>1 DEF Index, PageTypes, snapshotVars, pageVars
  <1>2. CASE Push
    <2>1. pushed' = pushed + 1 /\ pushed < Len(canonical) /\ UNCHANGED <<sourceVars, stream, snapshotVars, pageVars>>
      BY <1>2 DEF Push
    <2>2. pushed' \in 0 .. Len(canonical)
      BY <1>0, <2>1 DEF PageTypes
    <2>3. Append(wire, canonical[pushed + 1]) \in Seq(EventSet)
      BY <1>0, <1>2, PushType, RangeOfAppend
    <2>4. wire' \in Seq(EventSet) /\ owed' \subseteq EventSet
      BY <1>0, <1>2, <2>3, PushType DEF Push, PageTypes
    <2> QED BY <1>0, <2>1, <2>2, <2>4 DEF PageTypes, sourceVars, snapshotVars, pageVars
  <1>3. CASE Receive
    <2>1. wire' = Tail(wire) /\ pending' = Append(pending, Head(wire)) /\ wire # << >>
          /\ UNCHANGED <<sourceVars, pushed, stream, snapshotVars, shown, got, owed>>
      BY <1>3 DEF Receive
    <2>2. wire' \in Seq(EventSet) /\ Head(wire) \in EventSet
      BY <1>0, <2>1, RangeOfTail
    <2>3. pending' \in Seq(EventSet)
      BY <1>0, <2>1, <2>2, RangeOfAppend
    <2> QED BY <1>0, <2>1, <2>2, <2>3 DEF PageTypes, sourceVars, snapshotVars
  <1>4. CASE Flush
    <2>1. /\ got' = got \cup Range(pending) /\ pending' = << >>
          /\ UNCHANGED <<sourceVars, pushed, stream, wire, snapshotVars, owed>>
      BY <1>4 DEF Flush
    <2>2. shown' \in [Vehicles -> EventSet \cup {None}]
      BY <1>4, FlushRows DEF TableOK
    <2>3. got' \subseteq EventSet /\ pending' \in Seq(EventSet)
      BY <1>0, <2>1, RangeType DEF PageTypes
    <2> QED BY <1>0, <2>1, <2>2, <2>3 DEF PageTypes, sourceVars, snapshotVars
  <1>5. CASE StreamEnds
    <2>1. /\ wire' = << >> /\ owed' \subseteq owed /\ stream' = "down"
          /\ UNCHANGED <<sourceVars, pushed, snapshotVars, pageVars>>
      BY <1>5 DEF StreamEnds
    <2> QED BY <1>0, <2>1 DEF PageTypes, sourceVars, snapshotVars, pageVars
  <1>6. CASE Search
    <2>1. /\ latest' = "answered" /\ missed' \subseteq MaySee
          /\ UNCHANGED <<sourceVars, pushed, stream, wire, pageVars>>
      BY <1>6 DEF Search
    <2>2. PICK list \in SUBSET Vehicles :
            /\ owed' = owed \cup UNION {Matching(v) : v \in list}
            /\ full' \in BOOLEAN /\ answer' \in [Vehicles -> EventSet \cup {None}]
      BY <1>6, SearchRow
    <2>3. owed' \subseteq EventSet
      BY <1>0, <2>2, DocumentsType DEF PageTypes, Matching, Recent
    <2>4. missed' \subseteq EventSet
      BY <2>1, DocumentsType DEF MaySee, Recent
    <2> QED BY <1>0, <2>1, <2>2, <2>3, <2>4 DEF PageTypes, sourceVars, pageVars
  <1>7. CASE ShowAnswer
    <2>1. /\ latest' = "done" /\ answer' = [v \in Vehicles |-> None] /\ got' = got \cup Rows
          /\ UNCHANGED <<sourceVars, pushed, stream, wire, missVars, pending, owed>>
      BY <1>7, SameVehicles DEF ShowAnswer, NoRows
    <2>2. shown' \in [Vehicles -> EventSet \cup {None}]
      BY <1>7, ShowAnswerRows DEF TableOK
    <2>3. got' \subseteq EventSet
      BY <1>0, <2>1, SameVehicles DEF Rows, PageTypes
    <2> QED BY <1>0, <2>1, <2>2, <2>3 DEF PageTypes, sourceVars
  <1>8. CASE Mount \/ StreamAsks \/ StreamRefused \/ Register \/ RefreshScope \/ LatestAsks \/ LatestFails
    BY <1>0, <1>8 DEF Mount, StreamAsks, StreamRefused, Register, RefreshScope, LatestAsks, LatestFails,
       PageTypes, sourceVars, snapshotVars, pageVars
  <1>9. CASE \/ \E v \in Vins, f \in Fleets : Move(v, f)
             \/ \E s \in Scopes : Grant(s)
    BY <1>0, <1>9, SameVehicles DEF Move, Grant, PageTypes, sourceVars, snapshotVars, pageVars
  <1>10. CASE Age
    <2>1. /\ horizon' = horizon + 1
          /\ UNCHANGED <<fleet, left, canonical, indexed, pushed, stream, wire, snapshotVars, pageVars, owed>>
      BY <1>10 DEF Age
    <2>2. horizon' \in 0 .. MaxReports
      <3>1. PICK i \in DOMAIN canonical : canonical[i].ts > horizon
        BY <1>10 DEF Age
      <3>2. canonical[i].ts \in 1 .. MaxReports
        BY <1>0, <3>1, CanonicalTypes DEF EventSet
      <3> QED BY <1>0, <2>1, <3>1, <3>2, IngestAssumption DEF PageTypes
    <2> QED BY <1>0, <2>1, <2>2 DEF PageTypes, snapshotVars, pageVars
  <1> QED BY <1>1, <1>2, <1>3, <1>4, <1>5, <1>6, <1>7, <1>8, <1>9, <1>10 DEF ViewNext, Stream, Snapshot

\* What only lengthens the canonical topic leaves the page's types alone.
LEMMA PageTypesOthers ==
  ASSUME TypeOK, canonical' \in Seq(EventSet), Len(canonical) <= Len(canonical'),
         UNCHANGED <<fleet, left, horizon, indexed, pushed, stream, latest, answer, missVars, shown, wire, pending, got, owed>>
  PROVE  PageTypes'
  <1>1. Len(canonical) \in Nat /\ Len(canonical') \in Nat
    BY DEF TypeOK, CarriersOK
  <1>2. indexed \in 0 .. Len(canonical') /\ pushed \in 0 .. Len(canonical')
    BY <1>1 DEF TypeOK, PageTypes
  <1> QED BY <1>2 DEF TypeOK, PageTypes

LEMMA TypeStep ==
  ASSUME TypeOK, IInv, IInv', RowsOK, [Next]_vars
  PROVE  TypeOK'
  <1>0. CarriersOK' /\ CarriersOK /\ PageTypes /\ Len(canonical) \in Nat
    BY DEF IInv, TypeOK, CarriersOK
  <1>1. CASE IngestNext /\ UNCHANGED viewVars
    <2>1. UNCHANGED <<fleet, left, canonical, horizon, indexed, pushed, stream, latest, answer, missVars, shown, wire, pending, got, owed>>
      BY <1>1 DEF viewVars, sourceVars, snapshotVars, pageVars
    <2>2. PageTypes'
      BY <1>0, <2>1, PageTypesOthers DEF CarriersOK
    <2>3. online' \subseteq Vehicles
      BY <1>1 DEF TypeOK, IngestNext, Report, SkipReport, Repeat, Connected, ConnectionLost, Accept, RuleFails, Invoke,
         Produced, ProduceFails
    <2>4. again' \subseteq Vehicles
      BY <1>1 DEF TypeOK, IngestNext, Report, SkipReport, Repeat, Connected, ConnectionLost, Accept, RuleFails, Invoke,
         Produced, ProduceFails
    <2>5. again' \subseteq {v \in Vehicles : taken'[v] > 0}
      BY <2>4 DEF IInv
    <2> QED BY <1>0, <2>2, <2>3, <2>5 DEF TypeOK
  <1>2. CASE ViewNext /\ UNCHANGED ingestVars
    <2>1. PageTypes'
      BY <1>2, PageTypesView
    <2> QED BY <1>0, <1>2, <2>1 DEF TypeOK, ingestVars
  <1>3. CASE Process
    <2>1. UNCHANGED <<fleet, left, horizon, indexed, pushed, stream, latest, answer, missVars, shown, wire, pending, got, owed>>
      BY <1>3 DEF Process, Forward, viewVars, sourceVars, snapshotVars, pageVars
    <2>2. canonical' = canonical \/ \E e : canonical' = Append(canonical, e)
      BY <1>3 DEF Process, Forward, viewVars, sourceVars
    <2>3. Len(canonical) <= Len(canonical')
      BY <1>0, <2>2 DEF CarriersOK
    <2>4. PageTypes'
      BY <1>0, <2>1, <2>3, PageTypesOthers DEF CarriersOK
    <2>5. UNCHANGED <<online, again, taken>>
      BY <1>3 DEF Process
    <2> QED BY <1>0, <2>4, <2>5 DEF TypeOK
  <1>4. CASE UNCHANGED vars
    <2>1. UNCHANGED <<fleet, left, canonical, horizon, indexed, pushed, stream, latest, answer, missVars, shown, wire, pending, got, owed>>
      BY <1>4 DEF vars, viewVars, sourceVars, snapshotVars, pageVars
    <2>2. PageTypes'
      BY <1>0, <2>1, PageTypesOthers DEF CarriersOK
    <2> QED BY <1>0, <1>4, <2>2 DEF TypeOK, vars, ingestVars
  <1> QED BY <1>1, <1>2, <1>3, <1>4 DEF Next

-----------------------------------------------------------------------------
(* The page: what it shows *)

Allowed(e) == \E s \in held : Allows(s, e)

Stamped(e) == e.fleet \in {fleet[e.vin]} \cup left[e.vin]

\* An event of a vehicle that the snapshot misses, and why.
Explained(e) == full \/ e.fleet \in left[e.vin]

\* A scope the user has had, or none, allows what a scope of held allows.
LEMMA AllowedByScope ==
  ASSUME NEW e, NEW s \in held \cup {{}}, Allows(s, e)
  PROVE  Allowed(e)
  BY DEF Allowed, Allows

\* The events on their way to the page, or merged.
OnTheWay == got \cup Range(wire) \cup Range(pending) \cup Rows

LEMMA RowsMembers ==
  ASSUME NEW v \in Vehicles, answer[v] # None
  PROVE  answer[v] \in Rows
  BY SameVehicles DEF Rows

\* The parts of PageInv, and what it says of an event that is owed.
Seen(e) ==
  \/ Covers(shown, e)
  \/ e \in Range(wire) \cup Range(pending)
  \/ latest = "answered" /\ Covers(answer, e)

LEMMA PageParts ==
  ASSUME PageInv
  PROVE  /\ \A e \in OnTheWay : Allowed(e)
         /\ \A e \in got : Covers(shown, e)
         /\ \A v \in Vehicles : shown[v] = None \/ (shown[v] \in got /\ Allowed(shown[v]))
         /\ \A e \in owed : Seen(e)
         /\ \A e \in missed : Explained(e)
         /\ \A e \in Range(canonical) \cup OnTheWay : Stamped(e)
  <1>1. \A e \in OnTheWay : Allowed(e)
    BY DEF PageInv, ScopesOK, OnTheWay, Allowed
  <1>2. \A v \in Vehicles : shown[v] = None \/ (shown[v] \in got /\ Allowed(shown[v]))
    BY <1>1 DEF PageInv, ShownIsNewest, OnTheWay
  <1> QED BY <1>1, <1>2
          DEF PageInv, ShownIsNewest, NothingUnseen, StampsKnown, OnTheWay, Covers, Seen, Explained, Stamped

\* How to establish PageInv after a step.
LEMMA PageFrom ==
  ASSUME RowsOK',
         stream' = "none" => held' = {} /\ latest' = "none",
         stream' # "none" => granted' \in held',
         scope' \in held' \cup {{}}, asked' \in held' \cup {{}},
         \A e \in OnTheWay' : Allowed(e)',
         \A e \in got' : Covers(shown', e),
         \A v \in Vehicles : shown'[v] = None \/ shown'[v] \in got',
         \A e \in owed' : Seen(e)',
         \A e \in missed' : Explained(e)',
         \A e \in Range(canonical') \cup OnTheWay' : Stamped(e)'
  PROVE  PageInv'
  <1>1. ScopesOK'
    BY DEF ScopesOK, OnTheWay, Allowed
  <1>2. ShownIsNewest'
    BY DEF ShownIsNewest, Covers
  <1>3. got' \subseteq OnTheWay'
    BY DEF OnTheWay
  <1>4. ShownWasGranted'
    <2> SUFFICES ASSUME NEW v \in Vehicles, shown'[v] # None
                 PROVE  \E s \in held' : \/ {v, fleet'[v]} \cap s # {}
                                         \/ shown'[v].fleet \in left'[v] \cap s
      BY DEF ShownWasGranted
    <2>1. shown'[v] \in OnTheWay' /\ shown'[v].vin = v
      BY <1>3 DEF RowsOK
    <2>2. PICK s \in held' : {shown'[v].fleet, v} \cap s # {}
      BY <2>1 DEF Allowed, Allows
    <2>3. shown'[v].fleet \in {fleet'[v]} \cup left'[v]
      BY <2>1 DEF Stamped
    <2> QED BY <2>2, <2>3
  <1>5. NothingUnseen'
    BY DEF NothingUnseen, Seen, Covers, Explained
  <1>6. StampsKnown'
    BY DEF StampsKnown, Stamped, OnTheWay
  <1> QED BY <1>1, <1>2, <1>4, <1>5, <1>6 DEF PageInv

\* While vehicles stay and the topic does, what is taken from the topic is stamped.
LEMMA StampsStay ==
  ASSUME PageInv, UNCHANGED <<fleet, left, canonical>>,
         OnTheWay' \subseteq OnTheWay \cup Range(canonical)
  PROVE  \A e \in Range(canonical') \cup OnTheWay' : Stamped(e)'
  BY PageParts DEF Stamped

LEMMA MissedStays ==
  ASSUME PageInv, UNCHANGED <<left, missVars>>
  PROVE  \A e \in missed' : Explained(e)'
  BY PageParts DEF Explained

\* A step that moves no event and keeps the scopes in order.
LEMMA PageCalm ==
  ASSUME PageInv, UNCHANGED <<wire, pageVars, answer, owed, missVars>>, held \subseteq held',
         \A e : Stamped(e) => Stamped(e)',
         \A e \in Range(canonical') : e \in Range(canonical) \/ Stamped(e)',
         \A e : e.fleet \in left[e.vin] => e.fleet \in left'[e.vin],
         latest = "answered" => latest' = "answered",
         stream' = "none" => held' = {} /\ latest' = "none",
         stream' # "none" => granted' \in held',
         scope' \in held' \cup {{}}, asked' \in held' \cup {{}}
  PROVE  PageInv'
  <1>1. RowsOK'
    BY DEF PageInv, RowsOK, pageVars
  <1>2. \A e \in OnTheWay' : Allowed(e)'
    BY PageParts DEF OnTheWay, Allowed, Rows, pageVars
  <1>3. \A e \in got' : Covers(shown', e)
    BY PageParts DEF pageVars
  <1>4. \A v \in Vehicles : shown'[v] = None \/ shown'[v] \in got'
    BY PageParts DEF pageVars
  <1>5. \A e \in owed' : Seen(e)'
    BY PageParts DEF Seen, Covers, pageVars
  <1>6. OnTheWay' = OnTheWay
    BY DEF OnTheWay, Rows, pageVars
  <1>7. \A e \in Range(canonical') \cup OnTheWay' : Stamped(e)'
    BY <1>6, PageParts
  <1>8. \A e \in missed' : Explained(e)'
    BY PageParts DEF Explained
  <1> QED BY <1>1, <1>2, <1>3, <1>4, <1>5, <1>7, <1>8, PageFrom

\* A step that moves no event and no vehicle either.
LEMMA PageQuiet ==
  ASSUME PageInv, UNCHANGED <<fleet, left, canonical>>,
         UNCHANGED <<wire, pageVars, answer, owed, missVars>>, held \subseteq held',
         latest = "answered" => latest' = "answered",
         stream' = "none" => held' = {} /\ latest' = "none",
         stream' # "none" => granted' \in held',
         scope' \in held' \cup {{}}, asked' \in held' \cup {{}}
  PROVE  PageInv'
  BY PageCalm DEF Stamped

LEMMA PageMove ==
  ASSUME TypeOK, PageInv, NEW v \in Vins, NEW f \in Fleets, Move(v, f)
  PROVE  PageInv'
  <1>0. /\ stream = "none" => held = {} /\ latest = "none"
        /\ stream # "none" => granted \in held
        /\ scope \in held \cup {{}} /\ asked \in held \cup {{}}
    BY DEF PageInv, ScopesOK
  <1>1. /\ fleet' = [fleet EXCEPT ![v] = f] /\ left' = [left EXCEPT ![v] = @ \cup {fleet[v]}]
        /\ UNCHANGED <<canonical, stream, scope, wire, snapshotVars, pageVars, owed, granted, held>>
    BY DEF Move
  <1>2. /\ v \in Vehicles
        /\ fleet \in [Vehicles -> Fleets] /\ left \in [Vehicles -> SUBSET Fleets]
    BY SameVehicles DEF TypeOK, PageTypes
  <1>3. /\ fleet'[v] = f /\ left'[v] = left[v] \cup {fleet[v]}
        /\ \A w : w # v => fleet'[w] = fleet[w] /\ left'[w] = left[w]
    BY <1>1, <1>2
  <1>4. \A e : Stamped(e) => Stamped(e)'
    BY <1>3 DEF Stamped
  <1>5. \A e : e.fleet \in left[e.vin] => e.fleet \in left'[e.vin]
    BY <1>3
  <1> QED BY <1>0, <1>1, <1>4, <1>5, PageCalm DEF snapshotVars

LEMMA PageScopeSteps ==
  ASSUME PageInv,
         \/ \E s \in Scopes : Grant(s)
         \/ Mount \/ Age \/ Index \/ StreamAsks \/ StreamRefused \/ Register \/ RefreshScope
         \/ LatestAsks \/ LatestFails
  PROVE  PageInv'
  <1>0. /\ stream = "none" => held = {} /\ latest = "none"
        /\ stream # "none" => granted \in held
        /\ scope \in held \cup {{}} /\ asked \in held \cup {{}}
    BY DEF PageInv, ScopesOK
  <1>1. ASSUME NEW s \in Scopes, Grant(s)
        PROVE  PageInv'
    BY <1>0, <1>1, PageQuiet DEF Grant, sourceVars, snapshotVars
  <1>2. CASE Mount
    BY <1>0, <1>2, PageQuiet DEF Mount, sourceVars
  <1>3. CASE Age \/ Index \/ StreamRefused \/ Register
    BY <1>0, <1>3, PageQuiet DEF Age, Index, StreamRefused, Register, sourceVars, snapshotVars, authVars
  <1>4. CASE StreamAsks \/ RefreshScope
    BY <1>0, <1>4, PageQuiet DEF StreamAsks, RefreshScope, sourceVars, snapshotVars, authVars
  <1>5. CASE LatestAsks \/ LatestFails
    BY <1>0, <1>5, PageQuiet DEF LatestAsks, LatestFails, sourceVars, authVars
  <1> QED BY <1>1, <1>2, <1>3, <1>4, <1>5

\* The scopes and the requests of the page stay what they are.
ScopesStay ==
  /\ UNCHANGED <<scope, held, granted>>
  /\ stream' = stream /\ asked' \in {asked, {}}
  /\ stream = "none" => latest' = latest

LEMMA ScopesKept ==
  ASSUME PageInv, ScopesStay
  PROVE  /\ stream' = "none" => held' = {} /\ latest' = "none"
         /\ stream' # "none" => granted' \in held'
         /\ scope' \in held' \cup {{}} /\ asked' \in held' \cup {{}}
         /\ \A e : Allowed(e) => Allowed(e)'
  BY DEF PageInv, ScopesOK, ScopesStay, Allowed

LEMMA PagePush ==
  ASSUME TypeOK, PageInv, Push
  PROVE  PageInv'
  <1> DEFINE e0 == canonical[pushed + 1]
             Passes == stream = "live" /\ Allows(scope, e0)
  <1>0. UNCHANGED <<sourceVars, stream, scope, snapshotVars, pageVars, authVars>>
    BY DEF Push
  <1>1. IF Passes THEN wire' = Append(wire, e0) /\ owed' = owed \cup {e0} ELSE UNCHANGED <<wire, owed>>
    BY DEF Push
  <1>2. e0 \in EventSet /\ wire \in Seq(EventSet)
    BY PushType DEF TypeOK, PageTypes
  <1>3. scope \in held \cup {{}}
    BY DEF PageInv, ScopesOK
  <1>4. Passes => Allowed(e0)
    BY <1>3, AllowedByScope
  <1> HIDE DEF e0
  <1>5. Passes => Range(wire') = Range(wire) \cup {e0}
    <2>1. Range(Append(wire, e0)) = Range(wire) \cup {e0}
      BY <1>2, RangeOfAppend
    <2> QED BY <1>1, <2>1
  <1>6. ScopesStay
    BY <1>0 DEF ScopesStay, snapshotVars, authVars
  <1>7. RowsOK'
    BY <1>0 DEF PageInv, RowsOK, pageVars, snapshotVars
  <1>8. ASSUME NEW e \in OnTheWay'
        PROVE  Allowed(e)'
    <2>1. e \in OnTheWay \/ (Passes /\ e = e0)
      BY <1>0, <1>1, <1>5, <1>8 DEF OnTheWay, Rows, pageVars, snapshotVars
    <2> QED BY <1>4, <1>6, <2>1, PageParts, ScopesKept
  <1>9. /\ \A e \in got' : Covers(shown', e)
        /\ \A v \in Vehicles : shown'[v] = None \/ shown'[v] \in got'
    BY <1>0, PageParts DEF pageVars
  <1>10. ASSUME NEW e \in owed'
         PROVE  Seen(e)'
    <2>1. CASE e \in owed
      BY <1>0, <1>1, <1>5, <2>1, PageParts DEF Seen, Covers, pageVars, snapshotVars
    <2>2. CASE e \notin owed
      BY <1>1, <1>5, <1>10, <2>2 DEF Seen
    <2> QED BY <2>1, <2>2
  <1>11. OnTheWay' \subseteq OnTheWay \cup Range(canonical)
    <2>1. e0 \in Range(canonical)
      <3>1. pushed + 1 \in DOMAIN canonical
        BY DEF Push, TypeOK, CarriersOK, PageTypes
      <3> QED BY <3>1 DEF Range, e0
    <2> QED BY <1>0, <1>1, <1>5, <2>1 DEF OnTheWay, Rows, pageVars, snapshotVars
  <1>12. \A e \in Range(canonical') \cup OnTheWay' : Stamped(e)'
    BY <1>0, <1>11, StampsStay DEF sourceVars
  <1>13. \A e \in missed' : Explained(e)'
    BY <1>0, MissedStays DEF sourceVars, snapshotVars
  <1> QED BY <1>6, <1>7, <1>8, <1>9, <1>10, <1>12, <1>13, PageFrom, ScopesKept

LEMMA PageReceive ==
  ASSUME TypeOK, PageInv, Receive
  PROVE  PageInv'
  <1>0. /\ UNCHANGED <<sourceVars, pushed, stream, scope, snapshotVars, shown, got, owed, authVars>>
        /\ pending' = Append(pending, Head(wire)) /\ wire' = Tail(wire) /\ wire # << >>
    BY DEF Receive
  <1>1. wire \in Seq(EventSet) /\ pending \in Seq(EventSet)
    BY DEF TypeOK, PageTypes
  <1>2. Head(wire) \in EventSet /\ Range(wire) = Range(wire') \cup {Head(wire)}
    BY <1>0, <1>1, RangeOfTail
  <1>3. Range(pending') = Range(pending) \cup {Head(wire)}
    BY <1>0, <1>1, <1>2, RangeOfAppend
  <1>4. Range(wire') \cup Range(pending') = Range(wire) \cup Range(pending)
    BY <1>2, <1>3
  <1>5. ScopesStay
    BY <1>0 DEF ScopesStay, snapshotVars, authVars
  <1>6. RowsOK'
    BY <1>0 DEF PageInv, RowsOK, snapshotVars
  <1>7. OnTheWay' = OnTheWay
    BY <1>0, <1>4 DEF OnTheWay, Rows, snapshotVars
  <1>8. \A e \in owed' : Seen(e)'
    BY <1>0, <1>4, PageParts DEF Seen, Covers, snapshotVars
  <1>9. /\ \A e \in got' : Covers(shown', e)
        /\ \A v \in Vehicles : shown'[v] = None \/ shown'[v] \in got'
    BY <1>0, PageParts
  <1>10. \A e \in OnTheWay' : Allowed(e)'
    BY <1>5, <1>7, PageParts, ScopesKept
  <1>11. \A e \in Range(canonical') \cup OnTheWay' : Stamped(e)'
    BY <1>0, <1>7, StampsStay DEF sourceVars
  <1>12. \A e \in missed' : Explained(e)'
    BY <1>0, MissedStays DEF sourceVars, snapshotVars
  <1> QED BY <1>5, <1>6, <1>8, <1>9, <1>10, <1>11, <1>12, PageFrom, ScopesKept

LEMMA PageStreamEnds ==
  ASSUME TypeOK, PageInv, StreamEnds
  PROVE  PageInv'
  <1>0. /\ UNCHANGED <<sourceVars, pushed, snapshotVars, pageVars, authVars>>
        /\ stream # "none" /\ stream' = "down" /\ scope' = {} /\ wire' = << >>
        /\ owed' = owed \ Range(wire)
    BY DEF StreamEnds
  <1>1. Range(wire') = {}
    BY <1>0 DEF Range
  <1>2. RowsOK'
    BY <1>0 DEF PageInv, RowsOK, snapshotVars, pageVars
  <1>3. granted' \in held' /\ asked' \in held' \cup {{}}
    BY <1>0 DEF PageInv, ScopesOK, snapshotVars, authVars
  <1>4. \A e \in OnTheWay' : Allowed(e)'
    BY <1>0, <1>1, PageParts DEF OnTheWay, Allowed, Rows, snapshotVars, pageVars, authVars
  <1>5. /\ \A e \in got' : Covers(shown', e)
        /\ \A v \in Vehicles : shown'[v] = None \/ shown'[v] \in got'
    BY <1>0, PageParts DEF pageVars
  <1>6. \A e \in owed' : Seen(e)'
    BY <1>0, PageParts DEF Seen, Covers, pageVars, snapshotVars
  <1>7. OnTheWay' \subseteq OnTheWay
    BY <1>0, <1>1 DEF OnTheWay, Rows, snapshotVars, pageVars
  <1>8. \A e \in Range(canonical') \cup OnTheWay' : Stamped(e)'
    BY <1>0, <1>7, StampsStay DEF sourceVars
  <1>9. \A e \in missed' : Explained(e)'
    BY <1>0, MissedStays DEF sourceVars, snapshotVars
  <1> QED BY <1>0, <1>2, <1>3, <1>4, <1>5, <1>6, <1>8, <1>9, PageFrom

LEMMA PageFlush ==
  ASSUME TypeOK, PageInv, Flush
  PROVE  PageInv'
  <1>0. /\ UNCHANGED <<sourceVars, pushed, stream, scope, wire, snapshotVars, owed, authVars>>
        /\ got' = got \cup Range(pending) /\ pending' = << >>
    BY DEF Flush
  <1>1. /\ TableOK(shown')
        /\ \A e \in Range(pending) : Covers(shown', e)
        /\ \A e \in EventSet : Covers(shown, e) => Covers(shown', e)
        /\ \A v \in Vehicles : shown'[v] \in {shown[v]} \cup Range(pending)
    BY FlushRows DEF PageInv
  <1>2. Range(pending') = {} /\ got \subseteq EventSet /\ owed \subseteq EventSet
    BY <1>0 DEF Range, TypeOK, PageTypes
  <1>3. ScopesStay
    BY <1>0 DEF ScopesStay, snapshotVars, authVars
  <1>4. RowsOK'
    BY <1>0, <1>1 DEF PageInv, RowsOK, TableOK, snapshotVars
  <1>5. OnTheWay' = OnTheWay
    BY <1>0, <1>2 DEF OnTheWay, Rows, snapshotVars
  <1>6. \A e \in OnTheWay' : Allowed(e)'
    BY <1>3, <1>5, PageParts, ScopesKept
  <1>7. \A e \in got' : Covers(shown', e)
    BY <1>0, <1>1, <1>2, PageParts
  <1>8. \A v \in Vehicles : shown'[v] = None \/ shown'[v] \in got'
    BY <1>0, <1>1, PageParts
  <1>9. ASSUME NEW e \in owed'
        PROVE  Seen(e)'
    <2>1. e \in EventSet /\ Seen(e)
      BY <1>0, <1>2, PageParts
    <2> QED BY <1>0, <1>1, <2>1 DEF Seen, Covers, snapshotVars
  <1>10. \A e \in Range(canonical') \cup OnTheWay' : Stamped(e)'
    BY <1>0, <1>5, StampsStay DEF sourceVars
  <1>11. \A e \in missed' : Explained(e)'
    BY <1>0, MissedStays DEF sourceVars, snapshotVars
  <1> QED BY <1>3, <1>4, <1>6, <1>7, <1>8, <1>9, <1>10, <1>11, PageFrom, ScopesKept

LEMMA PageSearch ==
  ASSUME TypeOK, PageInv, Search
  PROVE  PageInv'
  <1>0. /\ UNCHANGED <<sourceVars, pushed, stream, scope, wire, pageVars, authVars>>
        /\ latest = "asked" /\ latest' = "answered" /\ asked' = {}
        /\ missed' = {d \in MaySee : answer'[d.vin] = None \/ answer'[d.vin].ts < d.ts}
    BY DEF Search
  <1>1. PICK list \in SUBSET Vehicles :
          /\ owed' = owed \cup UNION {Matching(v) : v \in list}
          /\ ~ full' => \A v \in Vehicles : Matching(v) # {} => v \in list
          /\ \A v \in Vehicles \ list : answer'[v] = None
          /\ \A v \in list : /\ answer'[v] \in Matching(v) /\ answer'[v] \in EventSet
                             /\ answer'[v] # None
                             /\ \A e \in Matching(v) : answer'[v].ts >= e.ts
    BY SearchRow
  <1>2. asked \in held \cup {{}} /\ stream # "none"
    BY <1>0 DEF PageInv, ScopesOK
  <1>3. ScopesStay
    BY <1>0, <1>2 DEF ScopesStay, authVars
  <1>4. \A v \in Vehicles : \A d \in Matching(v) : d.vin = v /\ Allowed(d) /\ d \in Range(canonical)
    BY <1>2, AllowedByScope, DocumentsIn DEF Matching, Recent
  <1>5. \A v \in Vehicles : answer'[v] = None \/ answer'[v] \in Matching(v)
    BY <1>1
  <1>6. RowsOK'
    BY <1>0, <1>4, <1>5 DEF PageInv, RowsOK, pageVars
  <1>7. \A e \in OnTheWay' : e \in OnTheWay \/ \E v \in Vehicles : e \in Matching(v)
    BY <1>0, <1>5, SameVehicles DEF OnTheWay, Rows, pageVars
  <1>8. \A e \in OnTheWay' : Allowed(e)'
    BY <1>3, <1>4, <1>7, PageParts, ScopesKept
  <1>9. /\ \A e \in got' : Covers(shown', e)
        /\ \A v \in Vehicles : shown'[v] = None \/ shown'[v] \in got'
    BY <1>0, PageParts DEF pageVars
  <1>10. ASSUME NEW e \in owed'
         PROVE  Seen(e)'
    <2>1. CASE e \in owed
      BY <1>0, <2>1, PageParts DEF Seen, Covers, pageVars
    <2>2. CASE e \notin owed
      <3>1. PICK v \in list : e \in Matching(v)
        BY <1>1, <1>10, <2>2
      <3>2. e.vin = v /\ answer'[v] # None /\ answer'[v].ts >= e.ts
        BY <1>1, <1>4, <3>1
      <3> QED BY <1>0, <3>2 DEF Seen, Covers
    <2> QED BY <2>1, <2>2
  <1>11. \A e \in Range(canonical') \cup OnTheWay' : Stamped(e)'
    BY <1>0, <1>4, <1>7, StampsStay DEF sourceVars
  <1>12. ASSUME NEW d \in missed'
         PROVE  Explained(d)'
    <2>1. /\ d \in Recent /\ {d.vin, fleet[d.vin]} \cap asked # {}
          /\ answer'[d.vin] = None \/ answer'[d.vin].ts < d.ts
      BY <1>0, <1>12 DEF MaySee
    <2>2. d \in EventSet /\ d \in Range(canonical) /\ d.vin \in Vehicles /\ d.ts \in Nat
      BY <2>1, DocumentsType, DocumentsIn, EventFields DEF Recent
    <2>3. CASE d.fleet = fleet[d.vin] /\ ~ full'
      <3>1. d \in Matching(d.vin)
        BY <2>1, <2>3 DEF Matching, Allows
      <3>2. d.vin \in list
        BY <1>1, <2>2, <2>3, <3>1
      <3>3. answer'[d.vin] # None /\ answer'[d.vin].ts >= d.ts /\ answer'[d.vin].ts \in Nat
        BY <1>1, <3>1, <3>2, EventFields
      <3> QED BY <2>1, <2>2, <3>3
    <2>4. CASE d.fleet # fleet[d.vin]
      <3>1. d.fleet \in left[d.vin]
        BY <2>2, <2>4, PageParts DEF Stamped
      <3> QED BY <1>0, <3>1 DEF Explained, sourceVars
    <2> QED BY <2>3, <2>4 DEF Explained
  <1> QED BY <1>3, <1>6, <1>8, <1>9, <1>10, <1>11, <1>12, PageFrom, ScopesKept

LEMMA PageShowAnswer ==
  ASSUME TypeOK, PageInv, ShowAnswer
  PROVE  PageInv'
  <1>0. /\ UNCHANGED <<sourceVars, pushed, stream, scope, wire, asked, missVars, pending, owed, authVars>>
        /\ latest = "answered" /\ latest' = "done"
        /\ answer' = [v \in Vehicles |-> None] /\ got' = got \cup Rows
    BY SameVehicles DEF ShowAnswer, NoRows
  <1>1. /\ TableOK(shown')
        /\ \A v \in Vehicles : shown'[v] \in {shown[v], answer[v]}
        /\ \A v \in Vehicles : answer[v] # None => shown'[v] # None /\ shown'[v].ts >= answer[v].ts
        /\ \A e \in EventSet : Covers(shown, e) => Covers(shown', e)
    BY ShowAnswerRows DEF PageInv
  <1>2. /\ got \subseteq EventSet /\ owed \subseteq EventSet
        /\ \A v \in Vehicles : answer[v] \in EventSet \cup {None}
    BY DEF TypeOK, PageTypes
  <1>3. stream # "none"
    BY <1>0 DEF PageInv, ScopesOK
  <1>4. ScopesStay
    BY <1>0, <1>3 DEF ScopesStay, authVars
  <1>5. RowsOK'
    BY <1>0, <1>1 DEF RowsOK, TableOK
  <1>6. Rows' = {}
    BY <1>0, SameVehicles DEF Rows
  <1>7. OnTheWay' = OnTheWay
    BY <1>0, <1>6 DEF OnTheWay
  <1>8. \A e \in OnTheWay' : Allowed(e)'
    BY <1>4, <1>7, PageParts, ScopesKept
  <1>9. ASSUME NEW e \in got'
        PROVE  Covers(shown', e)
    <2>1. CASE e \in got
      BY <1>1, <1>2, <2>1, PageParts
    <2>2. CASE e \in Rows
      <3>1. PICK v \in Vehicles : e = answer[v] /\ e # None
        BY <2>2, SameVehicles DEF Rows
      <3>2. e.vin = v
        BY <3>1 DEF PageInv, RowsOK
      <3> QED BY <1>1, <3>1, <3>2 DEF Covers
    <2> QED BY <1>0, <1>9, <2>1, <2>2
  <1>10. \A v \in Vehicles : shown'[v] = None \/ shown'[v] \in got'
    BY <1>0, <1>1, PageParts, RowsMembers
  <1>11. ASSUME NEW e \in owed'
         PROVE  Seen(e)'
    <2>1. e \in EventSet /\ e \in owed
      BY <1>0, <1>2, <1>11
    <2>2. e.vin \in Vehicles /\ e.ts \in Nat
      BY <2>1, EventFields
    <2>3. CASE Covers(shown, e)
      BY <1>1, <2>1, <2>3 DEF Seen, Covers
    <2>4. CASE e \in Range(wire) \cup Range(pending)
      BY <1>0, <2>4 DEF Seen
    <2>5. CASE Covers(answer, e)
      <3>1. /\ answer[e.vin] # None /\ answer[e.vin].ts >= e.ts
            /\ shown'[e.vin] # None /\ shown'[e.vin].ts >= answer[e.vin].ts
        BY <1>1, <2>2, <2>5 DEF Covers
      <3>2. answer[e.vin].ts \in Nat /\ shown'[e.vin].ts \in Nat
        BY <1>1, <1>2, <2>2, <3>1, EventFields DEF TableOK
      <3> QED BY <2>2, <3>1, <3>2 DEF Seen, Covers
    <2> QED BY <2>1, <2>3, <2>4, <2>5, PageParts DEF Seen
  <1>12. \A e \in Range(canonical') \cup OnTheWay' : Stamped(e)'
    BY <1>0, <1>7, StampsStay DEF sourceVars
  <1>13. \A e \in missed' : Explained(e)'
    BY <1>0, MissedStays DEF sourceVars, snapshotVars
  <1> QED BY <1>4, <1>5, <1>8, <1>9, <1>10, <1>11, <1>12, <1>13, PageFrom, ScopesKept

\* telemetry-processor stamps what it forwards with the vehicle's fleet.
LEMMA PageProcess ==
  ASSUME TypeOK, IInv, PageInv, Process
  PROVE  PageInv'
  <1>0. UNCHANGED <<fleet, left, stream, scope, wire, snapshotVars, pageVars, owed, authVars>>
    BY DEF Process, Forward, viewVars, sourceVars
  <1>1. /\ stream = "none" => held = {} /\ latest = "none"
        /\ stream # "none" => granted \in held
        /\ scope \in held \cup {{}} /\ asked \in held \cup {{}}
    BY DEF PageInv, ScopesOK
  <1>2. canonical \in Seq(EventSet)
    BY DEF TypeOK, CarriersOK
  <1>3. PICK r \in Reports : canonical' = canonical \/ Forward(r)
    <2>1. raw \in Seq(Reports) /\ raw # << >>
      BY DEF TypeOK, CarriersOK, Process
    <2>2. Head(raw) \in Reports
      BY <2>1, RangeOfTail
    <2> QED BY <2>2 DEF Process, viewVars, sourceVars
  <1>4. ASSUME NEW e \in Range(canonical')
        PROVE  e \in Range(canonical) \/ Stamped(e)'
    <2>1. CASE canonical' = canonical
      BY <1>4, <2>1
    <2>2. CASE Forward(r)
      <3> DEFINE new == Event(r[1], r[2], fleet[r[1]])
      <3>1. new \in EventSet /\ new.vin = r[1] /\ new.fleet = fleet[r[1]]
        BY DEF Event, EventSet, Reports, IInv
      <3>2. canonical' = Append(canonical, new)
        BY <2>2 DEF Forward
      <3>3. e \in Range(canonical) \cup {new}
        BY <1>2, <1>4, <3>1, <3>2, RangeOfAppend
      <3> QED BY <1>0, <3>1, <3>3 DEF Stamped
    <2> QED BY <1>3, <2>1, <2>2
  <1> QED BY <1>0, <1>1, <1>4, PageCalm DEF Stamped, snapshotVars, authVars

LEMMA PageStep ==
  ASSUME TypeOK, IInv, PageInv, [Next]_vars
  PROVE  PageInv'
  <1>1. CASE ViewNext
    BY <1>1, PageMove, PageScopeSteps, PagePush, PageReceive, PageFlush, PageStreamEnds, PageSearch,
       PageShowAnswer DEF ViewNext, Stream, Snapshot
  <1>2. CASE UNCHANGED viewVars
    BY <1>2, PageQuiet DEF PageInv, ScopesOK, viewVars, sourceVars, snapshotVars, authVars
  <1>3. CASE Process
    BY <1>3, PageProcess
  <1> QED BY <1>1, <1>2, <1>3 DEF Next, vars

LEMMA InitPage == Init => TypeOK /\ PageInv
  <1> SUFFICES ASSUME Init PROVE TypeOK /\ PageInv
    OBVIOUS
  <1>1. CarriersOK
    BY InitOK DEF IInv
  <1>2. /\ online = {} /\ again = {} /\ canonical = << >> /\ indexed = 0 /\ pushed = 0
        /\ stream = "none" /\ scope = {} /\ wire = << >> /\ latest = "none" /\ asked = {}
        /\ answer = [v \in Vehicles |-> None] /\ shown = [v \in Vehicles |-> None]
        /\ pending = << >> /\ got = {} /\ owed = {} /\ missed = {} /\ full = FALSE /\ held = {}
        /\ fleet \in [Vehicles -> Fleets] /\ left = [v \in Vehicles |-> {}] /\ horizon = 0
    BY SameVehicles DEF Init, IngestInit, ViewInit, NoRows
  <1>3. TypeOK
    <2>1. left \in [Vehicles -> SUBSET Fleets] /\ horizon \in 0 .. MaxReports
      BY <1>2, IngestAssumption
    <2>2. answer \in [Vehicles -> Row] /\ shown \in [Vehicles -> Row]
      BY <1>2
    <2>3. Len(canonical) = 0
      BY <1>2
    <2>4. wire \in Seq(EventSet) /\ pending \in Seq(EventSet)
      BY <1>2
    <2>5. indexed \in 0 .. Len(canonical) /\ pushed \in 0 .. Len(canonical)
      BY <1>2, <2>3
    <2>6. got \subseteq EventSet /\ owed \subseteq EventSet /\ missed \subseteq EventSet
      BY <1>2
    <2>7. PageTypes
      BY <1>2, <2>1, <2>2, <2>4, <2>5, <2>6 DEF PageTypes
    <2> QED BY <1>1, <1>2, <2>7 DEF TypeOK
  <1>4. Range(canonical) = {} /\ Range(wire) = {} /\ Range(pending) = {} /\ Rows = {}
    BY <1>2, SameVehicles DEF Range, Rows
  <1>5. ScopesOK
    BY <1>2, <1>4 DEF ScopesOK
  <1>6. RowsOK /\ StampsKnown /\ ShownIsNewest /\ ShownWasGranted /\ NothingUnseen
    BY <1>2, <1>4 DEF RowsOK, StampsKnown, ShownIsNewest, ShownWasGranted, NothingUnseen
  <1> QED BY <1>3, <1>5, <1>6 DEF PageInv

LEMMA NextPage == IInv /\ IInv' /\ TypeOK /\ PageInv /\ [Next]_vars => TypeOK' /\ PageInv'
  <1> SUFFICES ASSUME IInv, IInv', TypeOK, PageInv, [Next]_vars PROVE TypeOK' /\ PageInv'
    OBVIOUS
  <1>1. TypeOK'
    BY TypeStep DEF PageInv
  <1> QED BY <1>1, PageStep

\* In every behaviour the journey's state has its types, from mqtt to the page, and the
\* page's invariant holds: what is on its way was allowed by a scope that the user has had
\* and bears a fleet that its vehicle has or had, and what is owed is seen.
THEOREM PageInductive == Spec => [](TypeOK /\ PageInv)
  <1>1. Init => TypeOK /\ PageInv
    BY InitPage
  <1>2. IInv /\ IInv' /\ (TypeOK /\ PageInv) /\ [Next]_vars => (TypeOK /\ PageInv)'
    BY NextPage
  <1> QED BY <1>1, <1>2, Inductive, PTL DEF Spec

\* The state of the whole journey keeps its types, from the vehicle's messages through
\* the bridge's jobs and the topics to what useTelemetryStream buffers and shows.
THEOREM TypeCorrect == Spec => []TypeOK
  BY PageInductive, PTL

\* The page shows of every vehicle the newest event it has got, in whatever order stream
\* and snapshot answer and reports arrive, for any number of vehicles, reports and
\* failures (useTelemetryStream.ts:19-22, 56-63).
THEOREM TheNewestIsShown == Spec => []ShownIsNewest
  <1>1. PageInv => ShownIsNewest
    BY DEF PageInv
  <1> QED BY <1>1, PageInductive, PTL

\* The page shows a vehicle only if its user has been granted it or its present fleet while
\* the page was open, or if it has left a fleet that the user has been granted, bearing that
\* fleet's stamp, however grants and fleets change between a lookup of the scope and its use
\* (api.go:78-86, 118-141, schema.sql:25).
THEOREM ShownIsAllowed == Spec => []ShownWasGranted
  <1>1. PageInv => ShownWasGranted
    BY DEF PageInv
  <1> QED BY <1>1, PageInductive, PTL

\* What a live stream or the snapshot owes the page is on its way or covered by what it
\* shows, and the snapshot leaves out nothing of the last day but what its size has no room
\* for and documents with the stamp of a fleet that the vehicle has left, for any number of
\* vehicles and any size (api.go:99-113, 118-146, useTelemetryStream.ts:19-50).
THEOREM OwedIsSeen == Spec => []NothingUnseen
  <1>1. PageInv => NothingUnseen
    BY DEF PageInv
  <1> QED BY <1>1, PageInductive, PTL
=============================================================================
