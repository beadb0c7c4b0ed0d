------------------------------- MODULE Ingest -------------------------------
(***************************************************************************)
(* From the vehicle to the raw topic: the simulator's vehicles             *)
(* (cmd/vehicle-simulator), AWS IoT Core with its rule, and the            *)
(* iot-kafka-bridge Lambda (cmd/iot-kafka-bridge/bridge.go), which is      *)
(* invoked asynchronously and retried (terraform/platform/lambda.tf).      *)
(*                                                                         *)
(*   vehicle --MQTT, QoS 1--> IoT rule --invocations--> bridge --> raw     *)
(*                               |                         |               *)
(*                          undelivered             dlq, discarded         *)
(*                                                                         *)
(* A report is <<vehicle, n>>, n standing for its deviceTimestamp; a copy  *)
(* <<vehicle, n, c>> is one of the up to two messages that carry it.       *)
(* Payloads are well-formed, as the simulator's are.                       *)
(***************************************************************************)
EXTENDS Naturals, Sequences

CONSTANTS
  Vehicles,
  Attempts,    \* how often Lambda tries an asynchronous invocation
  HasDLQ,      \* whether it has a dead-letter queue: on AWS, not on Floci
  MaxReports,  \* bound: reports of each vehicle
  MaxTrouble   \* bound: second copies, connections lost, calls that fail

ASSUME IngestAssumption ==
  Attempts \in Nat \ {0} /\ HasDLQ \in BOOLEAN /\ MaxReports \in Nat /\ MaxTrouble \in Nat

VARIABLES
  taken,       \* taken[v]: how many reports v has made
  online,      \* the vehicles whose MQTT connection is open
  again,       \* the vehicles that may still publish their last report once more
  mqtt,        \* copies that their vehicle has published without a PUBACK
  jobs,        \* invocations of the bridge that Lambda has to make
  raw,         \* the raw topic; one partition, nothing is lost in it
  dlq,         \* copies in the bridge's dead-letter queue
  undelivered, \* auxiliary: copies that IoT Core took and did not get to Lambda
  discarded,   \* auxiliary: copies that Lambda gave up without a dead-letter queue
  excused,     \* auxiliary: reports lost by MQTT, or made while offline
  trouble      \* what went wrong so far

lostVars == <<undelivered, discarded>>
ingestVars == <<taken, online, again, mqtt, jobs, raw, dlq, lostVars, excused, trouble>>

Copies == Vehicles \X (1 .. MaxReports) \X {1, 2}
ReportOf(c) == <<c[1], c[2]>>
Job(c, try) == [copy |-> c, try |-> try]

IngestInit ==
  /\ taken = [v \in Vehicles |-> 0]
  /\ online = {}
  /\ again = {}
  /\ mqtt = {} /\ jobs = {} /\ raw = << >> /\ dlq = {}
  /\ undelivered = {} /\ discarded = {} /\ excused = {}
  /\ trouble = 0

Troubled == trouble < MaxTrouble /\ trouble' = trouble + 1

-----------------------------------------------------------------------------
(* The vehicle *)

\* A tick: publish returns with a PUBACK or after five seconds, before the next one.
Report(v) ==
  /\ v \in online
  /\ taken[v] < MaxReports
  /\ taken' = [taken EXCEPT ![v] = @ + 1]
  /\ mqtt' = mqtt \cup {<<v, taken[v] + 1, 1>>}
  /\ again' = again \cup {v}
  /\ UNCHANGED <<online, jobs, raw, dlq, lostVars, excused, trouble>>

\* Without a connection the report is not published at all.
SkipReport(v) ==
  /\ v \notin online
  /\ taken[v] < MaxReports
  /\ taken' = [taken EXCEPT ![v] = @ + 1]
  /\ excused' = excused \cup {<<v, taken[v] + 1>>}
  /\ again' = again \ {v}
  /\ UNCHANGED <<online, mqtt, jobs, raw, dlq, lostVars, trouble>>

\* The DUPLICATE_RATE: the report is published once more.
Repeat(v) ==
  /\ v \in again /\ Troubled
  /\ mqtt' = mqtt \cup {<<v, taken[v], 2>>}
  /\ again' = again \ {v}
  /\ UNCHANGED <<taken, online, jobs, raw, dlq, lostVars, excused>>

-----------------------------------------------------------------------------
(* MQTT, the IoT rule and Lambda's queue *)

Connected(v) ==
  /\ v \notin online
  /\ online' = online \cup {v}
  /\ UNCHANGED <<taken, again, mqtt, jobs, raw, dlq, lostVars, excused, trouble>>

\* CleanSession: of what has no PUBACK, the client sends some again.
ConnectionLost(v) ==
  /\ v \in online /\ Troubled
  /\ online' = online \ {v}
  /\ \E gone \in SUBSET {c \in mqtt : c[1] = v} :
       /\ mqtt' = mqtt \ gone
       /\ excused' = excused \cup {ReportOf(c) : c \in gone}
  /\ UNCHANGED <<taken, again, jobs, raw, dlq, lostVars>>

\* IoT Core takes a copy and queues an invocation; its PUBACK may get lost.
Accept(c) ==
  /\ c \in mqtt /\ c[1] \in online
  /\ jobs' = jobs \cup {Job(c, 1)}
  /\ \/ mqtt' = mqtt \ {c} /\ UNCHANGED trouble
     \/ Troubled /\ UNCHANGED mqtt
  /\ UNCHANGED <<taken, online, again, raw, dlq, lostVars, excused>>

\* The rule's delivery to Lambda fails and the error action logs it: IoT Core has
\* taken the copy, and the vehicle gets its PUBACK as ever.
RuleFails(c) ==
  /\ c \in mqtt /\ c[1] \in online /\ Troubled
  /\ undelivered' = undelivered \cup {c}
  /\ mqtt' \in {mqtt, mqtt \ {c}}
  /\ UNCHANGED <<taken, online, again, jobs, raw, dlq, discarded, excused>>

-----------------------------------------------------------------------------
(* The bridge *)

Produced(j) ==
  /\ j \in jobs
  /\ raw' = Append(raw, ReportOf(j.copy))
  /\ jobs' = jobs \ {j}
  /\ UNCHANGED <<taken, online, again, mqtt, dlq, lostVars, excused, trouble>>

\* Mutant of ProduceFails: Invoke logs the error and returns none.
ProduceIgnored(j) ==
  /\ j \in jobs /\ Troubled
  /\ raw' \in {raw, Append(raw, ReportOf(j.copy))}
  /\ jobs' = jobs \ {j}
  /\ UNCHANGED <<taken, online, again, mqtt, dlq, lostVars, excused>>

\* Mutant of TriesLeft: the first attempt is not counted.
RetriesLeft(j) == j.try <= Attempts

TriesLeft(j) == j.try < Attempts

\* After the last attempt the copy goes to the dead-letter queue, if there is one.
GiveUp(j) ==
  /\ jobs' = jobs \ {j}
  /\ dlq' = IF HasDLQ THEN dlq \cup {j.copy} ELSE dlq
  /\ discarded' = IF HasDLQ THEN discarded ELSE discarded \cup {j.copy}

Retry(j) ==
  /\ jobs' = (jobs \ {j}) \cup {Job(j.copy, j.try + 1)}
  /\ UNCHANGED <<dlq, discarded>>

\* ProduceSync returns an error, or Lambda's timeout ends the call; the record may be
\* in the topic all the same.  Lambda tries again, and in the end gives up.
ProduceFails(j) ==
  /\ j \in jobs /\ Troubled
  /\ raw' \in {raw, Append(raw, ReportOf(j.copy))}
  /\ IF TriesLeft(j) THEN Retry(j) ELSE GiveUp(j)
  /\ UNCHANGED <<taken, online, again, mqtt, undelivered, excused>>

Invoke(j) == Produced(j) \/ ProduceFails(j)

-----------------------------------------------------------------------------
IngestNext ==
  \/ \E v \in Vehicles : Report(v) \/ SkipReport(v) \/ Repeat(v)
  \/ \E v \in Vehicles : Connected(v) \/ ConnectionLost(v)
  \/ \E c \in Copies : Accept(c) \/ RuleFails(c)
  \/ \E j \in jobs : Invoke(j)
=============================================================================
