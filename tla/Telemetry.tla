----------------------------- MODULE Telemetry ------------------------------
(***************************************************************************)
(* The telemetry of a broker at work: a browser that shows the dashboard   *)
(* of admin/admin.go, and the goroutine that serves its WebSocket, which   *)
(* calls quashserver.Snapshot over and over.                               *)
(*                                                                         *)
(* Snapshot locks kvLock, whose critical sections end by themselves (see   *)
(* KVStore), so its first half is a step, and the number of keys it reads  *)
(* is left out; then brokersLock, which the handlers of Broker contend     *)
(* for, and ranges over the topics, one per step.  It holds no lock while  *)
(* it measures the host (a second for the CPU).  A metric is a gauge the   *)
(* page shows, on a small scale.  The WebSocket delivers in order, and the *)
(* page does nothing but handle its messages, so it handles them when they *)
(* are sent.                                                               *)
(***************************************************************************)
EXTENDS Broker, Functions

CONSTANTS
  Dashboard,    \* as the holder of brokersLock
  Gauges,       \* "system_ram_usage", "heap_alloc_mb", "cpu_usage"
  Levels        \* what a metric may be; 0 among it

ASSUME TelemetryAssumption ==
  /\ Dashboard \notin Handlers \cup {NoOne}
  /\ Levels \subseteq Nat

VARIABLES
  dash,         \* the goroutine: "none", "kv", "lock", "range", "measure",
                \* "write", "sleep"
  todoTopics,   \* topics its range has still to visit
  reading,      \* the SrvData it makes: topics, metrics
  page,         \* the browser: "away", "loading", "ready" (charts loaded)
  gauge,        \* gauge[g]: the value drawn, NoOne before
  last          \* the metrics the page handled last, NoOne before

dashVars == <<dash, todoTopics, reading>>
pageVars == <<page, gauge, last>>
telemetryVars == <<dashVars, pageVars>>
allVars == <<vars, telemetryVars>>

NoReading == [topics |-> <<>>, metrics |-> [g \in Gauges |-> 0]]

TelemetryInit ==
  /\ Init
  /\ dash = "none"
  /\ todoTopics = {}
  /\ reading = NoReading
  /\ page = "away"
  /\ gauge = [g \in Gauges |-> NoOne]
  /\ last = NoOne

-----------------------------------------------------------------------------
(* The browser *)

\* indexHandler's page opens the WebSocket; the charts load on their own.
Open ==
  /\ ~Panicked
  /\ page = "away"
  /\ dash = "none"
  /\ page' = "loading"
  /\ dash' = "kv"
  /\ UNCHANGED <<vars, todoTopics, reading, gauge, last>>

\* The callbacks draw each gauge without a value.
LoadCharts ==
  /\ page = "loading"
  /\ page' = "ready"
  /\ UNCHANGED <<vars, dashVars, gauge, last>>

Leave ==
  /\ page # "away"
  /\ page' = "away"
  /\ gauge' = [g \in Gauges |-> NoOne]
  /\ last' = NoOne
  /\ UNCHANGED <<vars, dashVars>>

\* Faulty variant: the test is the wrong way round.
Drawn_Inverted(metrics) ==
  [g \in Gauges |-> IF metrics[g] = 0 THEN metrics[g] ELSE gauge[g]]

\* A metric that is 0 is false to JavaScript, and its gauge is not redrawn.
Drawn(metrics) ==
  [g \in Gauges |-> IF metrics[g] # 0 THEN metrics[g] ELSE gauge[g]]

\* ws.onmessage.  Before the charts are loaded the first drawing throws.
OnMessage(metrics) ==
  /\ gauge' = IF page = "ready" THEN Drawn(metrics) ELSE gauge
  /\ last' = IF page = "ready" THEN metrics ELSE last

-----------------------------------------------------------------------------
(* websocketHandler and Snapshot *)

\* kvLock.Lock, the length of kvMap, Unlock.
ReadKV ==
  /\ ~Panicked
  /\ dash = "kv"
  /\ dash' = "lock"
  /\ UNCHANGED <<vars, todoTopics, reading, pageVars>>

\* Faulty variant: the live map is ranged over without the lock.
LockBrokers_NoLock ==
  /\ dash = "lock"
  /\ brokersLock = NoOne
  /\ todoTopics' = topics
  /\ dash' = "range"
  /\ UNCHANGED <<vars, reading, pageVars>>

\* Faulty variant: the dashboard does not wait for its turn.
LockBrokers_Steals ==
  /\ dash = "lock"
  /\ brokersLock' = Dashboard
  /\ todoTopics' = topics
  /\ dash' = "range"
  /\ UNCHANGED <<brokerVars, callVars, streamVars, history, reading,
                 pageVars>>

LockBrokers ==
  /\ dash = "lock"
  /\ brokersLock = NoOne
  /\ brokersLock' = Dashboard
  /\ todoTopics' = topics
  /\ dash' = "range"
  /\ UNCHANGED <<brokerVars, callVars, streamVars, history, reading,
                 pageVars>>

\* Faulty variant: a topic without subscribers is skipped.
CountTopic_Skips ==
  /\ dash = "range"
  /\ \E t \in todoTopics :
       /\ reading' = IF subs[t] = {} THEN reading
                     ELSE [reading EXCEPT !.topics =
                             [u \in DOMAIN @ \cup {t} |->
                                IF u = t THEN [s \in subs[t] |->
                                                 Len(mailbox[s])] ELSE @[u]]]
       /\ todoTopics' = todoTopics \ {t}
  /\ UNCHANGED <<vars, dash, pageVars>>

\* Faulty variant: the subscribers are entered where topics belong.
CountTopic_Flat ==
  /\ dash = "range"
  /\ \E t \in todoTopics :
       /\ reading' = [reading EXCEPT !.topics =
                        [u \in DOMAIN @ \cup subs[t] |->
                           IF u \in subs[t] THEN [s \in {u} |-> Len(mailbox[s])]
                                           ELSE @[u]]]
       /\ todoTopics' = todoTopics \ {t}
  /\ UNCHANGED <<vars, dash, pageVars>>

\* One topic of the range, and Count for each of its subscribers.
CountTopic ==
  /\ dash = "range"
  /\ \E t \in todoTopics :
       /\ reading' = [reading EXCEPT !.topics =
                        [u \in DOMAIN @ \cup {t} |->
                           IF u = t THEN [s \in subs[t] |-> Len(mailbox[s])]
                                    ELSE @[u]]]
       /\ todoTopics' = todoTopics \ {t}
  /\ UNCHANGED <<vars, dash, pageVars>>

\* Faulty variant: the loop is left without Unlock.
UnlockBrokers_Forgotten ==
  /\ dash = "range"
  /\ todoTopics = {}
  /\ dash' = "measure"
  /\ UNCHANGED <<vars, todoTopics, reading, pageVars>>

\* The counts go to the page with the metrics.  It shows nothing of them, and
\* they are kept no longer than here.
UnlockBrokers ==
  /\ dash = "range"
  /\ todoTopics = {}
  /\ brokersLock' = NoOne
  /\ reading' = [reading EXCEPT !.topics = <<>>]
  /\ dash' = "measure"
  /\ UNCHANGED <<brokerVars, callVars, streamVars, history, todoTopics,
                 pageVars>>

\* SystemRamUsage, GoProcessMemoryUsage, SystemCPUUsage, and the marshalling.
Measure ==
  /\ ~Panicked
  /\ dash = "measure"
  /\ \E m \in [Gauges -> Levels] : reading' = [reading EXCEPT !.metrics = m]
  /\ dash' = "write"
  /\ UNCHANGED <<vars, todoTopics, pageVars>>

\* utils.go ignores the errors of gopsutil and uses the nil it gets: a panic,
\* which net/http recovers from, and the deferred conn.Close().
MeasureFails ==
  /\ ~Panicked
  /\ dash = "measure"
  /\ dash' = "none"
  /\ reading' = NoReading
  /\ UNCHANGED <<vars, todoTopics, pageVars>>

\* WriteMessage, which fails when the browser is gone.
Write ==
  /\ ~Panicked
  /\ dash = "write"
  /\ IF page = "away"
     THEN dash' = "none" /\ UNCHANGED <<gauge, last>>
     ELSE dash' = "sleep" /\ OnMessage(reading.metrics)
  /\ reading' = NoReading
  /\ UNCHANGED <<vars, todoTopics, page>>

Sleep ==
  /\ ~Panicked
  /\ dash = "sleep"
  /\ dash' = "kv"
  /\ UNCHANGED <<vars, todoTopics, reading, pageVars>>

-----------------------------------------------------------------------------

\* The steps of the dashboard goroutine, but the one that waits for the lock.
DashStep ==
  \/ ReadKV \/ CountTopic \/ UnlockBrokers \/ Measure \/ Write \/ Sleep

BrowserStep == Open \/ LoadCharts \/ Leave

TelemetryNext ==
  \/ Next /\ UNCHANGED telemetryVars
  \/ DashStep \/ LockBrokers \/ MeasureFails
  \/ BrowserStep

TelemetrySpec == TelemetryInit /\ [][TelemetryNext]_allVars

\* The dashboard's goroutine is treated like the handlers.
TelemetryFairness ==
  /\ Fairness
  /\ WF_allVars(DashStep)
  /\ SF_allVars(LockBrokers)

TelemetryFairSpec == TelemetrySpec /\ TelemetryFairness
-----------------------------------------------------------------------------
(* Properties *)

Metrics == [Gauges -> Levels]

TelemetryTypeOK ==
  /\ brokersLock \in Handlers \cup {NoOne, Dashboard}
  /\ dash \in {"none", "kv", "lock", "range", "measure", "write", "sleep"}
  /\ todoTopics \subseteq Topics
  /\ DOMAIN reading.topics \subseteq Topics
  /\ \A t \in DOMAIN reading.topics :
       /\ DOMAIN reading.topics[t] \subseteq SubIds
       /\ Range(reading.topics[t]) \subseteq Nat
  /\ reading.metrics \in Metrics \cup {NoReading.metrics}
  /\ page \in {"away", "loading", "ready"}
  /\ gauge \in [Gauges -> Levels \cup {NoOne}]
  /\ last \in Metrics \cup {NoOne}

\* quashserver.go:31-40 and README.md:41.  When Snapshot has counted, it has
\* every topic and every subscriber there is at that instant, with what waits
\* in the mailbox; no publication is in some of the mailboxes and still to
\* come in others.
CountsAreOfOneInstant ==
  (dash = "range" /\ todoTopics = {}) =>
    /\ DOMAIN reading.topics = topics
    /\ \A t \in topics :
         /\ reading.topics[t] = [s \in subs[t] |-> Len(mailbox[s])]
         /\ \A s \in subs[t] : ~Owed(t, s)

\* structs.go:21-23: the dashboard used to range over the live map, and Go
\* stops a program that writes to a map during a range.
NoBrokerWriteDuringRange ==
  [][dash = "range" => UNCHANGED brokerVars]_allVars

\* Nothing will come for the dashboard any more: the process died, a Consume
\* leaked the lock, or its connection is closed.
Frozen == Panicked \/ LockLeaked \/ dash = "none"

\* README.md:9, "in real time".  A dashboard that is open gets a new reading
\* time and again, whatever the handlers do with the lock.
ReadingsKeepComing ==
  dash # "none" ~> (dash = "sleep" \/ page = "away" \/ Frozen)

\* admin.go:33-48.  The charts load while messages come already, and those are
\* lost on the page: its handler throws.  A gauge is drawn all the same, by a
\* later message, once its chart is there and its metric is not 0, whatever
\* the handlers do with the lock in between.
EveryGaugeIsDrawn ==
  \A g \in Gauges :
    page = "ready" ~> \/ gauge[g] # NoOne
                      \/ last # NoOne /\ last[g] = 0
                      \/ page = "away" \/ Frozen

\* The mutex as the handlers see it: theirs, or free, when the dashboard has
\* it for a while, for then none of them holds it or can get it.
HandlersLock == IF brokersLock = Dashboard THEN NoOne ELSE brokersLock

Undisturbed == INSTANCE Broker WITH brokersLock <- HandlersLock

\* quashserver.go:31-40.  A broker that is watched does only what a broker
\* without a dashboard can do: Snapshot, which shares the mutex and the map
\* with the handlers, shows in none of their steps.
BrokerUndisturbed == Undisturbed!Spec

\* Watching is harmless: every request is answered with a dashboard open too,
\* connected or lost at whatever moment.
AnsweredWhileWatched == RequestsAnswered
=============================================================================
