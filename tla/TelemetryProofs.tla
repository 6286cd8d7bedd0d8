-------------------------- MODULE TelemetryProofs ---------------------------
(***************************************************************************)
(* Proofs about Telemetry for any topics, subscribers, handlers, gauges    *)
(* and any number of publications.                                         *)
(*                                                                         *)
(* CountsAreOfOneInstant is not inductive: it speaks of the end of the     *)
(* range only.  RangeInv says what has been counted on the way, and that   *)
(* no handler is between Lock and Unlock meanwhile, so that what has been  *)
(* counted is still true.                                                  *)
(*                                                                         *)
(* The same invariant shows that a watched broker implements Broker: the   *)
(* dashboard holds the mutex only when no handler does.  So whatever is    *)
(* proved of Broker holds of it too, and its types with it.                *)
(***************************************************************************)
EXTENDS Telemetry, TLAPS

\* What the range has counted so far is what the map holds now.
CountedSoFar ==
  /\ todoTopics \subseteq topics
  /\ DOMAIN reading.topics = topics \ todoTopics
  /\ \A t \in topics \ todoTopics :
       reading.topics[t] = [s \in subs[t] |-> Len(mailbox[s])]

RangeInv ==
  /\ DOMAIN pc = Handlers
  /\ MutualExclusion
  /\ DOMAIN reading = {"topics", "metrics"}
  /\ dash \in {"none", "kv", "lock", "sleep"} => DOMAIN reading.topics = {}
  /\ dash = "range" => brokersLock = Dashboard /\ CountedSoFar

LEMMA EmptyDomain == DOMAIN <<>> = {}
OBVIOUS

LEMMA NothingRead ==
  /\ DOMAIN NoReading = {"topics", "metrics"}
  /\ DOMAIN NoReading.topics = {}
BY EmptyDomain DEF NoReading

LEMMA InitRange == TelemetryInit => RangeInv
BY BrokerAssumption, NothingRead
   DEF TelemetryInit, Init, RangeInv, MutualExclusion, InSection
-----------------------------------------------------------------------------
(* The handlers respect the lock *)

LEMMA LockStepRespects ==
  ASSUME RangeInv, NEW h \in Handlers, LockStep(h)
  PROVE  /\ brokersLock = NoOne
         /\ DOMAIN pc' = Handlers /\ MutualExclusion'
<1>1. brokersLock = NoOne
  BY DEF LockStep, CreateTopic, RemoveTopic, AddSubscriber, RemoveSubscriber,
         PublishLock, ConsumeLock, ConsumePanics, Locks
<1>2. \A g \in Handlers : ~InSection(g)
  BY <1>1, BrokerAssumption DEF RangeInv, MutualExclusion
<1>3. CASE pc' = [pc EXCEPT ![h] = "idle"]
  BY <1>1, <1>2, <1>3 DEF RangeInv, MutualExclusion, InSection
<1>4. CASE PublishLock(h)
  BY <1>1, <1>2, <1>4 DEF PublishLock, RangeInv, MutualExclusion, InSection
<1>5. CASE ConsumeLock(h)
  BY <1>1, <1>2, <1>5 DEF ConsumeLock, RangeInv, MutualExclusion, InSection
<1>6. CASE ConsumePanics(h)
  BY <1>1, <1>6 DEF ConsumePanics, MutualExclusion, InSection
<1> QED
  BY <1>1, <1>3, <1>4, <1>5, <1>6
     DEF LockStep, CreateTopic, RemoveTopic, AddSubscriber, RemoveSubscriber,
         Return

LEMMA OwnStepRespects ==
  ASSUME RangeInv, NEW h \in Handlers, OwnStep(h)
  PROVE  /\ brokersLock # Dashboard \/ UNCHANGED <<brokersLock, brokerVars>>
         /\ DOMAIN pc' = Handlers /\ MutualExclusion'
<1> USE DEF RangeInv, MutualExclusion, InSection
<1>1. CASE PublishPush(h)
  BY <1>1, TelemetryAssumption DEF PublishPush
<1>2. CASE PublishUnlock(h)
  BY <1>2, TelemetryAssumption DEF PublishUnlock
<1>3. CASE PublishAck(h)
  BY <1>3 DEF PublishAck, Return
<1>4. CASE ConsumeSend(h)
  BY <1>4, TelemetryAssumption DEF ConsumeSend
<1>5. CASE ConsumeSendError(h)
  BY <1>5, TelemetryAssumption DEF ConsumeSendError, Return
<1>6. CASE ConsumeUnlock(h)
  BY <1>6, TelemetryAssumption DEF ConsumeUnlock, Return
<1> QED
  BY <1>1, <1>2, <1>3, <1>4, <1>5, <1>6 DEF OwnStep

LEMMA ClientStepRespects ==
  ASSUME RangeInv, NEW h \in Handlers, ClientStep(h)
  PROVE  /\ UNCHANGED <<brokersLock, brokerVars>>
         /\ DOMAIN pc' = Handlers /\ MutualExclusion'
<1> USE DEF RangeInv, MutualExclusion, InSection
<1>1. CASE Call(h)
  BY <1>1 DEF Call
<1>2. CASE ClientRead(h) \/ ClientBreak(h)
  BY <1>2 DEF ClientRead, ClientBreak, callVars
<1>3. CASE PublishRecv(h)
  BY <1>3 DEF PublishRecv
<1>4. CASE PublishEnd(h)
  BY <1>4 DEF PublishEnd, Return
<1> QED
  BY <1>1, <1>2, <1>3, <1>4 DEF ClientStep

\* While the dashboard holds the lock, no handler touches the map.
LEMMA HandlersRespect ==
  ASSUME RangeInv, Next
  PROVE  /\ brokersLock = Dashboard => UNCHANGED <<brokersLock, brokerVars>>
         /\ DOMAIN pc' = Handlers /\ MutualExclusion'
<1> PICK h \in Handlers : LockStep(h) \/ OwnStep(h) \/ ClientStep(h)
  BY DEF Next
<1> QED
  BY LockStepRespects, OwnStepRespects, ClientStepRespects,
     TelemetryAssumption
-----------------------------------------------------------------------------
(* The steps of the dashboard *)

LEMMA LockBrokersRange ==
  ASSUME RangeInv, LockBrokers
  PROVE  RangeInv'
<1>1. CountedSoFar'
  BY DEF LockBrokers, RangeInv, CountedSoFar, brokerVars
<1>2. MutualExclusion'
  BY BrokerAssumption
     DEF LockBrokers, RangeInv, MutualExclusion, InSection, callVars
<1> QED
  BY <1>1, <1>2 DEF LockBrokers, RangeInv, callVars

LEMMA CountTopicRange ==
  ASSUME RangeInv, CountTopic
  PROVE  RangeInv'
<1>1. PICK t \in todoTopics :
        /\ reading' = [reading EXCEPT !.topics =
                         [u \in DOMAIN @ \cup {t} |->
                            IF u = t THEN [s \in subs[t] |-> Len(mailbox[s])]
                                     ELSE @[u]]]
        /\ todoTopics' = todoTopics \ {t}
  BY DEF CountTopic
<1>2. /\ UNCHANGED <<brokersLock, topics, subs, mailbox, pc, dash>>
      /\ dash = "range"
  BY DEF CountTopic, vars, brokerVars, callVars
<1>3. /\ DOMAIN reading' = DOMAIN reading
      /\ reading'.topics =
           [u \in DOMAIN reading.topics \cup {t} |->
              IF u = t THEN [s \in subs[t] |-> Len(mailbox[s])]
                       ELSE reading.topics[u]]
  BY <1>1 DEF RangeInv
<1>4. CountedSoFar'
  BY <1>1, <1>2, <1>3 DEF RangeInv, CountedSoFar
<1> QED
  BY <1>2, <1>3, <1>4 DEF RangeInv, MutualExclusion, InSection

LEMMA UnlockBrokersRange ==
  ASSUME RangeInv, UnlockBrokers
  PROVE  RangeInv'
BY TelemetryAssumption
   DEF UnlockBrokers, RangeInv, MutualExclusion, InSection, callVars

\* The others change no variable of Broker, and no reading under way.
LEMMA OtherDashRange ==
  ASSUME RangeInv,
         ReadKV \/ Measure \/ MeasureFails \/ Write \/ Sleep \/ BrowserStep
  PROVE  RangeInv'
<1>1. UNCHANGED <<brokersLock, pc>>
  BY DEF ReadKV, Measure, MeasureFails, Write, Sleep, BrowserStep, Open,
         LoadCharts, Leave, vars, callVars
<1>2. CASE ReadKV
  BY <1>1, <1>2 DEF ReadKV, RangeInv, MutualExclusion, InSection
<1>3. CASE Measure
  BY <1>1, <1>3 DEF Measure, RangeInv, MutualExclusion, InSection
<1>4. CASE MeasureFails \/ Write
  BY <1>1, <1>4, NothingRead
     DEF MeasureFails, Write, RangeInv, MutualExclusion, InSection
<1>5. CASE Sleep \/ Open
  BY <1>1, <1>5 DEF Sleep, Open, RangeInv, MutualExclusion, InSection
<1>6. CASE LoadCharts \/ Leave
  BY <1>1, <1>6
     DEF LoadCharts, Leave, dashVars, vars, brokerVars, RangeInv,
         MutualExclusion, InSection, CountedSoFar
<1> QED
  BY <1>2, <1>3, <1>4, <1>5, <1>6 DEF BrowserStep
-----------------------------------------------------------------------------

LEMMA RangeInductive == RangeInv /\ [TelemetryNext]_allVars => RangeInv'
<1> SUFFICES ASSUME RangeInv, [TelemetryNext]_allVars
             PROVE  RangeInv'
  OBVIOUS
<1>1. CASE Next /\ UNCHANGED telemetryVars
  BY <1>1, HandlersRespect
     DEF telemetryVars, dashVars, brokerVars, RangeInv, CountedSoFar
<1>2. CASE LockBrokers \/ CountTopic \/ UnlockBrokers
  BY <1>2, LockBrokersRange, CountTopicRange, UnlockBrokersRange
<1>3. CASE ReadKV \/ Measure \/ MeasureFails \/ Write \/ Sleep \/ BrowserStep
  BY <1>3, OtherDashRange
<1>4. CASE UNCHANGED allVars
  BY <1>4
     DEF allVars, vars, telemetryVars, dashVars, brokerVars, callVars,
         RangeInv, MutualExclusion, InSection, CountedSoFar
<1> QED
  BY <1>1, <1>2, <1>3, <1>4 DEF TelemetryNext, DashStep

THEOREM RangeInvariance == TelemetrySpec => []RangeInv
BY InitRange, RangeInductive, PTL DEF TelemetrySpec

\* quashserver.go:31-40.  The counts of every reading are those of a single
\* instant, however many handlers work on the broker.
THEOREM ReadingsAreConsistent == TelemetrySpec => []CountsAreOfOneInstant
<1>1. RangeInv => CountsAreOfOneInstant
  BY TelemetryAssumption
     DEF RangeInv, CountedSoFar, CountsAreOfOneInstant, MutualExclusion,
         InSection, Owed
<1> QED
  BY <1>1, RangeInvariance, PTL

\* structs.go:21-23.  Nobody writes to the broker's map while the dashboard
\* ranges over it.
THEOREM RangeIsExclusive == TelemetrySpec => NoBrokerWriteDuringRange
<1>1. RangeInv /\ [TelemetryNext]_allVars
        => [dash = "range" => UNCHANGED brokerVars]_allVars
  <2> SUFFICES ASSUME RangeInv, TelemetryNext, dash = "range"
               PROVE  UNCHANGED brokerVars
    OBVIOUS
  <2>1. CASE Next
    BY <2>1, HandlersRespect DEF RangeInv
  <2>2. CASE DashStep \/ LockBrokers \/ MeasureFails \/ BrowserStep
    BY <2>2
       DEF DashStep, ReadKV, CountTopic, UnlockBrokers, Measure, Write, Sleep,
           LockBrokers, MeasureFails, BrowserStep, Open, LoadCharts, Leave,
           vars
  <2> QED
    BY <2>1, <2>2 DEF TelemetryNext
<1> QED
  BY <1>1, RangeInvariance, PTL DEF TelemetrySpec, NoBrokerWriteDuringRange
-----------------------------------------------------------------------------
(* A broker that is watched implements one that is not *)

\* Undisturbed has names of its own for what the lock has no part in.
LEMMA VarsUndisturbed ==
  /\ UNCHANGED Undisturbed!brokerVars <=> UNCHANGED brokerVars
  /\ UNCHANGED Undisturbed!callVars <=> UNCHANGED callVars
  /\ UNCHANGED Undisturbed!streamVars <=> UNCHANGED streamVars
  /\ UNCHANGED Undisturbed!history <=> UNCHANGED history
BY DEF brokerVars, callVars, streamVars, history, Undisturbed!brokerVars,
       Undisturbed!callVars, Undisturbed!streamVars, Undisturbed!history

LEMMA HelpersUndisturbed ==
  ASSUME NEW h \in Handlers
  PROVE  /\ Undisturbed!Return(h) <=> Return(h)
         /\ \A o : Undisturbed!WithinBounds(o) <=> WithinBounds(o)
         /\ Undisturbed!Requests = Requests
<1>1. Undisturbed!Return(h) <=> Return(h)
  BY DEF Return, NoRequest, Undisturbed!Return, Undisturbed!NoRequest
<1>2. \A S : Undisturbed!Cardinality(S) = Cardinality(S)
  BY DEF Undisturbed!Cardinality, Cardinality
<1>3. ASSUME NEW o
      PROVE  Undisturbed!Waiting(o) = Waiting(o)
  BY <1>2 DEF Undisturbed!Waiting, Waiting
<1>4. ASSUME NEW o
      PROVE  Undisturbed!WithinBounds(o) <=> WithinBounds(o)
  BY <1>2, <1>3 DEF Undisturbed!WithinBounds, WithinBounds
<1>5. Undisturbed!Requests = Requests
  BY DEF Undisturbed!Requests, Requests
<1> QED
  BY <1>1, <1>4, <1>5

\* A handler that gets the lock leaves it free or has it.
LEMMA LockStepUndisturbed ==
  ASSUME NEW h \in Handlers, LockStep(h)
  PROVE  Undisturbed!LockStep(h)
<1>1. HandlersLock = brokersLock /\ HandlersLock' = brokersLock'
  BY TelemetryAssumption
     DEF HandlersLock, LockStep, Locks, CreateTopic, RemoveTopic,
         AddSubscriber, RemoveSubscriber, PublishLock, ConsumeLock,
         ConsumePanics
<1>2. CreateTopic(h) => Undisturbed!CreateTopic(h)
  BY <1>1, VarsUndisturbed, HelpersUndisturbed
     DEF CreateTopic, Undisturbed!CreateTopic, Locks, Undisturbed!Locks
<1>3. RemoveTopic(h) => Undisturbed!RemoveTopic(h)
  BY <1>1, VarsUndisturbed, HelpersUndisturbed
     DEF RemoveTopic, Undisturbed!RemoveTopic, Locks, Undisturbed!Locks
<1>4. AddSubscriber(h) => Undisturbed!AddSubscriber(h)
  BY <1>1, VarsUndisturbed, HelpersUndisturbed
     DEF AddSubscriber, Undisturbed!AddSubscriber, Locks, Undisturbed!Locks
<1>5. RemoveSubscriber(h) => Undisturbed!RemoveSubscriber(h)
  BY <1>1, VarsUndisturbed, HelpersUndisturbed
     DEF RemoveSubscriber, Undisturbed!RemoveSubscriber, Locks,
         Undisturbed!Locks
<1>6. PublishLock(h) => Undisturbed!PublishLock(h)
  BY <1>1, VarsUndisturbed, HelpersUndisturbed
     DEF PublishLock, Undisturbed!PublishLock, Locks, Undisturbed!Locks
<1>7. ConsumeLock(h) => Undisturbed!ConsumeLock(h)
  BY <1>1, VarsUndisturbed, HelpersUndisturbed
     DEF ConsumeLock, Undisturbed!ConsumeLock, Locks, Undisturbed!Locks
<1>8. ConsumePanics(h) => Undisturbed!ConsumePanics(h)
  BY <1>1, VarsUndisturbed, HelpersUndisturbed
     DEF ConsumePanics, Undisturbed!ConsumePanics, Locks, Undisturbed!Locks,
         NoRequest, Undisturbed!NoRequest
<1> QED
  BY <1>2, <1>3, <1>4, <1>5, <1>6, <1>7, <1>8
     DEF LockStep, Undisturbed!LockStep

\* A handler that is in its section has the lock, by MutualExclusion.
LEMMA OwnStepUndisturbed ==
  ASSUME RangeInv, NEW h \in Handlers, OwnStep(h)
  PROVE  Undisturbed!OwnStep(h)
<1>1. \/ PublishAck(h)
      \/ HandlersLock = brokersLock /\ HandlersLock' = brokersLock'
  BY TelemetryAssumption
     DEF RangeInv, MutualExclusion, InSection, HandlersLock,
         OwnStep, PublishPush, PublishUnlock, PublishAck, ConsumeSend,
         ConsumeSendError, ConsumeUnlock
<1>2. PublishPush(h) => Undisturbed!PublishPush(h)
  BY <1>1, VarsUndisturbed, HelpersUndisturbed
     DEF PublishPush, Undisturbed!PublishPush, PublishAck
<1>3. PublishUnlock(h) => Undisturbed!PublishUnlock(h)
  BY <1>1, VarsUndisturbed, HelpersUndisturbed
     DEF PublishUnlock, Undisturbed!PublishUnlock, PublishAck
<1>4. PublishAck(h) => Undisturbed!PublishAck(h)
  BY VarsUndisturbed, HelpersUndisturbed
     DEF PublishAck, Undisturbed!PublishAck, HandlersLock
<1>5. ConsumeSend(h) => Undisturbed!ConsumeSend(h)
  BY <1>1, VarsUndisturbed, HelpersUndisturbed
     DEF ConsumeSend, Undisturbed!ConsumeSend, PublishAck
<1>6. ConsumeSendError(h) => Undisturbed!ConsumeSendError(h)
  BY <1>1, VarsUndisturbed, HelpersUndisturbed
     DEF ConsumeSendError, Undisturbed!ConsumeSendError, PublishAck
<1>7. ConsumeUnlock(h) => Undisturbed!ConsumeUnlock(h)
  BY <1>1, VarsUndisturbed, HelpersUndisturbed
     DEF ConsumeUnlock, Undisturbed!ConsumeUnlock, PublishAck
<1> QED
  BY <1>2, <1>3, <1>4, <1>5, <1>6, <1>7
     DEF OwnStep, Undisturbed!OwnStep

LEMMA ClientStepUndisturbed ==
  ASSUME NEW h \in Handlers, ClientStep(h)
  PROVE  Undisturbed!ClientStep(h)
<1>1. UNCHANGED HandlersLock
  BY DEF HandlersLock, ClientStep, Call, ClientRead, ClientBreak,
         PublishRecv, PublishEnd
<1>2. Call(h) => Undisturbed!Call(h)
  BY <1>1, VarsUndisturbed, HelpersUndisturbed
     DEF Call, Undisturbed!Call
<1>3. ClientRead(h) => Undisturbed!ClientRead(h)
  BY <1>1, VarsUndisturbed, HelpersUndisturbed
     DEF ClientRead, Undisturbed!ClientRead
<1>4. ClientBreak(h) => Undisturbed!ClientBreak(h)
  BY <1>1, VarsUndisturbed, HelpersUndisturbed
     DEF ClientBreak, Undisturbed!ClientBreak
<1>5. PublishRecv(h) => Undisturbed!PublishRecv(h)
  BY <1>1, VarsUndisturbed, HelpersUndisturbed
     DEF PublishRecv, Undisturbed!PublishRecv
<1>6. PublishEnd(h) => Undisturbed!PublishEnd(h)
  BY <1>1, VarsUndisturbed, HelpersUndisturbed
     DEF PublishEnd, Undisturbed!PublishEnd
<1> QED
  BY <1>2, <1>3, <1>4, <1>5, <1>6
     DEF ClientStep, Undisturbed!ClientStep

\* The dashboard takes the lock when it is free and gives back its own; it
\* changes nothing else of the broker.
LEMMA DashUndisturbed ==
  ASSUME RangeInv,
         DashStep \/ LockBrokers \/ MeasureFails \/ BrowserStep
  PROVE  UNCHANGED Undisturbed!vars
<1>1. UNCHANGED <<brokerVars, callVars, streamVars, history>>
  BY DEF DashStep, ReadKV, CountTopic, UnlockBrokers, Measure, Write, Sleep,
         LockBrokers, MeasureFails, BrowserStep, Open, LoadCharts, Leave, vars
<1>2. UNCHANGED HandlersLock
  <2>1. CASE UNCHANGED brokersLock
    BY <2>1 DEF HandlersLock
  <2>2. CASE LockBrokers
    BY <2>2 DEF LockBrokers, HandlersLock
  <2>3. CASE UnlockBrokers
    BY <2>3 DEF UnlockBrokers, HandlersLock, RangeInv
  <2> QED
    BY <2>1, <2>2, <2>3
       DEF DashStep, ReadKV, CountTopic, Measure, Write, Sleep,
           MeasureFails, BrowserStep, Open, LoadCharts, Leave, vars
<1> QED
  BY <1>1, <1>2, VarsUndisturbed DEF Undisturbed!vars

LEMMA NextUndisturbed ==
  RangeInv /\ [TelemetryNext]_allVars => [Undisturbed!Next]_Undisturbed!vars
<1> SUFFICES ASSUME RangeInv, [TelemetryNext]_allVars
             PROVE  [Undisturbed!Next]_Undisturbed!vars
  OBVIOUS
<1>1. CASE Next
  <2> PICK h \in Handlers : LockStep(h) \/ OwnStep(h) \/ ClientStep(h)
    BY <1>1 DEF Next
  <2> QED
    BY LockStepUndisturbed, OwnStepUndisturbed, ClientStepUndisturbed
       DEF Undisturbed!Next
<1>2. CASE DashStep \/ LockBrokers \/ MeasureFails \/ BrowserStep
  BY <1>2, DashUndisturbed
<1>3. CASE UNCHANGED allVars
  BY <1>3, VarsUndisturbed DEF allVars, vars, HandlersLock, Undisturbed!vars
<1> QED
  BY <1>1, <1>2, <1>3 DEF TelemetryNext

LEMMA InitUndisturbed == TelemetryInit => Undisturbed!Init
<1>1. Undisturbed!NoRequest = NoRequest
  BY DEF Undisturbed!NoRequest, NoRequest
<1> QED
  BY <1>1, TelemetryAssumption
     DEF TelemetryInit, Init, Undisturbed!Init, HandlersLock

\* quashserver.go:31-40.  Whatever a broker does while it is watched, it can
\* do unwatched: the dashboard is a stutter of Broker.
THEOREM WatchingIsHarmless == TelemetrySpec => BrokerUndisturbed
BY RangeInvariance, InitUndisturbed, NextUndisturbed, PTL
   DEF TelemetrySpec, BrokerUndisturbed, Undisturbed!Spec
-----------------------------------------------------------------------------
(* What is proved of Broker holds when it is watched.  The theorems are      *)
(* those of Alone, which is Undisturbed with the proofs: its definitions are *)
(* the same under other names.                                               *)

Alone == INSTANCE PubSubProofs WITH brokersLock <- HandlersLock

LEMMA SameVars ==
  /\ UNCHANGED Undisturbed!brokerVars <=> UNCHANGED Alone!brokerVars
  /\ UNCHANGED Undisturbed!callVars <=> UNCHANGED Alone!callVars
  /\ UNCHANGED Undisturbed!streamVars <=> UNCHANGED Alone!streamVars
  /\ UNCHANGED Undisturbed!history <=> UNCHANGED Alone!history
  /\ UNCHANGED Undisturbed!vars <=> UNCHANGED Alone!vars
BY DEF Alone!brokerVars, Alone!callVars, Alone!streamVars, Alone!history,
       Alone!vars, Undisturbed!brokerVars, Undisturbed!callVars,
       Undisturbed!streamVars, Undisturbed!history, Undisturbed!vars

LEMMA SameCardinality ==
  \A S : Undisturbed!Cardinality(S) = Alone!Cardinality(S)
BY DEF Alone!Cardinality, Undisturbed!Cardinality

LEMMA SameHelpers ==
  ASSUME NEW h \in Handlers
  PROVE  /\ Undisturbed!Return(h) <=> Alone!Return(h)
         /\ \A o : Undisturbed!Locks(h, o) <=> Alone!Locks(h, o)
         /\ \A o : Undisturbed!WithinBounds(o) <=> Alone!WithinBounds(o)
         /\ Undisturbed!Requests = Alone!Requests
<1>1. Undisturbed!Return(h) <=> Alone!Return(h)
  BY DEF Alone!Return, Alone!NoRequest, Undisturbed!Return,
         Undisturbed!NoRequest
<1>2. ASSUME NEW o
      PROVE  /\ Undisturbed!Locks(h, o) <=> Alone!Locks(h, o)
             /\ Undisturbed!Waiting(o) = Alone!Waiting(o)
  BY SameCardinality
     DEF Alone!Locks, Alone!Waiting, Undisturbed!Locks, Undisturbed!Waiting
<1>3. ASSUME NEW o
      PROVE  Undisturbed!WithinBounds(o) <=> Alone!WithinBounds(o)
  BY <1>2, SameCardinality
     DEF Alone!WithinBounds, Undisturbed!WithinBounds
<1>4. Undisturbed!Requests = Alone!Requests
  BY DEF Alone!Requests, Undisturbed!Requests
<1> QED
  BY <1>1, <1>2, <1>3, <1>4

LEMMA SameLockStep ==
  ASSUME NEW h \in Handlers
  PROVE  Undisturbed!LockStep(h) <=> Alone!LockStep(h)
<1>1. Undisturbed!CreateTopic(h) <=> Alone!CreateTopic(h)
  BY SameVars, SameHelpers
     DEF Alone!CreateTopic, Alone!NoRequest, Alone!Return, Alone!Locks,
         Alone!brokerVars, Alone!callVars, Alone!streamVars, Alone!history,
         Undisturbed!CreateTopic, Undisturbed!NoRequest, Undisturbed!Return,
         Undisturbed!Locks, Undisturbed!brokerVars, Undisturbed!callVars,
         Undisturbed!streamVars, Undisturbed!history
<1>2. Undisturbed!RemoveTopic(h) <=> Alone!RemoveTopic(h)
  BY SameVars, SameHelpers
     DEF Alone!RemoveTopic, Alone!NoRequest, Alone!Return, Alone!Locks,
         Alone!brokerVars, Alone!callVars, Alone!streamVars, Alone!history,
         Undisturbed!RemoveTopic, Undisturbed!NoRequest, Undisturbed!Return,
         Undisturbed!Locks, Undisturbed!brokerVars, Undisturbed!callVars,
         Undisturbed!streamVars, Undisturbed!history
<1>3. Undisturbed!AddSubscriber(h) <=> Alone!AddSubscriber(h)
  BY SameVars, SameHelpers
     DEF Alone!AddSubscriber, Alone!NoRequest, Alone!Return, Alone!Locks,
         Alone!brokerVars, Alone!callVars, Alone!streamVars, Alone!history,
         Undisturbed!AddSubscriber, Undisturbed!NoRequest, Undisturbed!Return,
         Undisturbed!Locks, Undisturbed!brokerVars, Undisturbed!callVars,
         Undisturbed!streamVars, Undisturbed!history
<1>4. Undisturbed!RemoveSubscriber(h) <=> Alone!RemoveSubscriber(h)
  BY SameVars, SameHelpers
     DEF Alone!RemoveSubscriber, Alone!NoRequest, Alone!Return, Alone!Locks,
         Alone!brokerVars, Alone!callVars, Alone!streamVars, Alone!history,
         Undisturbed!RemoveSubscriber, Undisturbed!NoRequest,
         Undisturbed!Return, Undisturbed!Locks, Undisturbed!brokerVars,
         Undisturbed!callVars, Undisturbed!streamVars, Undisturbed!history
<1>5. Undisturbed!PublishLock(h) <=> Alone!PublishLock(h)
  BY SameVars, SameHelpers
     DEF Alone!PublishLock, Alone!NoRequest, Alone!Return, Alone!Locks,
         Alone!brokerVars, Alone!callVars, Alone!streamVars, Alone!history,
         Undisturbed!PublishLock, Undisturbed!NoRequest, Undisturbed!Return,
         Undisturbed!Locks, Undisturbed!brokerVars, Undisturbed!callVars,
         Undisturbed!streamVars, Undisturbed!history
<1>6. Undisturbed!ConsumeLock(h) <=> Alone!ConsumeLock(h)
  BY SameVars, SameHelpers
     DEF Alone!ConsumeLock, Alone!NoRequest, Alone!Return, Alone!Locks,
         Alone!brokerVars, Alone!callVars, Alone!streamVars, Alone!history,
         Undisturbed!ConsumeLock, Undisturbed!NoRequest, Undisturbed!Return,
         Undisturbed!Locks, Undisturbed!brokerVars, Undisturbed!callVars,
         Undisturbed!streamVars, Undisturbed!history
<1>7. Undisturbed!ConsumePanics(h) <=> Alone!ConsumePanics(h)
  BY SameVars, SameHelpers
     DEF Alone!ConsumePanics, Alone!NoRequest, Alone!Return, Alone!Locks,
         Alone!brokerVars, Alone!callVars, Alone!streamVars, Alone!history,
         Undisturbed!ConsumePanics, Undisturbed!NoRequest, Undisturbed!Return,
         Undisturbed!Locks, Undisturbed!brokerVars, Undisturbed!callVars,
         Undisturbed!streamVars, Undisturbed!history
<1> QED
  BY <1>1, <1>2, <1>3, <1>4, <1>5, <1>6, <1>7
     DEF Alone!LockStep, Undisturbed!LockStep

LEMMA SameOwnStep ==
  ASSUME NEW h \in Handlers
  PROVE  Undisturbed!OwnStep(h) <=> Alone!OwnStep(h)
<1>1. Undisturbed!PublishPush(h) <=> Alone!PublishPush(h)
  BY SameVars, SameHelpers
     DEF Alone!PublishPush, Alone!NoRequest, Alone!Return, Alone!Locks,
         Alone!brokerVars, Alone!callVars, Alone!streamVars, Alone!history,
         Undisturbed!PublishPush, Undisturbed!NoRequest, Undisturbed!Return,
         Undisturbed!Locks, Undisturbed!brokerVars, Undisturbed!callVars,
         Undisturbed!streamVars, Undisturbed!history
<1>2. Undisturbed!PublishUnlock(h) <=> Alone!PublishUnlock(h)
  BY SameVars, SameHelpers
     DEF Alone!PublishUnlock, Alone!NoRequest, Alone!Return, Alone!Locks,
         Alone!brokerVars, Alone!callVars, Alone!streamVars, Alone!history,
         Undisturbed!PublishUnlock, Undisturbed!NoRequest, Undisturbed!Return,
         Undisturbed!Locks, Undisturbed!brokerVars, Undisturbed!callVars,
         Undisturbed!streamVars, Undisturbed!history
<1>3. Undisturbed!PublishAck(h) <=> Alone!PublishAck(h)
  BY SameVars, SameHelpers
     DEF Alone!PublishAck, Alone!NoRequest, Alone!Return, Alone!Locks,
         Alone!brokerVars, Alone!callVars, Alone!streamVars, Alone!history,
         Undisturbed!PublishAck, Undisturbed!NoRequest, Undisturbed!Return,
         Undisturbed!Locks, Undisturbed!brokerVars, Undisturbed!callVars,
         Undisturbed!streamVars, Undisturbed!history
<1>4. Undisturbed!ConsumeSend(h) <=> Alone!ConsumeSend(h)
  BY SameVars, SameHelpers
     DEF Alone!ConsumeSend, Alone!NoRequest, Alone!Return, Alone!Locks,
         Alone!brokerVars, Alone!callVars, Alone!streamVars, Alone!history,
         Undisturbed!ConsumeSend, Undisturbed!NoRequest, Undisturbed!Return,
         Undisturbed!Locks, Undisturbed!brokerVars, Undisturbed!callVars,
         Undisturbed!streamVars, Undisturbed!history
<1>5. Undisturbed!ConsumeSendError(h) <=> Alone!ConsumeSendError(h)
  BY SameVars, SameHelpers
     DEF Alone!ConsumeSendError, Alone!NoRequest, Alone!Return, Alone!Locks,
         Alone!brokerVars, Alone!callVars, Alone!streamVars, Alone!history,
         Undisturbed!ConsumeSendError, Undisturbed!NoRequest,
         Undisturbed!Return, Undisturbed!Locks, Undisturbed!brokerVars,
         Undisturbed!callVars, Undisturbed!streamVars, Undisturbed!history
<1>6. Undisturbed!ConsumeUnlock(h) <=> Alone!ConsumeUnlock(h)
  BY SameVars, SameHelpers
     DEF Alone!ConsumeUnlock, Alone!NoRequest, Alone!Return, Alone!Locks,
         Alone!brokerVars, Alone!callVars, Alone!streamVars, Alone!history,
         Undisturbed!ConsumeUnlock, Undisturbed!NoRequest, Undisturbed!Return,
         Undisturbed!Locks, Undisturbed!brokerVars, Undisturbed!callVars,
         Undisturbed!streamVars, Undisturbed!history
<1> QED
  BY <1>1, <1>2, <1>3, <1>4, <1>5, <1>6
     DEF Alone!OwnStep, Undisturbed!OwnStep

LEMMA SameClientStep ==
  ASSUME NEW h \in Handlers
  PROVE  Undisturbed!ClientStep(h) <=> Alone!ClientStep(h)
<1>1. Undisturbed!Call(h) <=> Alone!Call(h)
  BY SameVars, SameHelpers
     DEF Alone!Call, Alone!NoRequest, Alone!Return, Alone!Locks,
         Alone!brokerVars, Alone!callVars, Alone!streamVars, Alone!history,
         Undisturbed!Call, Undisturbed!NoRequest, Undisturbed!Return,
         Undisturbed!Locks, Undisturbed!brokerVars, Undisturbed!callVars,
         Undisturbed!streamVars, Undisturbed!history
<1>2. Undisturbed!ClientRead(h) <=> Alone!ClientRead(h)
  BY SameVars, SameHelpers
     DEF Alone!ClientRead, Alone!NoRequest, Alone!Return, Alone!Locks,
         Alone!brokerVars, Alone!callVars, Alone!streamVars, Alone!history,
         Undisturbed!ClientRead, Undisturbed!NoRequest, Undisturbed!Return,
         Undisturbed!Locks, Undisturbed!brokerVars, Undisturbed!callVars,
         Undisturbed!streamVars, Undisturbed!history
<1>3. Undisturbed!ClientBreak(h) <=> Alone!ClientBreak(h)
  BY SameVars, SameHelpers
     DEF Alone!ClientBreak, Alone!NoRequest, Alone!Return, Alone!Locks,
         Alone!brokerVars, Alone!callVars, Alone!streamVars, Alone!history,
         Undisturbed!ClientBreak, Undisturbed!NoRequest, Undisturbed!Return,
         Undisturbed!Locks, Undisturbed!brokerVars, Undisturbed!callVars,
         Undisturbed!streamVars, Undisturbed!history
<1>4. Undisturbed!PublishRecv(h) <=> Alone!PublishRecv(h)
  BY SameVars, SameHelpers
     DEF Alone!PublishRecv, Alone!NoRequest, Alone!Return, Alone!Locks,
         Alone!brokerVars, Alone!callVars, Alone!streamVars, Alone!history,
         Undisturbed!PublishRecv, Undisturbed!NoRequest, Undisturbed!Return,
         Undisturbed!Locks, Undisturbed!brokerVars, Undisturbed!callVars,
         Undisturbed!streamVars, Undisturbed!history
<1>5. Undisturbed!PublishEnd(h) <=> Alone!PublishEnd(h)
  BY SameVars, SameHelpers
     DEF Alone!PublishEnd, Alone!NoRequest, Alone!Return, Alone!Locks,
         Alone!brokerVars, Alone!callVars, Alone!streamVars, Alone!history,
         Undisturbed!PublishEnd, Undisturbed!NoRequest, Undisturbed!Return,
         Undisturbed!Locks, Undisturbed!brokerVars, Undisturbed!callVars,
         Undisturbed!streamVars, Undisturbed!history
<1> QED
  BY <1>1, <1>2, <1>3, <1>4, <1>5
     DEF Alone!ClientStep, Undisturbed!ClientStep

LEMMA SameSpec == Undisturbed!Spec => Alone!Spec
<1>1. Undisturbed!Init => Alone!Init
  BY DEF Undisturbed!Init, Alone!Init, Undisturbed!NoRequest, Alone!NoRequest
<1>2. Undisturbed!Next => Alone!Next
  BY SameLockStep, SameOwnStep, SameClientStep
     DEF Undisturbed!Next, Alone!Next
<1>3. [Undisturbed!Next]_Undisturbed!vars => [Alone!Next]_Alone!vars
  BY <1>2, SameVars
<1> QED
  BY <1>1, <1>3, PTL DEF Undisturbed!Spec, Alone!Spec

LEMMA WatchedSpec == TelemetrySpec => Alone!Spec
BY WatchingIsHarmless, SameSpec, PTL DEF BrokerUndisturbed

\* quashserver.go:153 and :175-178, README.md:41.  With a dashboard open, the
\* loops of Publish and Consume have the map to themselves, the mailboxes are
\* ends of one log, and no value is handed out twice or out of order.
THEOREM WatchedBrokerDelivers ==
  TelemetrySpec => [](LoopsAreSafe /\ MailboxIsBacklog /\ HandedOutOnceInOrder)
<1>1. Alone!LoopsAreSafe => LoopsAreSafe
  BY DEF Alone!LoopsAreSafe, LoopsAreSafe
<1>2. Alone!MailboxIsBacklog => MailboxIsBacklog
  BY DEF Alone!MailboxIsBacklog, MailboxIsBacklog, Alone!Cursor, Cursor,
         Alone!Owed, Owed
<1>3. Alone!HandedOutOnceInOrder => HandedOutOnceInOrder
  BY DEF Alone!HandedOutOnceInOrder, HandedOutOnceInOrder
<1> QED
  BY <1>1, <1>2, <1>3, WatchedSpec, BrokerAssumption, Alone!LoopsSafe,
     Alone!MailboxesMatchLog, Alone!EachValueOnce, PTL

\* README.md:41.  With a dashboard open, the broker is still a log per topic
\* that every subscriber reads at a pace of its own.
THEOREM WatchedBrokerIsPubSub == TelemetrySpec => Alone!ImplementsPubSub
BY WatchedSpec, BrokerAssumption, Alone!MailboxesImplementPubSub, PTL
-----------------------------------------------------------------------------
(* Types *)

\* TelemetryTypeOK is not inductive: the page may be shown the metrics of a
\* reading under way only because they have been measured.
MeasuredWhenWritten == dash = "write" => reading.metrics \in Metrics

TypeInv == TelemetryTypeOK /\ MeasuredWhenWritten

\* What the types of a watched broker give the dashboard.
MapTypes ==
  /\ brokersLock \in Handlers \cup {NoOne, Dashboard}
  /\ topics \subseteq Topics
  /\ subs \in [Topics -> SUBSET SubIds]
  /\ mailbox \in [SubIds -> Seq(Nat)]

ReadingTypes ==
  /\ DOMAIN reading.topics \subseteq Topics
  /\ \A t \in DOMAIN reading.topics :
       /\ DOMAIN reading.topics[t] \subseteq SubIds
       /\ Range(reading.topics[t]) \subseteq Nat
  /\ reading.metrics \in Metrics \cup {NoReading.metrics}
  /\ MeasuredWhenWritten

PageTypes ==
  /\ dash \in {"none", "kv", "lock", "range", "measure", "write", "sleep"}
  /\ todoTopics \subseteq Topics
  /\ page \in {"away", "loading", "ready"}
  /\ gauge \in [Gauges -> Levels \cup {NoOne}]
  /\ last \in Metrics \cup {NoOne}

LEMMA TypeParts ==
  TypeInv <=> /\ brokersLock \in Handlers \cup {NoOne, Dashboard}
              /\ ReadingTypes /\ PageTypes
BY DEF TypeInv, TelemetryTypeOK, ReadingTypes, PageTypes

LEMMA WatchedTypes == Alone!TypeOK => MapTypes
BY DEF Alone!TypeOK, MapTypes, HandlersLock

LEMMA NothingReadTyped ==
  ASSUME reading' = NoReading, dash' # "write"
  PROVE  ReadingTypes'
BY NothingRead DEF ReadingTypes, MeasuredWhenWritten

\* Count of every subscriber of a topic.
LEMMA CountsTyped ==
  ASSUME MapTypes, NEW t \in Topics
  PROVE  LET c == [s \in subs[t] |-> Len(mailbox[s])] IN
         DOMAIN c \subseteq SubIds /\ Range(c) \subseteq Nat
<1>1. \A s \in subs[t] : s \in SubIds /\ Len(mailbox[s]) \in Nat
  BY DEF MapTypes
<1> QED
  BY <1>1 DEF MapTypes, Range

LEMMA ReadingTypesStep ==
  ASSUME RangeInv, MapTypes, ReadingTypes, PageTypes, [TelemetryNext]_allVars
  PROVE  ReadingTypes'
<1>1. CASE UNCHANGED <<dash, reading>>
  BY <1>1 DEF ReadingTypes, MeasuredWhenWritten
<1>2. CASE UnlockBrokers
  BY <1>2, EmptyDomain
     DEF UnlockBrokers, RangeInv, ReadingTypes, MeasuredWhenWritten
<1>3. CASE ReadKV \/ LockBrokers \/ Sleep \/ Open
  BY <1>3 DEF ReadKV, LockBrokers, Sleep, Open, ReadingTypes,
              MeasuredWhenWritten
<1>4. CASE CountTopic
  <2>1. PICK t \in todoTopics :
          reading' = [reading EXCEPT !.topics =
                        [u \in DOMAIN @ \cup {t} |->
                           IF u = t THEN [s \in subs[t] |-> Len(mailbox[s])]
                                    ELSE @[u]]]
    BY <1>4 DEF CountTopic
  <2>2. t \in Topics
    BY DEF PageTypes
  <2>3. /\ reading'.metrics = reading.metrics
        /\ reading'.topics =
             [u \in DOMAIN reading.topics \cup {t} |->
                IF u = t THEN [s \in subs[t] |-> Len(mailbox[s])]
                         ELSE reading.topics[u]]
    BY <2>1 DEF RangeInv
  <2>4. \A u \in DOMAIN reading'.topics :
          /\ DOMAIN reading'.topics[u] \subseteq SubIds
          /\ Range(reading'.topics[u]) \subseteq Nat
    BY <2>2, <2>3, CountsTyped DEF ReadingTypes
  <2> QED
    BY <1>4, <2>2, <2>3, <2>4
       DEF CountTopic, ReadingTypes, MeasuredWhenWritten
<1>5. CASE Measure
  BY <1>5 DEF Measure, RangeInv, ReadingTypes, MeasuredWhenWritten, Metrics
<1>6. CASE MeasureFails \/ Write
  BY <1>6, NothingReadTyped DEF MeasureFails, Write
<1> QED
  BY <1>1, <1>2, <1>3, <1>4, <1>5, <1>6
     DEF TelemetryNext, DashStep, BrowserStep, LoadCharts, Leave, allVars,
         telemetryVars, dashVars

LEMMA DrawnTyped ==
  ASSUME PageTypes, NEW m \in Metrics
  PROVE  Drawn(m) \in [Gauges -> Levels \cup {NoOne}]
BY DEF PageTypes, Metrics, Drawn

LEMMA PageTypesStep ==
  ASSUME MapTypes, ReadingTypes, PageTypes, [TelemetryNext]_allVars
  PROVE  PageTypes'
<1>1. CASE UNCHANGED telemetryVars
  BY <1>1 DEF telemetryVars, dashVars, pageVars, PageTypes
<1>2. CASE Open \/ LoadCharts \/ Leave
  BY <1>2 DEF Open, LoadCharts, Leave, dashVars, PageTypes
<1>3. CASE LockBrokers
  BY <1>3 DEF LockBrokers, pageVars, PageTypes, MapTypes
<1>4. CASE CountTopic
  BY <1>4 DEF CountTopic, pageVars, PageTypes
<1>5. CASE ReadKV \/ UnlockBrokers \/ Measure \/ MeasureFails \/ Sleep
  BY <1>5 DEF ReadKV, UnlockBrokers, Measure, MeasureFails, Sleep, pageVars,
              PageTypes
<1>6. CASE Write
  <2>1. reading.metrics \in Metrics
    BY <1>6 DEF Write, ReadingTypes, MeasuredWhenWritten
  <2>2. Drawn(reading.metrics) \in [Gauges -> Levels \cup {NoOne}]
    BY <2>1, DrawnTyped
  <2>3. gauge' \in {gauge, Drawn(reading.metrics)}
    BY <1>6 DEF Write, OnMessage
  <2>4. last' \in {last, reading.metrics} /\ dash' \in {"none", "sleep"}
    BY <1>6 DEF Write, OnMessage
  <2> QED
    BY <1>6, <2>1, <2>2, <2>3, <2>4 DEF Write, PageTypes
<1> QED
  BY <1>1, <1>2, <1>3, <1>4, <1>5, <1>6
     DEF TelemetryNext, DashStep, BrowserStep, allVars

\* Every variable of the dashboard and its page has its type: the mutex has a
\* known holder, a count is a natural number of a known subscriber, and a
\* gauge shows only what was measured.
THEOREM TelemetryTypeCorrect == TelemetrySpec => []TelemetryTypeOK
<1>1. TelemetrySpec => []Alone!TypeOK
  BY WatchedSpec, BrokerAssumption, Alone!TypeCorrect, PTL
<1>2. TelemetryInit => TypeInv
  BY TelemetryAssumption, NothingRead
     DEF TelemetryInit, Init, NoReading, TypeInv, TelemetryTypeOK,
         MeasuredWhenWritten
<1>3. /\ TypeInv /\ Alone!TypeOK /\ Alone!TypeOK' /\ RangeInv
      /\ [TelemetryNext]_allVars
      => TypeInv'
  <2> SUFFICES ASSUME TypeInv, Alone!TypeOK, Alone!TypeOK', RangeInv,
                      [TelemetryNext]_allVars
               PROVE  TypeInv'
    OBVIOUS
  <2>1. MapTypes /\ ReadingTypes /\ PageTypes
    BY WatchedTypes, TypeParts
  <2>2. (brokersLock \in Handlers \cup {NoOne, Dashboard})'
    BY DEF Alone!TypeOK, HandlersLock
  <2>3. ReadingTypes' /\ PageTypes'
    BY <2>1, ReadingTypesStep, PageTypesStep
  <2> QED
    BY <2>2, <2>3
       DEF TypeInv, TelemetryTypeOK, ReadingTypes, PageTypes
<1>4. TypeInv => TelemetryTypeOK
  BY DEF TypeInv
<1> QED
  BY <1>1, <1>2, <1>3, <1>4, RangeInvariance, PTL DEF TelemetrySpec
=============================================================================
