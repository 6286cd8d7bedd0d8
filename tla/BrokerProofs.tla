---------------------------- MODULE BrokerProofs ----------------------------
(***************************************************************************)
(* Proofs about Broker for any topics, subscriber ids, handlers, stream    *)
(* window and number of publications.                                      *)
(*                                                                         *)
(* SectionInv is inductive.  TypeOK alone is not: Consume takes the Head   *)
(* of a mailbox, which is a value only if the mailbox is not empty, which  *)
(* follows from its loop counter being the length of the mailbox, which    *)
(* nobody disturbs because the handler in the loop holds the lock.         *)
(***************************************************************************)
EXTENDS Broker, TLAPS

LEMMA RequestFacts ==
  ASSUME NEW r \in Requests
  PROVE  /\ r.topic \in Topics
         /\ r.op \in {"RemoveSubscriber", "Consume"} => r.sub \in SubIds
BY DEF Requests

THEOREM InitSection == Init => SectionInv
BY BrokerAssumption
   DEF Init, SectionInv, TypeOK, RequestsMatch, MutualExclusion, LoopsAreSafe,
       InSection, NoRequest

LEMMA ReturnFacts ==
  ASSUME TypeOK, NEW h \in Handlers, Return(h)
  PROVE  /\ pc' \in [Handlers -> {"idle", "lock", "push", "ack", "recv",
                                  "drain", "dead"}]
         /\ req' \in [Handlers -> Requests \cup {NoRequest}]
         /\ todo' \in [Handlers -> SUBSET SubIds]
         /\ left' \in [Handlers -> Nat]
         /\ broken' \subseteq Handlers
         /\ pc'[h] = "idle"
         /\ \A g \in Handlers \ {h} :
              /\ pc'[g] = pc[g]
              /\ req'[g] = req[g]
              /\ todo'[g] = todo[g]
              /\ left'[g] = left[g]
BY DEF TypeOK, Return

LEMMA UnarySection ==
  ASSUME SectionInv, NEW h \in Handlers, brokersLock = NoOne,
         Return(h), UNCHANGED brokersLock,
         topics' \subseteq Topics, subs' \in [Topics -> SUBSET SubIds],
         mailbox' \in [SubIds -> Seq(Nat)], issued' \subseteq SubIds,
         log' \in [Topics -> Seq(Nat)],
         UNCHANGED <<unread, published, sent, lost>>
  PROVE  SectionInv'
<1>1. /\ \A g \in Handlers : ~InSection(g)
      /\ \A g \in Handlers : ~InSection(g)'
  BY BrokerAssumption, ReturnFacts
     DEF SectionInv, MutualExclusion, InSection
<1>2. TypeOK'
  BY ReturnFacts DEF SectionInv, TypeOK
<1>3. RequestsMatch'
  BY ReturnFacts DEF SectionInv, RequestsMatch
<1>4. MutualExclusion' /\ LoopsAreSafe'
  BY <1>1 DEF MutualExclusion, LoopsAreSafe, InSection
<1> QED
  BY <1>2, <1>3, <1>4 DEF SectionInv

LEMMA CreateTopicSection ==
  ASSUME SectionInv, NEW h \in Handlers, CreateTopic(h)
  PROVE  SectionInv'
<1>1. req[h] \in Requests
  BY DEF CreateTopic, Locks, SectionInv, RequestsMatch
<1>2. /\ topics' \subseteq Topics
      /\ subs' \in [Topics -> SUBSET SubIds]
  BY <1>1, RequestFacts DEF CreateTopic, SectionInv, TypeOK
<1> QED
  BY <1>2, UnarySection
     DEF CreateTopic, Locks, history, SectionInv, TypeOK

LEMMA RemoveTopicSection ==
  ASSUME SectionInv, NEW h \in Handlers, RemoveTopic(h)
  PROVE  SectionInv'
<1>1. req[h] \in Requests
  BY DEF RemoveTopic, Locks, SectionInv, RequestsMatch
<1>2. /\ topics' \subseteq Topics
      /\ subs' \in [Topics -> SUBSET SubIds]
      /\ mailbox' \in [SubIds -> Seq(Nat)]
      /\ log' \in [Topics -> Seq(Nat)]
  BY <1>1, RequestFacts DEF RemoveTopic, SectionInv, TypeOK
<1> QED
  BY <1>2, UnarySection
     DEF RemoveTopic, Locks, SectionInv, TypeOK

LEMMA AddSubscriberSection ==
  ASSUME SectionInv, NEW h \in Handlers, AddSubscriber(h)
  PROVE  SectionInv'
<1>1. req[h] \in Requests
  BY DEF AddSubscriber, Locks, SectionInv, RequestsMatch
<1>2. /\ topics' \subseteq Topics
      /\ subs' \in [Topics -> SUBSET SubIds]
      /\ mailbox' \in [SubIds -> Seq(Nat)]
      /\ issued' \subseteq SubIds
  <2>1. CASE UNCHANGED brokerVars
    BY <2>1 DEF brokerVars, SectionInv, TypeOK
  <2>2. CASE req[h].topic \in topics /\ ~UNCHANGED brokerVars
    <3>1. PICK s \in SubIds \ issued :
            /\ issued' = issued \cup {s}
            /\ subs' = [subs EXCEPT ![req[h].topic] = @ \cup {s}]
            /\ mailbox' = [mailbox EXCEPT ![s] = <<>>]
      BY <2>2 DEF AddSubscriber
    <3>2. topics' = topics
      BY <2>2 DEF AddSubscriber
    <3> QED
      BY <1>1, <3>1, <3>2, RequestFacts DEF SectionInv, TypeOK
  <2> QED
    BY <2>1, <2>2 DEF AddSubscriber
<1> QED
  BY <1>2, UnarySection
     DEF AddSubscriber, Locks, history, SectionInv, TypeOK

LEMMA RemoveSubscriberSection ==
  ASSUME SectionInv, NEW h \in Handlers, RemoveSubscriber(h)
  PROVE  SectionInv'
<1>1. req[h] \in Requests
  BY DEF RemoveSubscriber, Locks, SectionInv, RequestsMatch
<1>2. /\ subs' \in [Topics -> SUBSET SubIds]
      /\ mailbox' \in [SubIds -> Seq(Nat)]
  BY <1>1, RequestFacts DEF RemoveSubscriber, SectionInv, TypeOK
<1> QED
  BY <1>2, UnarySection
     DEF RemoveSubscriber, Locks, history, SectionInv, TypeOK
-----------------------------------------------------------------------------
(* The streaming handlers *)

LEMMA PublishLockSection ==
  ASSUME SectionInv, NEW h \in Handlers, PublishLock(h)
  PROVE  SectionInv'
<1>1. req[h] \in Requests /\ req[h].topic \in Topics /\ req[h].op = "Publish"
  BY RequestFacts DEF PublishLock, Locks, SectionInv, RequestsMatch
<1>2. \A g \in Handlers : ~InSection(g)
  BY BrokerAssumption
     DEF PublishLock, Locks, SectionInv, MutualExclusion
<1>3. TypeOK'
  BY <1>1 DEF PublishLock, SectionInv, TypeOK, brokerVars, streamVars
<1>4. RequestsMatch'
  BY <1>1 DEF PublishLock, SectionInv, TypeOK, RequestsMatch
<1>5. MutualExclusion' /\ LoopsAreSafe'
  BY <1>1, <1>2
     DEF PublishLock, SectionInv, TypeOK, MutualExclusion, LoopsAreSafe,
         InSection, brokerVars
<1> QED
  BY <1>3, <1>4, <1>5 DEF SectionInv

LEMMA PublishPushSection ==
  ASSUME SectionInv, NEW h \in Handlers, PublishPush(h)
  PROVE  SectionInv'
<1>1. PICK s \in todo[h] :
        /\ mailbox' = [mailbox EXCEPT ![s] = Append(@, published)]
        /\ todo' = [todo EXCEPT ![h] = @ \ {s}]
  BY DEF PublishPush
<1>2. TypeOK'
  BY <1>1 DEF PublishPush, SectionInv, TypeOK, streamVars, history
<1>3. RequestsMatch'
  BY DEF PublishPush, SectionInv, RequestsMatch
<1>4. MutualExclusion' /\ LoopsAreSafe'
  BY <1>1
     DEF PublishPush, SectionInv, TypeOK, MutualExclusion, LoopsAreSafe,
         InSection
<1> QED
  BY <1>2, <1>3, <1>4 DEF SectionInv

LEMMA PublishUnlockSection ==
  ASSUME SectionInv, NEW h \in Handlers, PublishUnlock(h)
  PROVE  SectionInv'
<1>1. TypeOK'
  BY DEF PublishUnlock, SectionInv, TypeOK, brokerVars, streamVars, history
<1>2. RequestsMatch'
  BY DEF PublishUnlock, SectionInv, TypeOK, RequestsMatch
<1>3. MutualExclusion' /\ LoopsAreSafe'
  BY DEF PublishUnlock, SectionInv, TypeOK, MutualExclusion, LoopsAreSafe,
         InSection, brokerVars
<1> QED
  BY <1>1, <1>2, <1>3 DEF SectionInv

\* A step that neither enters nor leaves a section, and changes no mailbox.
LEMMA OutsideSection ==
  ASSUME SectionInv, TypeOK', RequestsMatch', NEW h \in Handlers,
         UNCHANGED <<brokersLock, subs, mailbox>>,
         ~InSection(h), ~InSection(h)',
         \A g \in Handlers \ {h} :
           /\ pc'[g] = pc[g]
           /\ req'[g] = req[g]
           /\ todo'[g] = todo[g]
           /\ left'[g] = left[g]
  PROVE  SectionInv'
<1>1. MutualExclusion' /\ LoopsAreSafe'
  BY DEF SectionInv, MutualExclusion, LoopsAreSafe, InSection
<1> QED
  BY <1>1 DEF SectionInv

LEMMA PublishAckSection ==
  ASSUME SectionInv, NEW h \in Handlers, PublishAck(h)
  PROVE  SectionInv'
<1>1. CASE h \notin broken
  <2>1. TypeOK'
    BY <1>1 DEF PublishAck, SectionInv, TypeOK, brokerVars, history
  <2>2. RequestsMatch'
    BY <1>1 DEF PublishAck, SectionInv, TypeOK, RequestsMatch
  <2> QED
    BY <1>1, <2>1, <2>2, OutsideSection
       DEF PublishAck, SectionInv, TypeOK, InSection, brokerVars
<1>2. CASE Return(h)
  <2>1. TypeOK'
    BY <1>2, ReturnFacts DEF PublishAck, SectionInv, TypeOK, brokerVars, history
  <2>2. RequestsMatch'
    BY <1>2, ReturnFacts DEF SectionInv, RequestsMatch
  <2> QED
    BY <1>2, <2>1, <2>2, ReturnFacts, OutsideSection
       DEF PublishAck, SectionInv, InSection, brokerVars
<1> QED
  BY <1>1, <1>2 DEF PublishAck

LEMMA PublishRecvSection ==
  ASSUME SectionInv, NEW h \in Handlers, PublishRecv(h)
  PROVE  SectionInv'
<1>1. PICK t \in Topics : req' = [req EXCEPT ![h].topic = t]
  BY DEF PublishRecv
<1>2. req[h] \in Requests /\ req[h].op = "Publish"
  BY DEF PublishRecv, SectionInv, RequestsMatch
<1>3. req'[h] \in Requests /\ req'[h].op = "Publish"
  BY <1>1, <1>2 DEF Requests, SectionInv, TypeOK
<1>4. \A g \in Handlers \ {h} : req'[g] = req[g]
  BY <1>1 DEF SectionInv, TypeOK
<1>5. req' \in [Handlers -> Requests \cup {NoRequest}]
  BY <1>1, <1>3, <1>4 DEF SectionInv, TypeOK
<1>6. TypeOK'
  BY <1>5 DEF PublishRecv, SectionInv, TypeOK, brokerVars, streamVars, history
<1>7. RequestsMatch'
  BY <1>3, <1>4 DEF PublishRecv, SectionInv, TypeOK, RequestsMatch
<1> QED
  BY <1>4, <1>6, <1>7, OutsideSection
     DEF PublishRecv, SectionInv, TypeOK, InSection, brokerVars

LEMMA PublishEndSection ==
  ASSUME SectionInv, NEW h \in Handlers, PublishEnd(h)
  PROVE  SectionInv'
<1>1. TypeOK'
  BY ReturnFacts DEF PublishEnd, SectionInv, TypeOK, brokerVars, history
<1>2. RequestsMatch'
  BY ReturnFacts DEF PublishEnd, SectionInv, RequestsMatch
<1> QED
  BY <1>1, <1>2, ReturnFacts, OutsideSection
     DEF PublishEnd, SectionInv, InSection, brokerVars

LEMMA ConsumeLockSection ==
  ASSUME SectionInv, NEW h \in Handlers, ConsumeLock(h)
  PROVE  SectionInv'
<1>1. /\ req[h] \in Requests
      /\ req[h].topic \in Topics
      /\ req[h].op = "Consume"
      /\ req[h].sub \in SubIds
  BY RequestFacts DEF ConsumeLock, Locks, SectionInv, RequestsMatch
<1>2. \A g \in Handlers : ~InSection(g)
  BY BrokerAssumption
     DEF ConsumeLock, Locks, SectionInv, MutualExclusion
<1>3. Len(mailbox[req[h].sub]) \in Nat
  BY <1>1 DEF SectionInv, TypeOK
<1>4. TypeOK'
  BY <1>3 DEF ConsumeLock, SectionInv, TypeOK, brokerVars, streamVars, history
<1>5. RequestsMatch'
  BY <1>1 DEF ConsumeLock, SectionInv, TypeOK, RequestsMatch
<1>6. MutualExclusion' /\ LoopsAreSafe'
  BY <1>1, <1>2
     DEF ConsumeLock, SectionInv, TypeOK, MutualExclusion, LoopsAreSafe,
         InSection, brokerVars
<1> QED
  BY <1>4, <1>5, <1>6 DEF SectionInv

LEMMA ConsumePanicsSection ==
  ASSUME SectionInv, NEW h \in Handlers, ConsumePanics(h)
  PROVE  SectionInv'
<1>1. TypeOK'
  BY DEF ConsumePanics, SectionInv, TypeOK, brokerVars, history
<1>2. RequestsMatch'
  BY DEF ConsumePanics, RequestsMatch
<1>3. MutualExclusion' /\ LoopsAreSafe'
  BY DEF ConsumePanics, MutualExclusion, LoopsAreSafe, InSection
<1> QED
  BY <1>1, <1>2, <1>3 DEF SectionInv

\* What Consume finds at the head of its loop: Pop has something to take.
LEMMA PopFacts ==
  ASSUME SectionInv, NEW h \in Handlers, pc[h] = "drain", left[h] > 0
  PROVE  LET s == req[h].sub IN
           /\ s \in SubIds
           /\ req[h].topic \in Topics
           /\ mailbox[s] \in Seq(Nat)
           /\ mailbox[s] # <<>>
           /\ Head(mailbox[s]) \in Nat
           /\ Tail(mailbox[s]) \in Seq(Nat)
           /\ Len(Tail(mailbox[s])) = left[h] - 1
           /\ left[h] \in Nat
<1>1. req[h].sub \in SubIds /\ req[h].topic \in Topics
  BY RequestFacts DEF SectionInv, RequestsMatch
<1>2. /\ mailbox[req[h].sub] \in Seq(Nat)
      /\ Len(mailbox[req[h].sub]) = left[h]
      /\ left[h] \in Nat
  BY <1>1 DEF SectionInv, TypeOK, LoopsAreSafe
<1>3. mailbox[req[h].sub] # <<>>
  BY <1>2
<1> QED
  BY <1>1, <1>2, <1>3

LEMMA ConsumeSendSection ==
  ASSUME SectionInv, NEW h \in Handlers, ConsumeSend(h)
  PROVE  SectionInv'
<1> DEFINE s == req[h].sub
<1>1. /\ s \in SubIds
      /\ Head(mailbox[s]) \in Nat
      /\ Tail(mailbox[s]) \in Seq(Nat)
      /\ Len(Tail(mailbox[s])) = left[h] - 1
      /\ left[h] \in Nat
      /\ left[h] > 0
  BY PopFacts DEF ConsumeSend
<1>2. /\ mailbox' = [mailbox EXCEPT ![s] = Tail(mailbox[s])]
      /\ sent' = [sent EXCEPT ![s] = Append(sent[s], Head(mailbox[s]))]
      /\ left' = [left EXCEPT ![h] = left[h] - 1]
  BY DEF ConsumeSend
<1> HIDE DEF s
<1>3. /\ mailbox' \in [SubIds -> Seq(Nat)]
      /\ sent' \in [SubIds -> Seq(Nat)]
      /\ left' \in [Handlers -> Nat]
  BY <1>1, <1>2 DEF SectionInv, TypeOK
<1>4. TypeOK'
  <2>1. unread' \in [Handlers -> Nat]
    BY DEF ConsumeSend, SectionInv, TypeOK
  <2>2. UNCHANGED <<brokersLock, topics, subs, issued, pc, req, todo, broken,
                    published, log, lost>>
    BY DEF ConsumeSend
  <2> QED
    BY <1>3, <2>1, <2>2 DEF SectionInv, TypeOK
<1>5. RequestsMatch'
  BY DEF ConsumeSend, SectionInv, RequestsMatch
<1>6. MutualExclusion'
  BY DEF ConsumeSend, SectionInv, MutualExclusion, InSection
<1>7. \A g \in Handlers : InSection(g) => g = h
  BY DEF ConsumeSend, SectionInv, MutualExclusion, InSection
<1>8. LoopsAreSafe'
  BY <1>1, <1>2, <1>7
     DEF ConsumeSend, SectionInv, TypeOK, LoopsAreSafe, InSection, s
<1> QED
  BY <1>4, <1>5, <1>6, <1>8 DEF SectionInv

LEMMA ConsumeSendErrorSection ==
  ASSUME SectionInv, NEW h \in Handlers, ConsumeSendError(h)
  PROVE  SectionInv'
<1>1. /\ req[h].sub \in SubIds
      /\ Tail(mailbox[req[h].sub]) \in Seq(Nat)
  BY PopFacts DEF ConsumeSendError
<1>2. TypeOK'
  BY <1>1, ReturnFacts DEF ConsumeSendError, SectionInv, TypeOK
<1>3. RequestsMatch'
  BY ReturnFacts DEF ConsumeSendError, SectionInv, RequestsMatch
<1>4. \A g \in Handlers : ~InSection(g)'
  BY ReturnFacts
     DEF ConsumeSendError, SectionInv, MutualExclusion, InSection
<1>5. MutualExclusion' /\ LoopsAreSafe'
  BY <1>4 DEF MutualExclusion, LoopsAreSafe, InSection
<1> QED
  BY <1>2, <1>3, <1>5 DEF SectionInv

LEMMA ConsumeUnlockSection ==
  ASSUME SectionInv, NEW h \in Handlers, ConsumeUnlock(h)
  PROVE  SectionInv'
<1>1. TypeOK'
  BY ReturnFacts DEF ConsumeUnlock, SectionInv, TypeOK, brokerVars, history
<1>2. RequestsMatch'
  BY ReturnFacts DEF ConsumeUnlock, SectionInv, RequestsMatch
<1>3. \A g \in Handlers : ~InSection(g)'
  BY ReturnFacts
     DEF ConsumeUnlock, SectionInv, MutualExclusion, InSection
<1>4. MutualExclusion' /\ LoopsAreSafe'
  BY <1>3 DEF MutualExclusion, LoopsAreSafe, InSection
<1> QED
  BY <1>1, <1>2, <1>4 DEF SectionInv
-----------------------------------------------------------------------------
(* The client's steps *)

LEMMA CallSection ==
  ASSUME SectionInv, NEW h \in Handlers, Call(h)
  PROVE  SectionInv'
<1>1. PICK r \in Requests : req' = [req EXCEPT ![h] = r]
  BY DEF Call
<1>2. TypeOK'
  BY <1>1 DEF Call, SectionInv, TypeOK, brokerVars, streamVars, history
<1>3. RequestsMatch'
  BY <1>1 DEF Call, SectionInv, TypeOK, RequestsMatch
<1> QED
  BY <1>1, <1>2, <1>3, OutsideSection
     DEF Call, SectionInv, TypeOK, InSection, brokerVars

LEMMA ClientReadSection ==
  ASSUME SectionInv, NEW h \in Handlers, ClientRead(h)
  PROVE  SectionInv'
<1>1. TypeOK'
  BY DEF ClientRead, SectionInv, TypeOK, brokerVars, callVars, history
<1> QED
  BY <1>1
     DEF ClientRead, SectionInv, RequestsMatch, MutualExclusion, LoopsAreSafe,
         InSection, brokerVars, callVars

LEMMA ClientBreakSection ==
  ASSUME SectionInv, NEW h \in Handlers, ClientBreak(h)
  PROVE  SectionInv'
<1>1. TypeOK'
  BY DEF ClientBreak, SectionInv, TypeOK, brokerVars, callVars, history
<1> QED
  BY <1>1
     DEF ClientBreak, SectionInv, RequestsMatch, MutualExclusion, LoopsAreSafe,
         InSection, brokerVars, callVars
-----------------------------------------------------------------------------
(* All steps, and the theorems *)

LEMMA NextSection == SectionInv /\ [Next]_vars => SectionInv'
<1> SUFFICES ASSUME SectionInv, [Next]_vars
             PROVE  SectionInv'
  OBVIOUS
<1>1. CASE UNCHANGED vars
  BY <1>1
     DEF vars, brokerVars, callVars, streamVars, history, SectionInv, TypeOK,
         RequestsMatch, MutualExclusion, LoopsAreSafe, InSection
<1>2. ASSUME NEW h \in Handlers, LockStep(h)
      PROVE  SectionInv'
  BY <1>2, CreateTopicSection, RemoveTopicSection, AddSubscriberSection,
     RemoveSubscriberSection, PublishLockSection, ConsumeLockSection,
     ConsumePanicsSection
     DEF LockStep
<1>3. ASSUME NEW h \in Handlers, OwnStep(h)
      PROVE  SectionInv'
  BY <1>3, PublishPushSection, PublishUnlockSection, PublishAckSection,
     ConsumeSendSection, ConsumeSendErrorSection, ConsumeUnlockSection
     DEF OwnStep
<1>4. ASSUME NEW h \in Handlers, ClientStep(h)
      PROVE  SectionInv'
  BY <1>4, CallSection, ClientReadSection, ClientBreakSection,
     PublishRecvSection, PublishEndSection
     DEF ClientStep
<1> QED
  BY <1>1, <1>2, <1>3, <1>4 DEF Next

\* The inductive invariant holds in every reachable state: one handler at a
\* time is between Lock and Unlock, and the loops it runs there are safe.
THEOREM SectionInvariance == Spec => []SectionInv
BY InitSection, NextSection, PTL DEF Spec

\* Every variable keeps its type; in particular Pop never finds an empty
\* queue, which would put something that is no value into sent.
THEOREM TypeCorrect == Spec => []TypeOK
<1>1. SectionInv => TypeOK
  BY DEF SectionInv
<1> QED
  BY <1>1, SectionInvariance, PTL

\* The map does not move under the loops of Publish (quashserver.go:152-154)
\* and Consume (:176-184): the one pushes to mailboxes that exist, the other
\* pops as often as there is something to pop.
THEOREM LoopsSafe == Spec => []LoopsAreSafe
<1>1. SectionInv => LoopsAreSafe
  BY DEF SectionInv
<1> QED
  BY <1>1, SectionInvariance, PTL

-----------------------------------------------------------------------------
(* Who may leave the lock held *)

LEMMA LeakStep ==
  ASSUME SectionInv, [Next]_vars, ~LockLeaked, LockLeaked', ~Panicked'
  PROVE  \E h \in Handlers :
           req[h].op = "Consume" /\ h \in broken /\ left[h] > 0
<1>1. PICK k \in Handlers : brokersLock' = k /\ ~InSection(k)'
  BY DEF LockLeaked
<1>2. brokersLock = k => InSection(k)
  BY DEF LockLeaked
<1>3. brokersLock' # NoOne
  BY <1>1, BrokerAssumption
<1>4. CASE UNCHANGED vars
  BY <1>1, <1>2, <1>4 DEF vars, callVars, InSection
<1>5. ASSUME NEW h \in Handlers, LockStep(h)
      PROVE  FALSE
  <2>1. CASE CreateTopic(h) \/ RemoveTopic(h) \/ AddSubscriber(h)
             \/ RemoveSubscriber(h)
    BY <1>3, <2>1
       DEF CreateTopic, RemoveTopic, AddSubscriber, RemoveSubscriber, Locks
  <2>2. CASE PublishLock(h) \/ ConsumeLock(h)
    BY <1>1, <2>2 DEF PublishLock, ConsumeLock, InSection, SectionInv, TypeOK
  <2>3. CASE ConsumePanics(h)
    BY <2>3 DEF ConsumePanics, Panicked
  <2> QED
    BY <1>5, <2>1, <2>2, <2>3 DEF LockStep
<1>6. ASSUME NEW h \in Handlers, OwnStep(h), ~ConsumeSendError(h)
      PROVE  FALSE
  <2>1. CASE PublishPush(h) \/ ConsumeSend(h)
    BY <1>1, <1>2, <2>1 DEF PublishPush, ConsumeSend, InSection
  <2>2. CASE PublishUnlock(h) \/ ConsumeUnlock(h)
    BY <1>3, <2>2 DEF PublishUnlock, ConsumeUnlock
  <2>3. CASE PublishAck(h)
    <3>1. \A g \in Handlers : InSection(g) => InSection(g)'
      BY <2>3 DEF PublishAck, Return, InSection, SectionInv, TypeOK
    <3> QED
      BY <1>1, <1>2, <2>3, <3>1 DEF PublishAck
  <2> QED
    BY <1>6, <2>1, <2>2, <2>3 DEF OwnStep
<1>7. ASSUME NEW h \in Handlers, ClientStep(h)
      PROVE  FALSE
  <2>1. brokersLock' = brokersLock
    BY <1>7
       DEF ClientStep, Call, ClientRead, ClientBreak, PublishRecv, PublishEnd
  <2>2. \A g \in Handlers : InSection(g) => InSection(g)'
    BY <1>7
       DEF ClientStep, Call, ClientRead, ClientBreak, PublishRecv, PublishEnd,
           Return, callVars, InSection, SectionInv, TypeOK
  <2> QED
    BY <1>1, <1>2, <2>1, <2>2
<1>8. ASSUME NEW h \in Handlers, ConsumeSendError(h)
      PROVE  req[h].op = "Consume" /\ h \in broken /\ left[h] > 0
  BY <1>8 DEF ConsumeSendError, SectionInv, RequestsMatch
<1> QED
  BY <1>4, <1>5, <1>6, <1>7, <1>8 DEF Next

\* quashserver.go:182 against :155, :185 and the deferred Unlocks: a failed
\* Send in Consume is the only step after which the lock is held for good.
THEOREM LeakOnlyByFailedSend == Spec => OnlyFailedSendLeaks
<1>1. SectionInv /\ [Next]_vars
        => [(~LockLeaked /\ LockLeaked' /\ ~Panicked')
              => \E h \in Handlers :
                   /\ req[h].op = "Consume"
                   /\ h \in broken
                   /\ left[h] > 0]_vars
  BY LeakStep
<1> QED
  BY <1>1, SectionInvariance, PTL DEF Spec, OnlyFailedSendLeaks
-----------------------------------------------------------------------------
(* What a Consume that ends leaves behind *)

LEMMA DrainStep ==
  ASSUME SectionInv, [Next]_vars, NEW h \in Handlers,
         pc[h] = "drain", pc'[h] = "idle", brokersLock' = NoOne
  PROVE  mailbox'[req[h].sub] = <<>>
<1>1. brokersLock = h /\ h # NoOne
  BY BrokerAssumption DEF SectionInv, MutualExclusion, InSection
<1>2. \A g \in Handlers : InSection(g) => g = h
  BY <1>1 DEF SectionInv, MutualExclusion
<1>3. CASE UNCHANGED vars
  BY <1>1, <1>3 DEF vars
<1>4. ASSUME NEW g \in Handlers, LockStep(g) PROVE FALSE
  BY <1>1, <1>4
     DEF LockStep, CreateTopic, RemoveTopic, AddSubscriber, RemoveSubscriber,
         PublishLock, ConsumeLock, ConsumePanics, Locks
<1>5. ASSUME NEW g \in Handlers, ClientStep(g) PROVE FALSE
  BY <1>1, <1>5
     DEF ClientStep, Call, ClientRead, ClientBreak, PublishRecv, PublishEnd
<1>6. ASSUME NEW g \in Handlers, OwnStep(g), ~ConsumeUnlock(g) PROVE FALSE
  <2>1. CASE PublishUnlock(g)
    BY <1>2, <2>1 DEF PublishUnlock, InSection
  <2>2. CASE ~PublishUnlock(g)
    BY <1>1, <1>6, <2>2
       DEF OwnStep, PublishPush, PublishAck, ConsumeSend, ConsumeSendError
  <2> QED
    BY <2>1, <2>2
<1>7. ASSUME NEW g \in Handlers, ConsumeUnlock(g)
      PROVE  mailbox'[req[h].sub] = <<>>
  <2>1. g = h /\ left[h] = 0
    BY <1>2, <1>7 DEF ConsumeUnlock, InSection
  <2>2. /\ req[h].sub \in SubIds
        /\ Len(mailbox[req[h].sub]) = 0
    <3>1. req[h] \in Requests /\ req[h].op = "Consume"
      BY DEF SectionInv, RequestsMatch
    <3> QED
      BY <2>1, <3>1, RequestFacts DEF SectionInv, LoopsAreSafe
  <2>3. mailbox[req[h].sub] = <<>>
    BY <2>2 DEF SectionInv, TypeOK
  <2> QED
    BY <1>7, <2>3 DEF ConsumeUnlock, brokerVars
<1> QED
  BY <1>3, <1>4, <1>5, <1>6, <1>7 DEF Next

\* README.md:126.  A Consume that ends normally has drained its mailbox,
\* whatever other handlers wanted of it meanwhile.
THEOREM ConsumeDrains == Spec => DrainsEverything
<1>1. SectionInv /\ [Next]_vars
        => [\A h \in Handlers :
              (pc[h] = "drain" /\ pc'[h] = "idle" /\ brokersLock' = NoOne)
                => mailbox'[req[h].sub] = <<>>]_vars
  BY DrainStep
<1> QED
  BY <1>1, SectionInvariance, PTL DEF Spec, DrainsEverything
-----------------------------------------------------------------------------
(* The brokers map *)

LEMMA InitMap == Init => MapInv
BY DEF Init, MapInv

LEMMA CreateTopicMap ==
  ASSUME SectionInv, MapInv, NEW h \in Handlers, CreateTopic(h)
  PROVE  MapInv' /\ subs' = subs
<1>1. CASE req[h].topic \in topics
  BY <1>1 DEF CreateTopic, MapInv
<1>2. CASE req[h].topic \notin topics
  <2>1. req[h].topic \in Topics
    BY RequestFacts DEF CreateTopic, Locks, SectionInv, RequestsMatch
  <2>2. subs[req[h].topic] = {}
    BY <1>2, <2>1 DEF MapInv
  <2>3. subs' = subs
    BY <1>2, <2>1, <2>2 DEF CreateTopic, SectionInv, TypeOK
  <2> QED
    BY <1>2, <2>3 DEF CreateTopic, MapInv
<1> QED
  BY <1>1, <1>2

LEMMA RemoveTopicMap ==
  ASSUME SectionInv, MapInv, NEW h \in Handlers, RemoveTopic(h)
  PROVE  /\ MapInv'
         /\ \A t \in Topics \ {req[h].topic} : subs'[t] = subs[t]
<1>1. subs' = [subs EXCEPT ![req[h].topic] = {}]
  BY DEF RemoveTopic
<1>2. topics' = topics \ {req[h].topic} /\ issued' = issued
  BY DEF RemoveTopic
<1> QED
  BY <1>1, <1>2 DEF MapInv, SectionInv, TypeOK

LEMMA AddSubscriberMap ==
  ASSUME SectionInv, MapInv, NEW h \in Handlers, AddSubscriber(h)
  PROVE  /\ MapInv'
         /\ \A t \in Topics : subs[t] \subseteq subs'[t]
<1>1. CASE UNCHANGED brokerVars
  BY <1>1 DEF brokerVars, MapInv
<1>2. CASE req[h].topic \in topics /\ ~UNCHANGED brokerVars
  <2>1. PICK s \in SubIds \ issued :
          /\ issued' = issued \cup {s}
          /\ subs' = [subs EXCEPT ![req[h].topic] = @ \cup {s}]
    BY <1>2 DEF AddSubscriber
  <2>2. topics' = topics
    BY <1>2 DEF AddSubscriber
  <2>3. \A t \in Topics :
          subs'[t] = IF t = req[h].topic THEN subs[t] \cup {s} ELSE subs[t]
    BY <2>1 DEF SectionInv, TypeOK
  <2> QED
    BY <1>2, <2>1, <2>2, <2>3 DEF MapInv
<1> QED
  BY <1>1, <1>2 DEF AddSubscriber

LEMMA RemoveSubscriberMap ==
  ASSUME SectionInv, MapInv, NEW h \in Handlers, RemoveSubscriber(h)
  PROVE  /\ MapInv'
         /\ \A t \in Topics :
              subs'[t] = IF t = req[h].topic
                         THEN subs[t] \ {req[h].sub}
                         ELSE subs[t]
<1>1. subs' = [subs EXCEPT ![req[h].topic] = @ \ {req[h].sub}]
  BY DEF RemoveSubscriber
<1>2. \A t \in Topics :
        subs'[t] = IF t = req[h].topic
                   THEN subs[t] \ {req[h].sub}
                   ELSE subs[t]
  BY <1>1 DEF SectionInv, TypeOK
<1>3. topics' = topics /\ issued' = issued
  BY DEF RemoveSubscriber
<1> QED
  BY <1>2, <1>3 DEF MapInv

\* No other step touches the map.
LEMMA OtherStepsMap ==
  ASSUME NEW h \in Handlers,
         \/ PublishLock(h) \/ ConsumeLock(h) \/ ConsumePanics(h)
         \/ OwnStep(h) \/ ClientStep(h)
  PROVE  UNCHANGED <<topics, subs, issued>>
BY DEF PublishLock, ConsumeLock, ConsumePanics, OwnStep, ClientStep,
       PublishPush, PublishUnlock, PublishAck, ConsumeSend, ConsumeSendError,
       ConsumeUnlock, Call, ClientRead, ClientBreak, PublishRecv, PublishEnd,
       brokerVars

LEMMA NextMap == SectionInv /\ MapInv /\ [Next]_vars => MapInv'
<1> SUFFICES ASSUME SectionInv, MapInv, [Next]_vars
             PROVE  MapInv'
  OBVIOUS
<1>1. CASE UNCHANGED vars
  BY <1>1 DEF vars, brokerVars, MapInv
<1>2. ASSUME NEW h \in Handlers,
             LockStep(h) \/ OwnStep(h) \/ ClientStep(h)
      PROVE  MapInv'
  <2>1. CASE UNCHANGED <<topics, subs, issued>>
    BY <2>1 DEF MapInv
  <2> QED
    BY <1>2, <2>1, CreateTopicMap, RemoveTopicMap, AddSubscriberMap,
       RemoveSubscriberMap, OtherStepsMap
       DEF LockStep
<1> QED
  BY <1>1, <1>2 DEF Next

LEMMA MapInvariance == Spec => []MapInv
BY InitMap, NextMap, SectionInvariance, PTL DEF Spec

LEMMA PersistStep ==
  ASSUME SectionInv, MapInv, [Next]_vars,
         NEW t \in Topics, NEW s \in subs[t] \ subs'[t]
  PROVE  \E h \in Handlers :
           /\ req[h].topic = t
           /\ \/ req[h].op = "RemoveTopic"
              \/ req[h].op = "RemoveSubscriber" /\ req[h].sub = s
<1>1. ~UNCHANGED subs
  OBVIOUS
<1>2. ~UNCHANGED vars
  BY <1>1 DEF vars, brokerVars
<1>3. PICK h \in Handlers :
        \/ CreateTopic(h) \/ RemoveTopic(h)
        \/ AddSubscriber(h) \/ RemoveSubscriber(h)
  BY <1>1, <1>2, OtherStepsMap DEF Next, LockStep
<1>4. ~CreateTopic(h)
  BY <1>1, CreateTopicMap
<1>5. ~AddSubscriber(h)
  BY AddSubscriberMap
<1>6. CASE RemoveTopic(h)
  BY <1>6, RemoveTopicMap DEF RemoveTopic, Locks
<1>7. CASE RemoveSubscriber(h)
  BY <1>7, RemoveSubscriberMap DEF RemoveSubscriber, Locks
<1> QED
  BY <1>3, <1>4, <1>5, <1>6, <1>7

\* quashserver.go:99 and :118-123.  Nothing but a removal for its own topic
\* ends a subscription, whatever handlers run.
THEOREM SubscriptionsLast == Spec => SubscriptionsPersist
<1>1. SectionInv /\ MapInv /\ [Next]_vars
        => [\A t \in Topics : \A s \in subs[t] \ subs'[t] :
              \E h \in Handlers :
                /\ req[h].topic = t
                /\ \/ req[h].op = "RemoveTopic"
                   \/ req[h].op = "RemoveSubscriber" /\ req[h].sub = s]_vars
  BY PersistStep
<1> QED
  BY <1>1, SectionInvariance, MapInvariance, PTL
     DEF Spec, SubscriptionsPersist
=============================================================================
