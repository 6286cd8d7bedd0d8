-------------------------- MODULE BrokerLogProofs --------------------------
(***************************************************************************)
(* More proofs about Broker: what is in the mailboxes, what was sent from  *)
(* them, and that they implement PubSub.                                   *)
(*                                                                         *)
(* MailboxIsBacklog is not inductive: the value Publish has still to push  *)
(* must be the last one of the log, and HandedOutOnceInOrder needs it to   *)
(* be newer than all that was pushed or sent before.  Only the handler     *)
(* that holds the lock pushes, so nobody publishes while it does.          *)
(***************************************************************************)
EXTENDS BrokerProofs

\* Handler h is in Publish's loop and has a mailbox to push to.
Pusher(h) == pc[h] = "push" /\ todo[h] # {}

\* What Publish pushes is the last value of the topic's log.
PushesLast ==
  \A h \in Handlers :
    Pusher(h) => /\ log[req[h].topic] # <<>>
                 /\ log[req[h].topic][Len(log[req[h].topic])] = published

BacklogInv == PushesLast /\ MailboxIsBacklog

\* A step that pushes nothing, starts no push and ends none.
SamePushers ==
  \A h \in Handlers :
    /\ Pusher(h)' <=> Pusher(h)
    /\ Pusher(h) => req'[h] = req[h] /\ todo'[h] = todo[h]

QuietStep(h) ==
  \/ CreateTopic(h) \/ ConsumeLock(h) \/ ConsumePanics(h)
  \/ PublishUnlock(h) \/ PublishAck(h) \/ ConsumeUnlock(h)
  \/ ClientStep(h)

LEMMA NoPusher ==
  ASSUME SectionInv, brokersLock = NoOne
  PROVE  \A h \in Handlers : ~Pusher(h)
BY BrokerAssumption DEF SectionInv, MutualExclusion, InSection, Pusher

LEMMA OnePusher ==
  ASSUME SectionInv, NEW h \in Handlers, InSection(h)
  PROVE  \A g \in Handlers : Pusher(g) => g = h
BY DEF SectionInv, MutualExclusion, InSection, Pusher

LEMMA OwedByPusher ==
  \A t \in Topics, s \in SubIds :
    Owed(t, s) <=> \E h \in Handlers :
                     Pusher(h) /\ req[h].topic = t /\ s \in todo[h]
BY DEF Owed, Pusher

\* A step of a handler that is not in a push, and does not get into one.
LEMMA OutsidePush ==
  ASSUME NEW h \in Handlers, ~Pusher(h), ~Pusher(h)',
         \A g \in Handlers \ {h} :
           pc'[g] = pc[g] /\ req'[g] = req[g] /\ todo'[g] = todo[g]
  PROVE  SamePushers
BY DEF SamePushers, Pusher

LEMMA QuietFacts ==
  ASSUME SectionInv, MapInv, NEW h \in Handlers, QuietStep(h)
  PROVE  /\ UNCHANGED <<subs, mailbox, log, published, sent, issued, lost>>
         /\ SamePushers
<1>1. CASE CreateTopic(h)
  BY <1>1, CreateTopicMap, ReturnFacts, OutsidePush
     DEF CreateTopic, Locks, Pusher, SectionInv, history
<1>2. CASE ConsumeLock(h)
  BY <1>2, OutsidePush
     DEF ConsumeLock, Locks, Pusher, brokerVars, history, SectionInv, TypeOK
<1>3. CASE ConsumePanics(h)
  BY <1>3, NoPusher
     DEF ConsumePanics, Locks, Pusher, SamePushers, brokerVars, history
<1>4. CASE PublishUnlock(h)
  BY <1>4, OutsidePush
     DEF PublishUnlock, Pusher, brokerVars, history, SectionInv, TypeOK
<1>5. CASE PublishAck(h)
  BY <1>5, ReturnFacts, OutsidePush
     DEF PublishAck, Pusher, brokerVars, history, SectionInv, TypeOK
<1>6. CASE ConsumeUnlock(h)
  BY <1>6, ReturnFacts, OutsidePush
     DEF ConsumeUnlock, Pusher, brokerVars, history, SectionInv
<1>7. CASE Call(h) \/ PublishRecv(h)
  BY <1>7, OutsidePush
     DEF Call, PublishRecv, Pusher, brokerVars, history, SectionInv, TypeOK
<1>8. CASE ClientRead(h) \/ ClientBreak(h)
  BY <1>8
     DEF ClientRead, ClientBreak, Pusher, SamePushers, brokerVars, callVars,
         history
<1>9. CASE PublishEnd(h)
  BY <1>9, ReturnFacts, OutsidePush
     DEF PublishEnd, Pusher, brokerVars, history, SectionInv
<1> QED
  BY <1>1, <1>2, <1>3, <1>4, <1>5, <1>6, <1>7, <1>8, <1>9
     DEF QuietStep, ClientStep
-----------------------------------------------------------------------------
(* How each step changes what is owed *)

LEMMA SameOwed ==
  ASSUME SamePushers
  PROVE  \A t \in Topics, s \in SubIds : Owed(t, s)' <=> Owed(t, s)
<1>1. \A t \in Topics, s \in SubIds :
        Owed(t, s)' <=> \E h \in Handlers :
                          Pusher(h)' /\ req'[h].topic = t /\ s \in todo'[h]
  BY DEF Owed, Pusher
<1> QED
  BY <1>1, OwedByPusher DEF SamePushers

\* A step that does not push, while nobody is in a push.
LEMMA UnaryPushers ==
  ASSUME SectionInv, NEW h \in Handlers, brokersLock = NoOne, Return(h)
  PROVE  /\ \A t \in Topics, s \in SubIds : ~Owed(t, s)
         /\ \A t \in Topics, s \in SubIds : ~Owed(t, s)'
         /\ \A g \in Handlers : ~Pusher(g)'
<1>1. \A g \in Handlers : pc[g] # "push"
  BY BrokerAssumption DEF SectionInv, MutualExclusion, InSection
<1>2. \A g \in Handlers : pc'[g] # "push"
  BY <1>1, ReturnFacts DEF SectionInv
<1> QED
  BY <1>1, <1>2 DEF Owed, Pusher

LEMMA PublishLockFacts ==
  ASSUME SectionInv, MapInv, NEW h \in Handlers, PublishLock(h)
  PROVE  LET u == req[h].topic IN
         /\ u \in Topics
         /\ UNCHANGED <<subs, mailbox, topics, issued, sent, lost>>
         /\ published' = published + 1
         /\ \A t \in Topics :
              log'[t] = IF t = u /\ u \in topics
                        THEN Append(log[t], published + 1) ELSE log[t]
         /\ \A t \in Topics, s \in SubIds : ~Owed(t, s)
         /\ \A t \in Topics, s \in SubIds :
              Owed(t, s)' <=> t = u /\ s \in subs[u]
         /\ \A g \in Handlers : Pusher(g)' <=> (g = h /\ subs[u] # {})
         /\ req'[h].topic = u
         /\ u \notin topics => subs[u] = {}
<1>1. req[h] \in Requests /\ req[h].topic \in Topics
  BY RequestFacts DEF PublishLock, Locks, SectionInv, RequestsMatch
<1>2. \A g \in Handlers : pc[g] # "push"
  BY BrokerAssumption
     DEF PublishLock, Locks, SectionInv, MutualExclusion, InSection
<1>3. /\ pc' = [pc EXCEPT ![h] = "push"]
      /\ todo' = [todo EXCEPT ![h] = subs[req[h].topic]]
      /\ req' = req
  BY DEF PublishLock
<1>4. \A g \in Handlers : /\ pc'[g] = "push" <=> g = h
                          /\ g = h => todo'[g] = subs[req[h].topic]
  BY <1>2, <1>3 DEF SectionInv, TypeOK
<1>5. \A t \in Topics, s \in SubIds : ~Owed(t, s)
  BY <1>2 DEF Owed
<1>6. \A t \in Topics, s \in SubIds :
        Owed(t, s)' <=> t = req[h].topic /\ s \in subs[req[h].topic]
  BY <1>3, <1>4 DEF Owed
<1>7. \A g \in Handlers : Pusher(g)' <=> (g = h /\ subs[req[h].topic] # {})
  BY <1>4 DEF Pusher
<1>8. \A t \in Topics :
        log'[t] = IF t = req[h].topic /\ req[h].topic \in topics
                  THEN Append(log[t], published + 1) ELSE log[t]
  BY DEF PublishLock, SectionInv, TypeOK
<1>9. req[h].topic \notin topics => subs[req[h].topic] = {}
  BY <1>1 DEF MapInv
<1> QED
  BY <1>1, <1>3, <1>5, <1>6, <1>7, <1>8, <1>9
     DEF PublishLock, brokerVars

LEMMA PublishPushFacts ==
  ASSUME SectionInv, MapInv, NEW h \in Handlers, PublishPush(h)
  PROVE  LET u == req[h].topic IN
         /\ u \in Topics
         /\ UNCHANGED <<subs, topics, issued, sent, lost, published, log, req>>
         /\ Pusher(h)
         /\ \A g \in Handlers : Pusher(g)' => g = h
         /\ \E s \in subs[u] :
              /\ mailbox' = [mailbox EXCEPT ![s] = Append(@, published)]
              /\ \A t \in Topics, r \in SubIds :
                   /\ Owed(t, r) <=> t = u /\ r \in todo[h]
                   /\ Owed(t, r)' <=> t = u /\ r \in todo[h] \ {s}
              /\ s \in todo[h]
<1>1. req[h] \in Requests /\ req[h].topic \in Topics
  BY RequestFacts DEF PublishPush, SectionInv, RequestsMatch
<1>2. PICK s \in todo[h] :
        /\ mailbox' = [mailbox EXCEPT ![s] = Append(@, published)]
        /\ todo' = [todo EXCEPT ![h] = @ \ {s}]
  BY DEF PublishPush
<1>3. s \in subs[req[h].topic]
  BY DEF PublishPush, SectionInv, LoopsAreSafe
<1>4. \A g \in Handlers : pc[g] = "push" <=> g = h
  BY DEF PublishPush, SectionInv, MutualExclusion, InSection
<1>5. UNCHANGED <<pc, req>> /\ todo'[h] = todo[h] \ {s}
  BY <1>2 DEF PublishPush, SectionInv, TypeOK
<1>6. \A t \in Topics, r \in SubIds :
        /\ Owed(t, r) <=> t = req[h].topic /\ r \in todo[h]
        /\ Owed(t, r)' <=> t = req[h].topic /\ r \in todo[h] \ {s}
  BY <1>4, <1>5 DEF Owed
<1>7. Pusher(h) /\ \A g \in Handlers : Pusher(g)' => g = h
  BY <1>4, <1>5 DEF Pusher
<1> QED
  BY <1>1, <1>2, <1>3, <1>6, <1>7 DEF PublishPush, history

\* Both ways in which Consume takes the head of a mailbox.
LEMMA ConsumePopFacts ==
  ASSUME SectionInv, MapInv, NEW h \in Handlers,
         ConsumeSend(h) \/ ConsumeSendError(h)
  PROVE  LET s == req[h].sub IN
         /\ req[h].topic \in Topics
         /\ s \in subs[req[h].topic]
         /\ mailbox[s] \in Seq(Nat)
         /\ mailbox[s] # <<>>
         /\ mailbox' = [mailbox EXCEPT ![s] = Tail(@)]
         /\ UNCHANGED <<subs, topics, issued, log, published>>
         /\ \A t \in Topics, r \in SubIds : ~Owed(t, r) /\ ~Owed(t, r)'
         /\ \A g \in Handlers : ~Pusher(g)'
<1>1. pc[h] = "drain" /\ left[h] > 0
  BY DEF ConsumeSend, ConsumeSendError
<1>2. \A g \in Handlers : pc[g] # "push"
  BY <1>1 DEF SectionInv, MutualExclusion, InSection
<1>3. \A g \in Handlers : pc'[g] # "push"
  BY <1>2, ReturnFacts DEF ConsumeSend, ConsumeSendError, SectionInv
<1>4. \A t \in Topics, r \in SubIds : ~Owed(t, r) /\ ~Owed(t, r)'
  BY <1>2, <1>3 DEF Owed
<1>5. req[h].sub \in subs[req[h].topic]
  BY <1>1 DEF SectionInv, LoopsAreSafe
<1> QED
  BY <1>1, <1>3, <1>4, <1>5, PopFacts
     DEF ConsumeSend, ConsumeSendError, Pusher
-----------------------------------------------------------------------------
(* The mailboxes are the ends of the log *)

\* Mailbox m is the end of log l, but for the last n values.
IsEnd(m, l, n) ==
  /\ Len(l) - Len(m) - n \in Nat
  /\ \A i \in 1..Len(m) : m[i] = l[Len(l) - Len(m) - n + i]

LEMMA BacklogIsEnd ==
  MailboxIsBacklog <=>
    \A t \in Topics : \A s \in subs[t] :
      IsEnd(mailbox[s], log[t], IF Owed(t, s) THEN 1 ELSE 0)
BY DEF MailboxIsBacklog, Cursor, IsEnd

LEMMA EndEmpty ==
  ASSUME NEW l \in Seq(Nat)
  PROVE  IsEnd(<<>>, l, 0)
BY DEF IsEnd

LEMMA EndLogged ==
  ASSUME NEW l \in Seq(Nat), NEW m \in Seq(Nat), NEW v \in Nat,
         IsEnd(m, l, 0)
  PROVE  IsEnd(m, Append(l, v), 1)
BY DEF IsEnd

LEMMA LastAppended ==
  ASSUME NEW l \in Seq(Nat), NEW v \in Nat
  PROVE  Append(l, v) # <<>> /\ Append(l, v)[Len(Append(l, v))] = v
OBVIOUS

LEMMA EndPushed ==
  ASSUME NEW l \in Seq(Nat), NEW m \in Seq(Nat), NEW v \in Nat,
         IsEnd(m, l, 1), l # <<>>, l[Len(l)] = v
  PROVE  IsEnd(Append(m, v), l, 0)
<1> DEFINE a == Append(m, v)
<1>1. /\ Len(a) = Len(m) + 1
      /\ a[Len(m) + 1] = v
      /\ \A i \in 1..Len(m) : a[i] = m[i]
  OBVIOUS
<1> HIDE DEF a
<1>2. Len(l) \in Nat /\ Len(m) \in Nat
  OBVIOUS
<1>3. ASSUME NEW i \in 1..Len(a)
      PROVE  a[i] = l[Len(l) - Len(a) - 0 + i]
  <2>1. CASE i \in 1..Len(m)
    <3>1. a[i] = l[Len(l) - Len(m) - 1 + i]
      BY <1>1, <2>1 DEF IsEnd
    <3>2. Len(l) - Len(m) - 1 + i = Len(l) - Len(a) - 0 + i
      BY <1>1, <1>2
    <3> QED
      BY <3>1, <3>2
  <2>2. CASE i = Len(m) + 1
    <3>1. Len(l) - Len(a) - 0 + i = Len(l)
      BY <1>1, <1>2, <2>2
    <3> QED
      BY <1>1, <2>2, <3>1
  <2> QED
    BY <1>1, <1>2, <2>1, <2>2
<1>4. IsEnd(a, l, 0)
  BY <1>1, <1>2, <1>3 DEF IsEnd
<1> QED
  BY <1>4 DEF a

LEMMA EndPopped ==
  ASSUME NEW l \in Seq(Nat), NEW m \in Seq(Nat), m # <<>>, IsEnd(m, l, 0)
  PROVE  IsEnd(Tail(m), l, 0)
<1>1. /\ Len(Tail(m)) = Len(m) - 1
      /\ \A i \in 1..Len(Tail(m)) : Tail(m)[i] = m[i + 1]
  OBVIOUS
<1>2. Len(l) \in Nat /\ Len(m) \in Nat
  OBVIOUS
<1> QED
  BY <1>1, <1>2 DEF IsEnd

LEMMA BacklogTypes ==
  ASSUME SectionInv
  PROVE  /\ \A t \in Topics : log[t] \in Seq(Nat) /\ subs[t] \subseteq SubIds
         /\ \A s \in SubIds : mailbox[s] \in Seq(Nat) /\ sent[s] \in Seq(Nat)
         /\ published \in Nat
BY DEF SectionInv, TypeOK

LEMMA InitBacklog == Init => BacklogInv
BY DEF Init, BacklogInv, PushesLast, Pusher, MailboxIsBacklog

LEMMA QuietBacklog ==
  ASSUME SectionInv, BacklogInv, SamePushers,
         UNCHANGED <<subs, mailbox, log, published>>
  PROVE  BacklogInv'
<1>1. PushesLast'
  BY DEF BacklogInv, PushesLast, SamePushers
<1>2. \A t \in Topics : \A s \in subs[t] : Cursor(t, s)' = Cursor(t, s)
  BY SameOwed, BacklogTypes DEF Cursor
<1>3. MailboxIsBacklog'
  BY <1>2 DEF BacklogInv, MailboxIsBacklog
<1> QED
  BY <1>1, <1>3 DEF BacklogInv

LEMMA RemoveTopicBacklog ==
  ASSUME SectionInv, MapInv, BacklogInv, NEW h \in Handlers, RemoveTopic(h)
  PROVE  BacklogInv'
<1> DEFINE u == req[h].topic
<1>1. /\ \A t \in Topics, s \in SubIds : ~Owed(t, s) /\ ~Owed(t, s)'
      /\ \A g \in Handlers : ~Pusher(g)'
  BY UnaryPushers DEF RemoveTopic, Locks
<1>2. /\ \A t \in Topics :
           /\ subs'[t] = IF t = u THEN {} ELSE subs[t]
           /\ log'[t] = IF t = u THEN <<>> ELSE log[t]
      /\ \A s \in SubIds :
           mailbox'[s] = IF s \in subs[u] THEN <<>> ELSE mailbox[s]
  BY DEF RemoveTopic, SectionInv, TypeOK
<1>3. u \in Topics
  BY RequestFacts DEF RemoveTopic, Locks, SectionInv, RequestsMatch
<1> HIDE DEF u
<1>4. \A t \in Topics : \A s \in subs'[t] :
        /\ s \in subs[t]
        /\ log'[t] = log[t]
        /\ mailbox'[s] = mailbox[s]
  BY <1>2, <1>3, BacklogTypes DEF MapInv
<1>5. \A t \in Topics : \A s \in subs'[t] : Cursor(t, s)' = Cursor(t, s)
  BY <1>1, <1>4, BacklogTypes DEF Cursor
<1> QED
  BY <1>1, <1>4, <1>5 DEF BacklogInv, PushesLast, MailboxIsBacklog

LEMMA RemoveSubscriberBacklog ==
  ASSUME SectionInv, MapInv, BacklogInv, NEW h \in Handlers,
         RemoveSubscriber(h)
  PROVE  BacklogInv'
<1>1. /\ \A t \in Topics, s \in SubIds : ~Owed(t, s) /\ ~Owed(t, s)'
      /\ \A g \in Handlers : ~Pusher(g)'
  BY UnaryPushers DEF RemoveSubscriber, Locks
<1>2. /\ req[h].topic \in Topics
      /\ req[h].sub \in SubIds
  BY RequestFacts DEF RemoveSubscriber, Locks, SectionInv, RequestsMatch
<1>3. \A s \in SubIds \ {req[h].sub} : mailbox'[s] = mailbox[s]
  BY DEF RemoveSubscriber, SectionInv, TypeOK
<1>4. req[h].sub \notin subs[req[h].topic] => mailbox' = mailbox
  BY DEF RemoveSubscriber
<1>5. \A t \in Topics : \A s \in subs'[t] :
        s \in subs[t] /\ mailbox'[s] = mailbox[s]
  <2> SUFFICES ASSUME NEW t \in Topics, NEW s \in subs'[t]
               PROVE  s \in subs[t] /\ mailbox'[s] = mailbox[s]
    OBVIOUS
  <2>1. s \in subs[t] /\ s \in SubIds
    BY RemoveSubscriberMap, BacklogTypes
  <2>2. CASE s # req[h].sub
    BY <1>3, <2>1, <2>2
  <2>3. CASE s = req[h].sub
    <3>1. t # req[h].topic
      BY <2>3, RemoveSubscriberMap
    <3>2. s \notin subs[req[h].topic]
      BY <1>2, <2>1, <3>1 DEF MapInv
    <3> QED
      BY <1>4, <2>1, <2>3, <3>2
  <2> QED
    BY <2>2, <2>3
<1>6. log' = log
  BY DEF RemoveSubscriber, history
<1>7. \A t \in Topics : \A s \in subs'[t] : Cursor(t, s)' = Cursor(t, s)
  BY <1>1, <1>5, <1>6, BacklogTypes DEF Cursor
<1> QED
  BY <1>1, <1>5, <1>6, <1>7 DEF BacklogInv, PushesLast, MailboxIsBacklog

LEMMA AddSubscriberBacklog ==
  ASSUME SectionInv, MapInv, BacklogInv, NEW h \in Handlers,
         AddSubscriber(h)
  PROVE  BacklogInv'
<1>1. /\ \A t \in Topics, s \in SubIds : ~Owed(t, s) /\ ~Owed(t, s)'
      /\ \A g \in Handlers : ~Pusher(g)'
  BY UnaryPushers DEF AddSubscriber, Locks
<1>2. log' = log /\ PushesLast'
  BY <1>1 DEF AddSubscriber, history, PushesLast
<1>3. CASE UNCHANGED brokerVars
  <2>1. \A t \in Topics : \A s \in subs[t] : Cursor(t, s)' = Cursor(t, s)
    BY <1>1, <1>2, <1>3, BacklogTypes DEF Cursor, brokerVars
  <2> QED
    BY <1>2, <1>3, <2>1
       DEF BacklogInv, MailboxIsBacklog, brokerVars
<1>4. CASE req[h].topic \in topics /\ ~UNCHANGED brokerVars
  <2>1. PICK r \in SubIds \ issued :
          /\ subs' = [subs EXCEPT ![req[h].topic] = @ \cup {r}]
          /\ mailbox' = [mailbox EXCEPT ![r] = <<>>]
    BY <1>4 DEF AddSubscriber
  <2>2. /\ \A t \in Topics : \A s \in subs'[t] : s = r \/ s \in subs[t]
        /\ \A t \in Topics : r \notin subs[t]
        /\ \A s \in SubIds :
             mailbox'[s] = IF s = r THEN <<>> ELSE mailbox[s]
    BY <2>1 DEF MapInv, SectionInv, TypeOK
  <2>3. ASSUME NEW t \in Topics, NEW s \in subs'[t]
        PROVE  /\ Cursor(t, s)' \in Nat
               /\ \A i \in 1..Len(mailbox'[s]) :
                    mailbox'[s][i] = log'[t][Cursor(t, s)' + i]
    <3>1. CASE s = r
      <4>1. mailbox'[s] = <<>> /\ ~Owed(t, s)'
        BY <1>1, <2>2, <3>1
      <4>2. Cursor(t, s)' = Len(log[t]) - 0 - 0
        BY <1>2, <4>1 DEF Cursor
      <4> QED
        BY <4>1, <4>2, BacklogTypes
    <3>2. CASE s # r
      <4>1. /\ s \in subs[t]
            /\ mailbox'[s] = mailbox[s]
            /\ Cursor(t, s)' = Cursor(t, s)
        BY <1>1, <1>2, <2>2, <2>3, <3>2, BacklogTypes DEF Cursor
      <4> QED
        BY <1>2, <4>1 DEF BacklogInv, MailboxIsBacklog
    <3> QED
      BY <3>1, <3>2
  <2> QED
    BY <1>2, <2>3 DEF BacklogInv, MailboxIsBacklog
<1> QED
  BY <1>3, <1>4 DEF AddSubscriber

LEMMA PublishLockBacklog ==
  ASSUME SectionInv, MapInv, BacklogInv, NEW h \in Handlers, PublishLock(h)
  PROVE  BacklogInv'
<1> DEFINE u == req[h].topic
<1>1. \A t \in Topics : \A s \in subs[t] : IsEnd(mailbox[s], log[t], 0)
  BY PublishLockFacts, BacklogTypes, BacklogIsEnd DEF BacklogInv
<1>2. \A t \in Topics : \A s \in subs'[t] :
        IsEnd(mailbox'[s], log'[t], IF Owed(t, s)' THEN 1 ELSE 0)
  <2> SUFFICES ASSUME NEW t \in Topics, NEW s \in subs[t]
               PROVE  IsEnd(mailbox[s], log'[t],
                            IF Owed(t, s)' THEN 1 ELSE 0)
    BY PublishLockFacts
  <2>1. s \in SubIds /\ IsEnd(mailbox[s], log[t], 0)
    BY <1>1, BacklogTypes
  <2>2. CASE t = u
    <3>1. u \in topics /\ log'[t] = Append(log[t], published + 1)
      BY <2>2, PublishLockFacts
    <3>2. Owed(t, s)'
      BY <2>1, <2>2, PublishLockFacts
    <3>3. IsEnd(mailbox[s], Append(log[t], published + 1), 1)
      BY <2>1, EndLogged, BacklogTypes
    <3> QED
      BY <3>1, <3>2, <3>3
  <2>3. CASE t # u
    <3>1. log'[t] = log[t] /\ ~Owed(t, s)'
      BY <2>1, <2>3, PublishLockFacts
    <3> QED
      BY <2>1, <3>1
  <2> QED
    BY <2>2, <2>3
<1>3. MailboxIsBacklog'
  BY <1>2 DEF MailboxIsBacklog, Cursor, IsEnd
<1>4. PushesLast'
  <2> SUFFICES ASSUME Pusher(h)'
               PROVE  /\ log'[u] # <<>>
                      /\ log'[u][Len(log'[u])] = published'
    BY PublishLockFacts DEF PushesLast
  <2>1. /\ u \in Topics
        /\ log'[u] = Append(log[u], published + 1)
        /\ published' = published + 1
    BY PublishLockFacts
  <2>2. log[u] \in Seq(Nat) /\ published + 1 \in Nat
    BY <2>1, BacklogTypes
  <2> HIDE DEF u
  <2> QED
    BY <2>1, <2>2, LastAppended
<1> QED
  BY <1>3, <1>4 DEF BacklogInv

LEMMA PublishPushBacklog ==
  ASSUME SectionInv, MapInv, BacklogInv, NEW h \in Handlers, PublishPush(h)
  PROVE  BacklogInv'
<1> DEFINE u == req[h].topic
<1>1. PICK r \in subs[u] :
        /\ mailbox' = [mailbox EXCEPT ![r] = Append(@, published)]
        /\ \A t \in Topics, s \in SubIds :
             /\ Owed(t, s) <=> t = u /\ s \in todo[h]
             /\ Owed(t, s)' <=> t = u /\ s \in todo[h] \ {r}
        /\ r \in todo[h]
  BY PublishPushFacts
<1>2. /\ u \in Topics
      /\ UNCHANGED <<subs, log, req, published>>
      /\ \A g \in Handlers : Pusher(g)' => g = h
      /\ log[u] # <<>>
      /\ log[u][Len(log[u])] = published
  BY PublishPushFacts DEF BacklogInv, PushesLast
<1> HIDE DEF u
<1>3. \A t \in Topics : \A s \in subs'[t] :
        IsEnd(mailbox'[s], log'[t], IF Owed(t, s)' THEN 1 ELSE 0)
  <2> SUFFICES ASSUME NEW t \in Topics, NEW s \in subs[t]
               PROVE  IsEnd(mailbox'[s], log[t],
                            IF Owed(t, s)' THEN 1 ELSE 0)
    BY <1>2
  <2>1. /\ s \in SubIds
        /\ IsEnd(mailbox[s], log[t], IF Owed(t, s) THEN 1 ELSE 0)
    BY BacklogTypes, BacklogIsEnd DEF BacklogInv
  <2>2. CASE s = r
    <3>1. t = u
      BY <1>1, <1>2, <2>2 DEF MapInv
    <3>2. Owed(t, s) /\ ~Owed(t, s)'
      BY <1>1, <2>1, <2>2, <3>1
    <3>3. mailbox'[s] = Append(mailbox[s], published)
      BY <1>1, <2>1, <2>2 DEF SectionInv, TypeOK
    <3>4. IsEnd(Append(mailbox[s], published), log[t], 0)
      BY <1>2, <2>1, <3>1, <3>2, EndPushed, BacklogTypes
    <3> QED
      BY <3>2, <3>3, <3>4
  <2>3. CASE s # r
    <3>1. mailbox'[s] = mailbox[s]
      BY <1>1, <2>1, <2>3 DEF SectionInv, TypeOK
    <3>2. Owed(t, s)' <=> Owed(t, s)
      BY <1>1, <2>1, <2>3
    <3> QED
      BY <2>1, <3>1, <3>2
  <2> QED
    BY <2>2, <2>3
<1>4. MailboxIsBacklog'
  BY <1>3 DEF MailboxIsBacklog, Cursor, IsEnd
<1>5. PushesLast'
  BY <1>2 DEF PushesLast, u
<1> QED
  BY <1>4, <1>5 DEF BacklogInv

LEMMA ConsumePopBacklog ==
  ASSUME SectionInv, MapInv, BacklogInv, NEW h \in Handlers,
         ConsumeSend(h) \/ ConsumeSendError(h)
  PROVE  BacklogInv'
<1> DEFINE r == req[h].sub
<1>1. /\ r \in SubIds
      /\ mailbox[r] \in Seq(Nat)
      /\ mailbox[r] # <<>>
      /\ mailbox' = [mailbox EXCEPT ![r] = Tail(@)]
      /\ UNCHANGED <<subs, log, published>>
      /\ \A t \in Topics, s \in SubIds : ~Owed(t, s) /\ ~Owed(t, s)'
      /\ \A g \in Handlers : ~Pusher(g)'
  BY ConsumePopFacts, BacklogTypes
<1> HIDE DEF r
<1>2. \A t \in Topics : \A s \in subs'[t] :
        IsEnd(mailbox'[s], log'[t], IF Owed(t, s)' THEN 1 ELSE 0)
  <2> SUFFICES ASSUME NEW t \in Topics, NEW s \in subs[t]
               PROVE  IsEnd(mailbox'[s], log[t], 0)
    BY <1>1, BacklogTypes
  <2>1. s \in SubIds /\ IsEnd(mailbox[s], log[t], 0)
    BY <1>1, BacklogTypes, BacklogIsEnd DEF BacklogInv
  <2>2. mailbox'[s] = IF s = r THEN Tail(mailbox[s]) ELSE mailbox[s]
    BY <1>1, <2>1 DEF SectionInv, TypeOK
  <2>3. s = r => IsEnd(Tail(mailbox[s]), log[t], 0)
    BY <1>1, <2>1, EndPopped, BacklogTypes
  <2> QED
    BY <2>1, <2>2, <2>3
<1>3. MailboxIsBacklog'
  BY <1>2 DEF MailboxIsBacklog, Cursor, IsEnd
<1>4. PushesLast'
  BY <1>1 DEF PushesLast
<1> QED
  BY <1>3, <1>4 DEF BacklogInv

LEMMA NextBacklog == SectionInv /\ MapInv /\ BacklogInv /\ [Next]_vars
                       => BacklogInv'
<1> SUFFICES ASSUME SectionInv, MapInv, BacklogInv, [Next]_vars
             PROVE  BacklogInv'
  OBVIOUS
<1>1. CASE UNCHANGED vars
  BY <1>1, QuietBacklog
     DEF vars, brokerVars, callVars, history, SamePushers, Pusher
<1>2. ASSUME NEW h \in Handlers, QuietStep(h)
      PROVE  BacklogInv'
  BY <1>2, QuietFacts, QuietBacklog
<1>3. ASSUME NEW h \in Handlers,
             \/ RemoveTopic(h) \/ AddSubscriber(h) \/ RemoveSubscriber(h)
             \/ PublishLock(h) \/ PublishPush(h)
             \/ ConsumeSend(h) \/ ConsumeSendError(h)
      PROVE  BacklogInv'
  BY <1>3, RemoveTopicBacklog, AddSubscriberBacklog, RemoveSubscriberBacklog,
     PublishLockBacklog, PublishPushBacklog, ConsumePopBacklog
<1> QED
  BY <1>1, <1>2, <1>3 DEF Next, LockStep, OwnStep, QuietStep

LEMMA BacklogInvariance == Spec => []BacklogInv
BY InitBacklog, NextBacklog, SectionInvariance, MapInvariance, PTL DEF Spec

\* README.md:41, broadcast.  Whatever topics, subscribers and calls there
\* are, each mailbox is an end of its topic's log: Publish's pushes, one per
\* step, miss no subscriber and reach none twice.
THEOREM MailboxesMatchLog == Spec => []MailboxIsBacklog
<1>1. BacklogInv => MailboxIsBacklog
  BY DEF BacklogInv
<1> QED
  BY <1>1, BacklogInvariance, PTL
-----------------------------------------------------------------------------
(* What was sent and what is still queued, in one order *)

Below(q, v) == \A i \in 1..Len(q) : q[i] < v

Increasing(q) == \A i, j \in 1..Len(q) : i < j => q[i] < q[j]

\* The values sent, a, and those queued, m: oldest first, and none twice.
InOrder(a, m) ==
  /\ Increasing(a)
  /\ Increasing(m)
  /\ \A i \in 1..Len(a), j \in 1..Len(m) : a[i] < m[j]

\* A value that Publish has still to push to s is newer than all s had.
OrderInv ==
  \A s \in SubIds :
    /\ InOrder(sent[s], mailbox[s])
    /\ Below(sent[s], published + 1)
    /\ Below(mailbox[s], published + 1)
    /\ \A t \in Topics :
         Owed(t, s) => Below(sent[s], published) /\ Below(mailbox[s], published)

LEMMA OrderWhole ==
  ASSUME NEW a \in Seq(Nat), NEW m \in Seq(Nat), InOrder(a, m)
  PROVE  Increasing(a \o m)
<1> DEFINE q == a \o m
<1>1. /\ Len(q) = Len(a) + Len(m)
      /\ Len(a) \in Nat
      /\ Len(m) \in Nat
      /\ \A i \in 1..Len(a) : q[i] = a[i]
      /\ \A i \in Len(a) + 1..Len(q) : q[i] = m[i - Len(a)]
  OBVIOUS
<1> HIDE DEF q
<1>2. ASSUME NEW i \in 1..Len(q), NEW j \in 1..Len(q), i < j
      PROVE  q[i] < q[j]
  <2>1. CASE j \in 1..Len(a)
    <3>1. i \in 1..Len(a)
      BY <1>1, <1>2, <2>1
    <3> QED
      BY <1>1, <1>2, <2>1, <3>1 DEF InOrder, Increasing
  <2>2. CASE i \in 1..Len(a) /\ j \notin 1..Len(a)
    <3>1. j - Len(a) \in 1..Len(m) /\ q[j] = m[j - Len(a)]
      BY <1>1, <1>2, <2>2
    <3> QED
      BY <1>1, <2>2, <3>1 DEF InOrder
  <2>3. CASE i \notin 1..Len(a) /\ j \notin 1..Len(a)
    <3>1. /\ i - Len(a) \in 1..Len(m) /\ q[i] = m[i - Len(a)]
          /\ j - Len(a) \in 1..Len(m) /\ q[j] = m[j - Len(a)]
          /\ i - Len(a) < j - Len(a)
      BY <1>1, <1>2, <2>3
    <3> QED
      BY <3>1 DEF InOrder, Increasing
  <2> QED
    BY <2>1, <2>2, <2>3
<1> QED
  BY <1>2 DEF Increasing, q

LEMMA AppendElements ==
  ASSUME NEW q \in Seq(Nat), NEW v \in Nat
  PROVE  /\ Len(q) \in Nat
         /\ Len(Append(q, v)) = Len(q) + 1
         /\ \A i \in 1..Len(q) : q[i] \in Nat /\ Append(q, v)[i] = q[i]
         /\ Append(q, v)[Len(q) + 1] = v
         /\ Append(q, v) \in Seq(Nat)
OBVIOUS

LEMMA AppendIncreasing ==
  ASSUME NEW q \in Seq(Nat), NEW v \in Nat, Increasing(q), Below(q, v)
  PROVE  Increasing(Append(q, v)) /\ Below(Append(q, v), v + 1)
<1> DEFINE n == Append(q, v)
<1>1. /\ Len(q) \in Nat
      /\ Len(n) = Len(q) + 1
      /\ \A i \in 1..Len(q) : q[i] \in Nat /\ n[i] = q[i]
      /\ n[Len(q) + 1] = v
  BY AppendElements
<1> HIDE DEF n
<1>2. \A i \in 1..Len(n) : i \in 1..Len(q) \/ i = Len(q) + 1
  BY <1>1
<1>3. Increasing(n)
  <2> SUFFICES ASSUME NEW i \in 1..Len(n), NEW j \in 1..Len(n), i < j
               PROVE  n[i] < n[j]
    BY DEF Increasing
  <2>1. i \in 1..Len(q)
    BY <1>1, <1>2
  <2>2. CASE j \in 1..Len(q)
    BY <1>1, <2>1, <2>2 DEF Increasing
  <2>3. CASE j = Len(q) + 1
    BY <1>1, <2>1, <2>3 DEF Below
  <2> QED
    BY <1>2, <2>2, <2>3
<1>4. Below(n, v + 1)
  BY <1>1, <1>2 DEF Below
<1> QED
  BY <1>3, <1>4 DEF n

LEMMA OrderPushed ==
  ASSUME NEW a \in Seq(Nat), NEW m \in Seq(Nat), NEW v \in Nat,
         InOrder(a, m), Below(a, v), Below(m, v)
  PROVE  InOrder(a, Append(m, v)) /\ Below(Append(m, v), v + 1)
<1> DEFINE n == Append(m, v)
<1>1. Increasing(n) /\ Below(n, v + 1)
  BY AppendIncreasing DEF InOrder
<1>2. /\ Len(m) \in Nat
      /\ Len(n) = Len(m) + 1
      /\ \A i \in 1..Len(m) : n[i] = m[i]
      /\ n[Len(m) + 1] = v
  BY AppendElements
<1> HIDE DEF n
<1>3. \A j \in 1..Len(n) : j \in 1..Len(m) \/ j = Len(m) + 1
  BY <1>2
<1>4. \A i \in 1..Len(a), j \in 1..Len(n) : a[i] < n[j]
  BY <1>2, <1>3 DEF InOrder, Below
<1> QED
  BY <1>1, <1>4 DEF InOrder, n

LEMMA TailElements ==
  ASSUME NEW m \in Seq(Nat), m # <<>>
  PROVE  /\ Len(m) \in Nat /\ Len(m) > 0
         /\ Head(m) = m[1] /\ Head(m) \in Nat
         /\ Tail(m) \in Seq(Nat)
         /\ Len(Tail(m)) = Len(m) - 1
         /\ \A i \in 1..Len(Tail(m)) : Tail(m)[i] = m[i + 1]
OBVIOUS

LEMMA OrderDropped ==
  ASSUME NEW a \in Seq(Nat), NEW m \in Seq(Nat), NEW v \in Nat, m # <<>>,
         InOrder(a, m), Below(m, v)
  PROVE  InOrder(a, Tail(m)) /\ Below(Tail(m), v)
<1> DEFINE n == Tail(m)
<1>1. /\ Len(m) \in Nat /\ Len(m) > 0
      /\ Len(n) = Len(m) - 1
      /\ \A i \in 1..Len(n) : n[i] = m[i + 1]
  BY TailElements
<1> HIDE DEF n
<1>2. \A i \in 1..Len(n) : i + 1 \in 1..Len(m) /\ n[i] = m[i + 1]
  BY <1>1
<1>3. Increasing(n)
  <2> SUFFICES ASSUME NEW i \in 1..Len(n), NEW j \in 1..Len(n), i < j
               PROVE  n[i] < n[j]
    BY DEF Increasing
  <2>1. i + 1 < j + 1
    OBVIOUS
  <2> QED
    BY <1>2, <2>1 DEF InOrder, Increasing
<1>4. InOrder(a, n) /\ Below(n, v)
  BY <1>2, <1>3 DEF InOrder, Below
<1> QED
  BY <1>4 DEF n

LEMMA OrderMoved ==
  ASSUME NEW a \in Seq(Nat), NEW m \in Seq(Nat), NEW v \in Nat, m # <<>>,
         InOrder(a, m), Below(a, v), Below(m, v)
  PROVE  InOrder(Append(a, Head(m)), Tail(m)) /\ Below(Append(a, Head(m)), v)
<1> DEFINE n == Tail(m)
           b == Append(a, Head(m))
<1>1. /\ Len(m) \in Nat /\ Len(m) > 0
      /\ Head(m) = m[1] /\ Head(m) \in Nat
      /\ Len(n) = Len(m) - 1
      /\ \A i \in 1..Len(n) : n[i] = m[i + 1]
  BY TailElements
<1>2. 1 \in 1..Len(m)
  BY <1>1
<1>3. Below(a, Head(m))
  BY <1>1, <1>2 DEF InOrder, Below
<1>4. Increasing(b)
  BY <1>1, <1>3, AppendIncreasing DEF InOrder
<1>5. Increasing(n)
  BY OrderDropped DEF InOrder
<1>6. /\ Len(a) \in Nat
      /\ Len(b) = Len(a) + 1
      /\ \A i \in 1..Len(a) : b[i] = a[i]
      /\ b[Len(a) + 1] = m[1]
  BY <1>1, AppendElements
<1> HIDE DEF n, b
<1>7. \A i \in 1..Len(b) : i \in 1..Len(a) \/ i = Len(a) + 1
  BY <1>6
<1>8. \A i \in 1..Len(n) : /\ i + 1 \in 1..Len(m)
                          /\ 1 < i + 1
                          /\ n[i] = m[i + 1]
  BY <1>1
<1>9. \A i \in 1..Len(b), j \in 1..Len(n) : b[i] < n[j]
  BY <1>2, <1>6, <1>7, <1>8 DEF InOrder, Increasing
<1>10. Below(b, v)
  BY <1>2, <1>6, <1>7 DEF Below
<1> QED
  BY <1>4, <1>5, <1>9, <1>10 DEF InOrder, n, b

LEMMA InitOrder == Init => OrderInv
BY DEF Init, OrderInv, InOrder, Increasing, Below, Owed

LEMMA QuietOrder ==
  ASSUME SectionInv, OrderInv, SamePushers,
         UNCHANGED <<mailbox, sent, published>>
  PROVE  OrderInv'
BY SameOwed DEF OrderInv

\* A unary handler empties mailboxes, or leaves them alone.
LEMMA UnaryOrder ==
  ASSUME SectionInv, OrderInv,
         \A t \in Topics, s \in SubIds : ~Owed(t, s)',
         \A s \in SubIds : mailbox'[s] \in {mailbox[s], <<>>},
         UNCHANGED <<sent, published>>
  PROVE  OrderInv'
<1> SUFFICES ASSUME NEW s \in SubIds
             PROVE  /\ InOrder(sent[s], mailbox'[s])
                    /\ Below(sent[s], published + 1)
                    /\ Below(mailbox'[s], published + 1)
  BY DEF OrderInv
<1>1. CASE mailbox'[s] = mailbox[s]
  BY <1>1 DEF OrderInv
<1>2. CASE mailbox'[s] = <<>>
  BY <1>2 DEF OrderInv, InOrder, Increasing, Below
<1> QED
  BY <1>1, <1>2

LEMMA UnaryStepsOrder ==
  ASSUME SectionInv, OrderInv, NEW h \in Handlers,
         RemoveTopic(h) \/ AddSubscriber(h) \/ RemoveSubscriber(h)
  PROVE  OrderInv'
<1>1. \A t \in Topics, s \in SubIds : ~Owed(t, s)'
  BY UnaryPushers DEF RemoveTopic, AddSubscriber, RemoveSubscriber, Locks
<1>2. UNCHANGED <<sent, published>>
  BY DEF RemoveTopic, AddSubscriber, RemoveSubscriber, history
<1>3. \A s \in SubIds : mailbox'[s] \in {mailbox[s], <<>>}
  <2>1. CASE RemoveTopic(h)
    BY <2>1 DEF RemoveTopic
  <2>2. CASE AddSubscriber(h)
    BY <2>2 DEF AddSubscriber, brokerVars, SectionInv, TypeOK
  <2>3. CASE RemoveSubscriber(h)
    BY <2>3 DEF RemoveSubscriber, SectionInv, TypeOK
  <2> QED
    BY <2>1, <2>2, <2>3
<1> QED
  BY <1>1, <1>2, <1>3, UnaryOrder

LEMMA BelowNext ==
  ASSUME NEW q \in Seq(Nat), NEW v \in Nat, Below(q, v)
  PROVE  Below(q, v + 1)
<1>1. \A i \in 1..Len(q) : q[i] \in Nat
  OBVIOUS
<1> QED
  BY <1>1 DEF Below

LEMMA PublishLockOrder ==
  ASSUME SectionInv, MapInv, OrderInv, NEW h \in Handlers, PublishLock(h)
  PROVE  OrderInv'
<1> SUFFICES ASSUME NEW s \in SubIds
             PROVE  /\ InOrder(sent[s], mailbox[s])
                    /\ Below(sent[s], published + 1)
                    /\ Below(mailbox[s], published + 1)
                    /\ Below(sent[s], published + 1 + 1)
                    /\ Below(mailbox[s], published + 1 + 1)
  BY PublishLockFacts DEF OrderInv
<1>1. /\ sent[s] \in Seq(Nat)
      /\ mailbox[s] \in Seq(Nat)
      /\ published + 1 \in Nat
  BY BacklogTypes
<1> QED
  BY <1>1, BelowNext DEF OrderInv

LEMMA PublishPushOrder ==
  ASSUME SectionInv, MapInv, OrderInv, NEW h \in Handlers, PublishPush(h)
  PROVE  OrderInv'
<1> DEFINE u == req[h].topic
<1>1. PICK r \in subs[u] :
        /\ mailbox' = [mailbox EXCEPT ![r] = Append(@, published)]
        /\ \A t \in Topics, s \in SubIds :
             /\ Owed(t, s) <=> t = u /\ s \in todo[h]
             /\ Owed(t, s)' <=> t = u /\ s \in todo[h] \ {r}
        /\ r \in todo[h]
  BY PublishPushFacts
<1>2. u \in Topics /\ UNCHANGED <<sent, published>>
  BY PublishPushFacts
<1> HIDE DEF u
<1>3. ASSUME NEW s \in SubIds
      PROVE  /\ InOrder(sent[s], mailbox'[s])
             /\ Below(sent[s], published + 1)
             /\ Below(mailbox'[s], published + 1)
             /\ \A t \in Topics :
                  Owed(t, s)' => /\ Below(sent[s], published)
                                 /\ Below(mailbox'[s], published)
  <2>1. CASE s = r
    <3>1. Below(sent[s], published) /\ Below(mailbox[s], published)
      BY <1>1, <1>2, <2>1 DEF OrderInv
    <3>2. mailbox'[s] = Append(mailbox[s], published)
      BY <1>1, <2>1 DEF SectionInv, TypeOK
    <3>3. /\ InOrder(sent[s], Append(mailbox[s], published))
          /\ Below(Append(mailbox[s], published), published + 1)
      BY <3>1, OrderPushed, BacklogTypes DEF OrderInv
    <3>4. \A t \in Topics : ~Owed(t, s)'
      BY <1>1, <2>1
    <3> QED
      BY <3>2, <3>3, <3>4 DEF OrderInv
  <2>2. CASE s # r
    <3>1. mailbox'[s] = mailbox[s]
      BY <1>1, <2>2 DEF SectionInv, TypeOK
    <3>2. \A t \in Topics : Owed(t, s)' => Owed(t, s)
      BY <1>1
    <3> QED
      BY <3>1, <3>2 DEF OrderInv
  <2> QED
    BY <2>1, <2>2
<1> QED
  BY <1>2, <1>3 DEF OrderInv

LEMMA ConsumeSendOrder ==
  ASSUME SectionInv, MapInv, OrderInv, NEW h \in Handlers,
         ConsumeSend(h) \/ ConsumeSendError(h)
  PROVE  OrderInv'
<1> DEFINE r == req[h].sub
<1>1. /\ mailbox[r] # <<>>
      /\ mailbox' = [mailbox EXCEPT ![r] = Tail(@)]
      /\ published' = published
      /\ \A t \in Topics, s \in SubIds : ~Owed(t, s)'
  BY ConsumePopFacts
<1>2. \/ sent' = [sent EXCEPT ![r] = Append(@, Head(mailbox[r]))]
      \/ sent' = sent
  BY DEF ConsumeSend, ConsumeSendError
<1> HIDE DEF r
<1>3. ASSUME NEW s \in SubIds
      PROVE  /\ InOrder(sent'[s], mailbox'[s])
             /\ Below(sent'[s], published + 1)
             /\ Below(mailbox'[s], published + 1)
  <2>1. /\ sent[s] \in Seq(Nat) /\ mailbox[s] \in Seq(Nat)
        /\ published + 1 \in Nat
        /\ InOrder(sent[s], mailbox[s])
        /\ Below(sent[s], published + 1)
        /\ Below(mailbox[s], published + 1)
    BY BacklogTypes DEF OrderInv
  <2>2. CASE s = r
    <3>1. mailbox'[s] = Tail(mailbox[s])
      BY <1>1, <2>2 DEF SectionInv, TypeOK
    <3>2. sent'[s] \in {Append(sent[s], Head(mailbox[s])), sent[s]}
      BY <1>2, <2>2 DEF SectionInv, TypeOK
    <3>3. mailbox[s] # <<>>
      BY <1>1, <2>2
    <3>4. /\ InOrder(sent[s], Tail(mailbox[s]))
          /\ Below(Tail(mailbox[s]), published + 1)
      BY <2>1, <3>3, OrderDropped
    <3>5. /\ InOrder(Append(sent[s], Head(mailbox[s])), Tail(mailbox[s]))
          /\ Below(Append(sent[s], Head(mailbox[s])), published + 1)
      BY <2>1, <3>3, OrderMoved
    <3> QED
      BY <2>1, <3>1, <3>2, <3>4, <3>5
  <2>3. CASE s # r
    <3>1. mailbox'[s] = mailbox[s] /\ sent'[s] = sent[s]
      BY <1>1, <1>2, <2>3 DEF SectionInv, TypeOK
    <3> QED
      BY <2>1, <3>1
  <2> QED
    BY <2>2, <2>3
<1> QED
  BY <1>1, <1>3 DEF OrderInv

LEMMA NextOrder == SectionInv /\ MapInv /\ OrderInv /\ [Next]_vars => OrderInv'
<1> SUFFICES ASSUME SectionInv, MapInv, OrderInv, [Next]_vars
             PROVE  OrderInv'
  OBVIOUS
<1>1. CASE UNCHANGED vars
  BY <1>1, QuietOrder
     DEF vars, brokerVars, callVars, history, SamePushers, Pusher
<1>2. ASSUME NEW h \in Handlers, QuietStep(h)
      PROVE  OrderInv'
  BY <1>2, QuietFacts, QuietOrder
<1>3. ASSUME NEW h \in Handlers,
             \/ RemoveTopic(h) \/ AddSubscriber(h) \/ RemoveSubscriber(h)
             \/ PublishLock(h) \/ PublishPush(h)
             \/ ConsumeSend(h) \/ ConsumeSendError(h)
      PROVE  OrderInv'
  BY <1>3, UnaryStepsOrder, PublishLockOrder, PublishPushOrder,
     ConsumeSendOrder
<1> QED
  BY <1>1, <1>2, <1>3 DEF Next, LockStep, OwnStep, QuietStep

\* quashserver.go:170-186.  Concurrent Consume calls for one subscriber share
\* its values: each goes out once at most, oldest first, whoever sends it.
THEOREM EachValueOnce == Spec => []HandedOutOnceInOrder
<1>1. SectionInv /\ OrderInv => HandedOutOnceInOrder
  BY BacklogTypes, OrderWhole DEF OrderInv, HandedOutOnceInOrder, Increasing
<1>2. Spec => []OrderInv
  BY InitOrder, NextOrder, SectionInvariance, MapInvariance, PTL DEF Spec
<1> QED
  BY <1>1, <1>2, SectionInvariance, PTL
=============================================================================
