---------------------------- MODULE PubSubProofs ----------------------------
(***************************************************************************)
(* Broker implements PubSub.  The cursor of a subscriber is how much of    *)
(* its topic's log is no longer in its mailbox nor on the way there.  The  *)
(* steps of Broker that matter are those that create and remove, that of   *)
(* PublishLock, which publishes to all subscribers at once, and those of   *)
(* Consume, which advance one cursor; in all the others, the pushes among  *)
(* them, no cursor moves.                                                  *)
(***************************************************************************)
EXTENDS BrokerLogProofs

LEMMA CursorOf ==
  ASSUME SectionInv, MapInv
  PROVE  /\ \A t \in Topics : \A s \in subs[t] : Cursors[s] = Cursor(t, s)
         /\ \A s \in SubIds :
              (\A t \in Topics : s \notin subs[t]) => Cursors[s] = 0
<1>1. ASSUME NEW t \in Topics, NEW s \in subs[t]
      PROVE  Cursors[s] = Cursor(t, s)
  <2>1. s \in SubIds
    BY BacklogTypes
  <2> DEFINE u == CHOOSE u \in Topics : s \in subs[u]
  <2>2. u \in Topics /\ s \in subs[u]
    OBVIOUS
  <2>3. u = t
    BY <2>2 DEF MapInv
  <2> HIDE DEF u
  <2>4. Cursors[s] = Cursor(u, s)
    BY <2>1 DEF Cursors, u
  <2> QED
    BY <2>3, <2>4
<1>2. \A s \in SubIds :
        (\A t \in Topics : s \notin subs[t]) => Cursors[s] = 0
  BY DEF Cursors
<1> QED
  BY <1>1, <1>2

\* The same of the next state.
LEMMA NextCursorOf ==
  ASSUME SectionInv', MapInv'
  PROVE  /\ \A t \in Topics : \A s \in subs'[t] : Cursors'[s] = Cursor(t, s)'
         /\ \A s \in SubIds :
              (\A t \in Topics : s \notin subs'[t]) => Cursors'[s] = 0
<1>1. ASSUME NEW t \in Topics, NEW s \in subs'[t]
      PROVE  Cursors'[s] = Cursor(t, s)'
  <2>1. s \in SubIds
    BY DEF SectionInv, TypeOK
  <2>2. PICK u \in Topics : u = CHOOSE v \in Topics : s \in subs'[v]
    OBVIOUS
  <2>3. u = t
    BY <2>2 DEF MapInv
  <2>4. Cursors'[s] = Cursor(u, s)'
    BY <2>1, <2>2 DEF Cursors, Cursor, Owed
  <2> QED
    BY <2>3, <2>4
<1>2. \A s \in SubIds :
        (\A t \in Topics : s \notin subs'[t]) => Cursors'[s] = 0
  BY DEF Cursors
<1> QED
  BY <1>1, <1>2

\* A step that leaves the subscriptions and every subscriber's place alone.
LEMMA SameCursors ==
  ASSUME SectionInv, MapInv, SectionInv', MapInv', subs' = subs,
         \A t \in Topics : \A s \in subs[t] : Cursor(t, s)' = Cursor(t, s)
  PROVE  Cursors' = Cursors
<1>1. \A s \in SubIds : Cursors'[s] = Cursors[s]
  BY CursorOf, NextCursorOf
<1> QED
  BY <1>1 DEF Cursors

LEMMA QuietCursors ==
  ASSUME SectionInv, MapInv, SectionInv', MapInv', SamePushers,
         UNCHANGED <<subs, mailbox, log>>
  PROVE  Cursors' = Cursors
<1>1. \A t \in Topics : \A s \in subs[t] : Cursor(t, s)' = Cursor(t, s)
  BY SameOwed, BacklogTypes DEF Cursor
<1> QED
  BY <1>1, SameCursors

LEMMA InitContract == Init => Contract!Init
<1> SUFFICES ASSUME Init
             PROVE  Contract!Init
  OBVIOUS
<1>1. Cursors = [s \in SubIds |-> 0]
  BY DEF Init, Cursors
<1> QED
  BY <1>1 DEF Init, Contract!Init

LEMMA QuietContract ==
  ASSUME SectionInv, MapInv, SectionInv', MapInv',
         NEW h \in Handlers, QuietStep(h)
  PROVE  Contract!Next \/ UNCHANGED Contract!vars
<1>1. /\ UNCHANGED <<subs, log, sent, issued, lost, published>>
      /\ Cursors' = Cursors
  BY QuietFacts, QuietCursors
<1>2. CASE topics' = topics
  BY <1>1, <1>2 DEF Contract!vars
<1>3. CASE topics' # topics
  <2>1. CreateTopic(h)
    BY <1>3
       DEF QuietStep, ClientStep, ConsumeLock, ConsumePanics, PublishUnlock,
           PublishAck, ConsumeUnlock, Call, ClientRead, ClientBreak,
           PublishRecv, PublishEnd, brokerVars
  <2>2. req[h].topic \in Topics
    BY <2>1, RequestFacts DEF CreateTopic, Locks, SectionInv, RequestsMatch
  <2>3. Contract!Create(req[h].topic)
    BY <1>1, <1>3, <2>1 DEF CreateTopic, Contract!Create
  <2> QED
    BY <2>2, <2>3 DEF Contract!Next
<1> QED
  BY <1>2, <1>3

LEMMA RemoveTopicContract ==
  ASSUME SectionInv, MapInv, SectionInv', MapInv',
         NEW h \in Handlers, RemoveTopic(h)
  PROVE  Contract!Next
<1> DEFINE u == req[h].topic
<1>1. u \in Topics
  BY RequestFacts DEF RemoveTopic, Locks, SectionInv, RequestsMatch
<1>2. \A t \in Topics, s \in SubIds : ~Owed(t, s) /\ ~Owed(t, s)'
  BY UnaryPushers DEF RemoveTopic, Locks
<1>3. /\ subs' = [subs EXCEPT ![u] = {}]
      /\ log' = [log EXCEPT ![u] = <<>>]
      /\ topics' = topics \ {u}
      /\ UNCHANGED <<issued, sent, lost, published>>
      /\ \A s \in SubIds :
           mailbox'[s] = IF s \in subs[u] THEN <<>> ELSE mailbox[s]
  BY DEF RemoveTopic
<1> HIDE DEF u
<1>4. \A t \in Topics : /\ subs'[t] = IF t = u THEN {} ELSE subs[t]
                        /\ log'[t] = IF t = u THEN <<>> ELSE log[t]
  BY <1>3 DEF SectionInv, TypeOK
<1>5. \A s \in SubIds :
        Cursors'[s] = IF s \in subs[u] THEN 0 ELSE Cursors[s]
  <2> SUFFICES ASSUME NEW s \in SubIds
               PROVE  Cursors'[s] = IF s \in subs[u] THEN 0 ELSE Cursors[s]
    OBVIOUS
  <2>1. CASE s \in subs[u]
    <3>1. \A t \in Topics : s \notin subs'[t]
      BY <1>1, <1>4, <2>1 DEF MapInv
    <3> QED
      BY <2>1, <3>1, NextCursorOf
  <2>2. ASSUME NEW t \in Topics, s \in subs[t], s \notin subs[u]
        PROVE  Cursors'[s] = Cursors[s]
    <3>1. t # u /\ s \in subs'[t]
      BY <1>4, <2>2
    <3>2. Cursor(t, s)' = Cursor(t, s)
      BY <1>2, <1>3, <1>4, <2>2, <3>1 DEF Cursor
    <3> QED
      BY <2>2, <3>1, <3>2, CursorOf, NextCursorOf
  <2>3. CASE \A t \in Topics : s \notin subs[t]
    <3>1. \A t \in Topics : s \notin subs'[t]
      BY <1>4, <2>3
    <3> QED
      BY <1>1, <2>3, <3>1, CursorOf, NextCursorOf
  <2> QED
    BY <2>1, <2>2, <2>3
<1>6. Cursors' = [s \in SubIds |-> IF s \in subs[u] THEN 0 ELSE Cursors[s]]
  BY <1>5 DEF Cursors
<1>7. Contract!Remove(u)
  BY <1>3, <1>6 DEF Contract!Remove
<1> QED
  BY <1>1, <1>7 DEF Contract!Next

LEMMA RemoveSubscriberContract ==
  ASSUME SectionInv, MapInv, SectionInv', MapInv',
         NEW h \in Handlers, RemoveSubscriber(h)
  PROVE  Contract!Next \/ UNCHANGED Contract!vars
<1> DEFINE u == req[h].topic
           r == req[h].sub
<1>1. u \in Topics /\ r \in SubIds
  BY RequestFacts DEF RemoveSubscriber, Locks, SectionInv, RequestsMatch
<1>2. \A t \in Topics, s \in SubIds : ~Owed(t, s) /\ ~Owed(t, s)'
  BY UnaryPushers DEF RemoveSubscriber, Locks
<1>3. /\ subs' = [subs EXCEPT ![u] = @ \ {r}]
      /\ UNCHANGED <<topics, issued, log, sent, lost, published>>
      /\ \A s \in SubIds \ {r} : mailbox'[s] = mailbox[s]
      /\ r \notin subs[u] => mailbox' = mailbox
  BY DEF RemoveSubscriber, history, SectionInv, TypeOK
<1> HIDE DEF u, r
<1>4. CASE r \notin subs[u]
  <2>1. subs' = subs
    BY <1>1, <1>3, <1>4 DEF SectionInv, TypeOK
  <2>2. \A t \in Topics : \A s \in subs[t] : Cursor(t, s)' = Cursor(t, s)
    BY <1>2, <1>3, <1>4, BacklogTypes DEF Cursor
  <2>3. Cursors' = Cursors
    BY <2>1, <2>2, SameCursors
  <2> QED
    BY <1>3, <2>1, <2>3 DEF Contract!vars
<1>5. CASE r \in subs[u]
  <2>1. \A t \in Topics :
          subs'[t] = IF t = u THEN subs[t] \ {r} ELSE subs[t]
    BY <1>3 DEF SectionInv, TypeOK
  <2>2. \A t \in Topics : r \notin subs'[t]
    BY <1>1, <1>5, <2>1 DEF MapInv
  <2>3. \A s \in SubIds : Cursors'[s] = IF s = r THEN 0 ELSE Cursors[s]
    <3> SUFFICES ASSUME NEW s \in SubIds
                 PROVE  Cursors'[s] = IF s = r THEN 0 ELSE Cursors[s]
      OBVIOUS
    <3>1. CASE s = r
      BY <2>2, <3>1, NextCursorOf
    <3>2. ASSUME NEW t \in Topics, s \in subs[t], s # r
          PROVE  Cursors'[s] = Cursors[s]
      <4>1. s \in subs'[t]
        BY <2>1, <3>2
      <4>2. Cursor(t, s)' = Cursor(t, s)
        BY <1>2, <1>3, <3>2 DEF Cursor
      <4> QED
        BY <3>2, <4>1, <4>2, CursorOf, NextCursorOf
    <3>3. CASE \A t \in Topics : s \notin subs[t]
      <4>1. \A t \in Topics : s \notin subs'[t]
        BY <2>1, <3>3
      <4> QED
        BY <1>5, <1>1, <3>3, <4>1, CursorOf, NextCursorOf
    <3> QED
      BY <3>1, <3>2, <3>3
  <2>4. Cursors' = [Cursors EXCEPT ![r] = 0]
    BY <2>3 DEF Cursors
  <2>5. Contract!Unsubscribe(u, r)
    BY <1>3, <1>5, <2>4 DEF Contract!Unsubscribe
  <2> QED
    BY <1>1, <2>5 DEF Contract!Next
<1> QED
  BY <1>4, <1>5

LEMMA AddSubscriberContract ==
  ASSUME SectionInv, MapInv, SectionInv', MapInv',
         NEW h \in Handlers, AddSubscriber(h)
  PROVE  Contract!Next \/ UNCHANGED Contract!vars
<1>1. PICK u \in Topics : u = req[h].topic
  BY RequestFacts DEF AddSubscriber, Locks, SectionInv, RequestsMatch
<1>2. \A t \in Topics, s \in SubIds : ~Owed(t, s) /\ ~Owed(t, s)'
  BY UnaryPushers DEF AddSubscriber, Locks
<1>3. UNCHANGED <<log, sent, lost, published>>
  BY DEF AddSubscriber, history
<1>4. CASE UNCHANGED brokerVars
  <2>1. \A t \in Topics : \A s \in subs[t] : Cursor(t, s)' = Cursor(t, s)
    BY <1>2, <1>3, <1>4, BacklogTypes DEF Cursor, brokerVars
  <2>2. Cursors' = Cursors
    BY <1>4, <2>1, SameCursors DEF brokerVars
  <2> QED
    BY <1>3, <1>4, <2>2 DEF Contract!vars, brokerVars
<1>5. CASE u \in topics /\ ~UNCHANGED brokerVars
  <2>1. PICK r \in SubIds \ issued :
          /\ issued' = issued \cup {r}
          /\ subs' = [subs EXCEPT ![u] = @ \cup {r}]
          /\ mailbox' = [mailbox EXCEPT ![r] = <<>>]
    BY <1>1, <1>5 DEF AddSubscriber
  <2>2. topics' = topics
    BY <1>1, <1>5 DEF AddSubscriber
  <2>3. /\ \A t \in Topics :
             subs'[t] = IF t = u THEN subs[t] \cup {r} ELSE subs[t]
        /\ \A s \in SubIds :
             mailbox'[s] = IF s = r THEN <<>> ELSE mailbox[s]
        /\ \A t \in Topics : r \notin subs[t]
    BY <2>1 DEF SectionInv, TypeOK, MapInv
  <2>4. \A s \in SubIds :
          Cursors'[s] = IF s = r THEN Len(log[u]) ELSE Cursors[s]
    <3> SUFFICES ASSUME NEW s \in SubIds
                 PROVE  Cursors'[s] =
                          IF s = r THEN Len(log[u]) ELSE Cursors[s]
      OBVIOUS
    <3>1. CASE s = r
      <4>1. r \in subs'[u]
        BY <1>1, <2>3
      <4>2. mailbox'[r] = <<>> /\ ~Owed(u, r)'
        BY <1>1, <1>2, <2>1, <2>3
      <4>3. Cursor(u, r)' = Len(log[u]) - 0 - 0
        BY <1>3, <4>2 DEF Cursor
      <4> QED
        BY <1>1, <3>1, <4>1, <4>3, NextCursorOf, BacklogTypes
    <3>2. ASSUME NEW t \in Topics, s \in subs[t], s # r
          PROVE  Cursors'[s] = Cursors[s]
      <4>1. s \in subs'[t]
        BY <2>3, <3>2
      <4>2. Cursor(t, s)' = Cursor(t, s)
        BY <1>2, <1>3, <2>3, <3>2 DEF Cursor
      <4> QED
        BY <3>2, <4>1, <4>2, CursorOf, NextCursorOf
    <3>3. CASE s # r /\ \A t \in Topics : s \notin subs[t]
      <4>1. \A t \in Topics : s \notin subs'[t]
        BY <2>3, <3>3
      <4> QED
        BY <3>3, <4>1, CursorOf, NextCursorOf
    <3> QED
      BY <3>1, <3>2, <3>3
  <2>5. Cursors' = [Cursors EXCEPT ![r] = Len(log[u])]
    BY <2>4 DEF Cursors
  <2>6. Contract!Subscribe(u, r)
    BY <1>3, <1>5, <2>1, <2>2, <2>5 DEF Contract!Subscribe
  <2> QED
    BY <1>1, <2>6 DEF Contract!Next
<1> QED
  BY <1>1, <1>4, <1>5 DEF AddSubscriber

LEMMA PublishLockContract ==
  ASSUME SectionInv, MapInv, SectionInv', MapInv',
         NEW h \in Handlers, PublishLock(h)
  PROVE  Contract!Next
<1> DEFINE u == req[h].topic
<1>1. /\ u \in Topics
      /\ UNCHANGED <<subs, mailbox, topics, issued, sent, lost>>
      /\ published' = published + 1
  BY PublishLockFacts
<1>2. log' = IF u \in topics THEN [log EXCEPT ![u] = Append(@, published')]
                            ELSE log
  BY DEF PublishLock
<1>3. ASSUME NEW t \in Topics, NEW s \in subs[t]
      PROVE  Cursor(t, s)' = Cursor(t, s)
  <2>1. /\ s \in SubIds
        /\ ~Owed(t, s)
        /\ Len(log[t]) \in Nat
        /\ Len(mailbox[s]) \in Nat
    BY PublishLockFacts, BacklogTypes
  <2>2. CASE t = u
    <3>1. u \in topics /\ Owed(t, s)'
      BY <2>1, <2>2, PublishLockFacts
    <3>2. log'[t] = Append(log[t], published + 1)
      BY <2>2, <3>1, PublishLockFacts
    <3>3. Len(log'[t]) = Len(log[t]) + 1
      BY <3>2, AppendElements, BacklogTypes
    <3> QED
      BY <1>1, <2>1, <3>1, <3>3 DEF Cursor
  <2>3. CASE t # u
    <3>1. log'[t] = log[t] /\ ~Owed(t, s)'
      BY <2>1, <2>3, PublishLockFacts
    <3> QED
      BY <1>1, <2>1, <3>1 DEF Cursor
  <2> QED
    BY <2>2, <2>3
<1>4. Cursors' = Cursors
  BY <1>1, <1>3, SameCursors
<1>5. Contract!Publish(u)
  BY <1>1, <1>2, <1>4 DEF Contract!Publish
<1> QED
  BY <1>1, <1>5 DEF Contract!Next

LEMMA PublishPushContract ==
  ASSUME SectionInv, MapInv, SectionInv', MapInv',
         NEW h \in Handlers, PublishPush(h)
  PROVE  UNCHANGED Contract!vars
<1> DEFINE u == req[h].topic
<1>1. PICK r \in subs[u] :
        /\ mailbox' = [mailbox EXCEPT ![r] = Append(@, published)]
        /\ \A t \in Topics, s \in SubIds :
             /\ Owed(t, s) <=> t = u /\ s \in todo[h]
             /\ Owed(t, s)' <=> t = u /\ s \in todo[h] \ {r}
        /\ r \in todo[h]
  BY PublishPushFacts
<1>2. /\ u \in Topics
      /\ UNCHANGED <<subs, topics, issued, sent, lost, published, log>>
  BY PublishPushFacts
<1> HIDE DEF u
<1>3. ASSUME NEW t \in Topics, NEW s \in subs[t]
      PROVE  Cursor(t, s)' = Cursor(t, s)
  <2>1. /\ s \in SubIds
        /\ Len(log[t]) \in Nat
        /\ Len(mailbox[s]) \in Nat
    BY BacklogTypes
  <2>2. CASE s = r
    <3>1. t = u
      BY <1>1, <1>2, <2>2 DEF MapInv
    <3>2. Owed(t, s) /\ ~Owed(t, s)'
      BY <1>1, <2>1, <2>2, <3>1
    <3>3. mailbox'[s] = Append(mailbox[s], published)
      BY <1>1, <2>1, <2>2 DEF SectionInv, TypeOK
    <3>4. Len(mailbox'[s]) = Len(mailbox[s]) + 1
      BY <2>1, <3>3, AppendElements, BacklogTypes
    <3> QED
      BY <1>2, <2>1, <3>2, <3>4 DEF Cursor
  <2>3. CASE s # r
    <3>1. mailbox'[s] = mailbox[s]
      BY <1>1, <2>1, <2>3 DEF SectionInv, TypeOK
    <3>2. Owed(t, s)' <=> Owed(t, s)
      BY <1>1, <2>1, <2>3
    <3> QED
      BY <1>2, <3>1, <3>2 DEF Cursor
  <2> QED
    BY <2>2, <2>3
<1>4. Cursors' = Cursors
  BY <1>2, <1>3, SameCursors
<1> QED
  BY <1>2, <1>4 DEF Contract!vars

LEMMA OneLess ==
  ASSUME NEW l \in Nat, NEW m \in Nat, m > 0
  PROVE  l - m < l /\ (l - m) + 1 = l - (m - 1) - 0
OBVIOUS

\* Both ways in which Consume takes a value move one cursor by one.
LEMMA ConsumePopCursors ==
  ASSUME SectionInv, MapInv, SectionInv', MapInv', BacklogInv,
         NEW h \in Handlers, ConsumeSend(h) \/ ConsumeSendError(h)
  PROVE  LET t == req[h].topic
             s == req[h].sub IN
         /\ t \in Topics
         /\ s \in SubIds
         /\ s \in subs[t]
         /\ UNCHANGED <<subs, topics, issued, log, published>>
         /\ Cursors[s] < Len(log[t])
         /\ Head(mailbox[s]) = log[t][Cursors[s] + 1]
         /\ Cursors' = [Cursors EXCEPT ![s] = @ + 1]
<1>0. PICK u \in Topics, r \in SubIds : u = req[h].topic /\ r = req[h].sub
  BY ConsumePopFacts, BacklogTypes
<1>1. /\ u \in Topics
      /\ r \in subs[u]
      /\ mailbox[r] \in Seq(Nat)
      /\ mailbox[r] # <<>>
      /\ mailbox' = [mailbox EXCEPT ![r] = Tail(@)]
      /\ UNCHANGED <<subs, topics, issued, log, published>>
      /\ \A t \in Topics, s \in SubIds : ~Owed(t, s) /\ ~Owed(t, s)'
  BY <1>0, ConsumePopFacts
<1>2. r \in SubIds
  BY <1>1, BacklogTypes
<1>3. /\ Len(mailbox[r]) \in Nat
      /\ Len(mailbox[r]) > 0
      /\ Head(mailbox[r]) = mailbox[r][1]
      /\ Len(Tail(mailbox[r])) = Len(mailbox[r]) - 1
  BY <1>1, TailElements
<1>4. Len(log[u]) \in Nat
  BY <1>1, BacklogTypes
<1>5. /\ Cursors[r] = Cursor(u, r)
      /\ Cursors[r] = Len(log[u]) - Len(mailbox[r])
  <2>1. Cursors[r] = Cursor(u, r)
    BY <1>1, CursorOf
  <2>2. ~Owed(u, r)
    BY <1>1
  <2>3. Cursor(u, r) = Len(log[u]) - Len(mailbox[r]) - 0
    BY <2>2 DEF Cursor
  <2> QED
    BY <1>3, <1>4, <2>1, <2>3
<1>6. Cursors[r] \in Nat /\ Cursors[r] < Len(log[u])
  <2>1. Cursors[r] \in Nat
    BY <1>1, <1>5 DEF BacklogInv, MailboxIsBacklog
  <2>2. Len(log[u]) - Len(mailbox[r]) < Len(log[u])
    BY <1>3, <1>4, OneLess
  <2> QED
    BY <1>5, <2>1, <2>2
<1>7. Head(mailbox[r]) = log[u][Cursors[r] + 1]
  <2>1. 1 \in 1..Len(mailbox[r])
    BY <1>3
  <2> QED
    BY <1>1, <1>3, <1>5, <2>1 DEF BacklogInv, MailboxIsBacklog
<1>8. ASSUME NEW s \in SubIds
      PROVE  Cursors'[s] = IF s = r THEN Cursors[s] + 1 ELSE Cursors[s]
  <2>1. CASE s = r
    <3>1. mailbox'[r] = Tail(mailbox[r])
      BY <1>1, <1>2 DEF SectionInv, TypeOK
    <3>2. Cursor(u, r)' = Len(log[u]) - Len(Tail(mailbox[r])) - 0
      <4>1. ~Owed(u, r)' /\ log' = log
        BY <1>1
      <4> QED
        BY <3>1, <4>1 DEF Cursor
    <3>3. Cursors'[r] = Cursor(u, r)'
      BY <1>1, NextCursorOf
    <3>4. (Len(log[u]) - Len(mailbox[r])) + 1
            = Len(log[u]) - (Len(mailbox[r]) - 1) - 0
      BY <1>3, <1>4, OneLess
    <3> QED
      BY <1>3, <1>5, <2>1, <3>2, <3>3, <3>4
  <2>2. ASSUME NEW t \in Topics, s \in subs[t], s # r
        PROVE  Cursors'[s] = Cursors[s]
    <3>1. mailbox'[s] = mailbox[s]
      BY <1>1, <2>2 DEF SectionInv, TypeOK
    <3>2. Cursor(t, s)' = Cursor(t, s)
      BY <1>1, <2>2, <3>1 DEF Cursor
    <3> QED
      BY <1>1, <2>2, <3>2, CursorOf, NextCursorOf
  <2>3. CASE s # r /\ \A t \in Topics : s \notin subs[t]
    BY <1>1, <2>3, CursorOf, NextCursorOf
  <2> QED
    BY <2>1, <2>2, <2>3
<1>9. Cursors' = [Cursors EXCEPT ![r] = @ + 1]
  BY <1>8 DEF Cursors
<1> QED
  BY <1>0, <1>1, <1>2, <1>6, <1>7, <1>9

LEMMA ConsumePopContract ==
  ASSUME SectionInv, MapInv, SectionInv', MapInv', BacklogInv,
         NEW h \in Handlers, ConsumeSend(h) \/ ConsumeSendError(h)
  PROVE  Contract!Next
<1> DEFINE u == req[h].topic
           r == req[h].sub
<1>1. /\ u \in Topics
      /\ r \in SubIds
      /\ r \in subs[u]
      /\ UNCHANGED <<subs, topics, issued, log, published>>
      /\ Cursors[r] < Len(log[u])
      /\ Head(mailbox[r]) = log[u][Cursors[r] + 1]
      /\ Cursors' = [Cursors EXCEPT ![r] = @ + 1]
  BY ConsumePopCursors
<1>2. CASE ConsumeSend(h)
  <2>1. /\ sent' = [sent EXCEPT ![r] = Append(@, Head(mailbox[r]))]
        /\ lost' = lost
    BY <1>2 DEF ConsumeSend
  <2> HIDE DEF u, r
  <2>2. Contract!Deliver(u, r)
    BY <1>1, <2>1 DEF Contract!Deliver
  <2> QED
    BY <1>1, <2>2 DEF Contract!Next
<1>3. CASE ConsumeSendError(h)
  <2>1. lost' = lost + 1 /\ sent' = sent
    BY <1>3 DEF ConsumeSendError
  <2> HIDE DEF u, r
  <2>2. Contract!Lose(u, r)
    BY <1>1, <2>1 DEF Contract!Lose
  <2> QED
    BY <1>1, <2>2 DEF Contract!Next
<1> QED
  BY <1>2, <1>3

LEMMA NextContract ==
  SectionInv /\ MapInv /\ BacklogInv /\ SectionInv' /\ MapInv' /\ [Next]_vars
    => [Contract!Next]_Contract!vars
<1> SUFFICES ASSUME SectionInv, MapInv, BacklogInv, SectionInv', MapInv',
                    [Next]_vars
             PROVE  Contract!Next \/ UNCHANGED Contract!vars
  OBVIOUS
<1>1. CASE UNCHANGED vars
  <2>1. UNCHANGED <<subs, mailbox, log>> /\ SamePushers
    BY <1>1 DEF vars, brokerVars, callVars, history, SamePushers, Pusher
  <2> QED
    BY <1>1, <2>1, QuietCursors DEF vars, brokerVars, history, Contract!vars
<1>2. ASSUME NEW h \in Handlers, QuietStep(h)
      PROVE  Contract!Next \/ UNCHANGED Contract!vars
  BY <1>2, QuietContract
<1>3. ASSUME NEW h \in Handlers,
             \/ RemoveTopic(h) \/ AddSubscriber(h) \/ RemoveSubscriber(h)
             \/ PublishLock(h) \/ PublishPush(h)
             \/ ConsumeSend(h) \/ ConsumeSendError(h)
      PROVE  Contract!Next \/ UNCHANGED Contract!vars
  BY <1>3, RemoveTopicContract, AddSubscriberContract,
     RemoveSubscriberContract, PublishLockContract, PublishPushContract,
     ConsumePopContract
<1> QED
  BY <1>1, <1>2, <1>3 DEF Next, LockStep, OwnStep, QuietStep

\* README.md:41.  The six handlers, with their lock, loops and mailboxes, do
\* nothing a shared log with one cursor per subscriber would not do: a
\* subscriber gets what was published after it joined, in order, each value
\* once at most, and a cursor passes a value without handing it to the
\* subscriber's connection only when that Send failed.
THEOREM MailboxesImplementPubSub == Spec => ImplementsPubSub
<1>1. Spec => []SectionInv /\ []MapInv /\ []BacklogInv
  BY SectionInvariance, MapInvariance, BacklogInvariance, PTL
<1>2. Spec => Contract!Init /\ [][Contract!Next]_Contract!vars
  BY <1>1, InitContract, NextContract, PTL DEF Spec
<1> QED
  BY <1>2, PTL DEF ImplementsPubSub, Contract!Spec
=============================================================================
