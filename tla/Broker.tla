------------------------------- MODULE Broker -------------------------------
(***************************************************************************)
(* The topic broker of server/quashserver/quashserver.go: the map          *)
(*   brokers : topic -> subscriber id -> *queue.Queue                      *)
(* the mutex brokersLock, and the six RPC handlers that use them.  gRPC    *)
(* runs every call in a goroutine of its own, so any number of handlers    *)
(* interleave; a handler is named by the slot in Handlers it occupies.     *)
(*                                                                         *)
(* Grain.  A unary handler does nothing but Lock, a body that cannot       *)
(* block, and Unlock: it is one step, possible when the lock is free.  The *)
(* two streaming handlers hold the lock across a loop, so their loops are  *)
(* steps: Publish pushes to one mailbox per step, Consume pops and sends   *)
(* one value per step, and its Send can block or fail with the lock held.  *)
(*                                                                         *)
(* brokers is represented by topics (its keys), subs[t] (the keys of       *)
(* brokers[t]; none when t is not a key) and mailbox[s], the queue of s.   *)
(* A Queue is its sequence of elements: Count is Len, Pop is Head/Tail.    *)
(* A value is named by its place in the order of publication.              *)
(***************************************************************************)
EXTENDS Naturals, Sequences, FiniteSets

CONSTANTS
  Topics,        \* the topic names clients use
  SubIds,        \* the ids SubscriptionID() may return
  Handlers,      \* concurrent RPC calls
  NoOne,         \* "the mutex is unlocked", "no subscriber id in the request"
  Window,        \* responses a stream buffers before its Send blocks
  MaxPublishes   \* bound: values published in a behaviour

ASSUME BrokerAssumption ==
  /\ NoOne \notin Handlers
  /\ NoOne \notin SubIds
  /\ Window \in Nat \ {0}
  /\ MaxPublishes \in Nat

VARIABLES
  brokersLock,  \* the handler that locked the mutex last, NoOne if unlocked
  topics, subs, mailbox,   \* the brokers map
  issued,       \* ids SubscriptionID() has returned
  pc,           \* pc[h]: where handler h is
  req,          \* req[h]: the request h is serving
  todo,         \* todo[h]: Publish's range loop, the mailboxes still to push to
  left,         \* left[h]: Consume's loop, count - i
  unread,       \* unread[h]: responses sent on h's stream, not read yet
  broken,       \* the calls whose client went away and the transport noticed
  published, log, sent, lost   \* history: see PubSub

brokerVars == <<topics, subs, mailbox, issued>>
callVars == <<pc, req, todo, left>>
streamVars == <<unread, broken>>
history == <<published, log, sent, lost>>
vars == <<brokersLock, brokerVars, callVars, streamVars, history>>

Requests ==
  [op : {"CreateTopic", "RemoveTopic", "AddSubscriber", "Publish"},
   topic : Topics, sub : {NoOne}]
  \cup [op : {"RemoveSubscriber", "Consume"}, topic : Topics, sub : SubIds]

NoRequest == [op |-> "none", topic |-> NoOne, sub |-> NoOne]

Init ==
  /\ brokersLock = NoOne
  /\ topics = {}
  /\ subs = [t \in Topics |-> {}]
  /\ mailbox = [s \in SubIds |-> <<>>]
  /\ issued = {}
  /\ pc = [h \in Handlers |-> "idle"]
  /\ req = [h \in Handlers |-> NoRequest]
  /\ todo = [h \in Handlers |-> {}]
  /\ left = [h \in Handlers |-> 0]
  /\ unread = [h \in Handlers |-> 0]
  /\ broken = {}
  /\ published = 0
  /\ log = [t \in Topics |-> <<>>]
  /\ sent = [s \in SubIds |-> <<>>]
  /\ lost = 0

-----------------------------------------------------------------------------
(* The client's side of a call, and the end of one *)

\* The number of calls of operation o that wait for the lock.
Waiting(o) == Cardinality({h \in Handlers : pc[h] = "lock" /\ req[h].op = o})

\* Bounds: MaxPublishes values, and one AddSubscriber call per id.
WithinBounds(o) ==
  /\ o = "Publish" => published + Waiting(o) < MaxPublishes
  /\ o = "AddSubscriber" =>
       Cardinality(issued) + Waiting(o) < Cardinality(SubIds)

\* A client starts a call, and its request arrives.  It names a subscriber by
\* an id it was given, which may be stale by now (a made-up id is in no map
\* either, and behaves like the id of a removed subscriber).  A stream that
\* ends before its first request makes the handler return, with no effect.
Call(h) ==
  /\ pc[h] = "idle"
  /\ unread[h] = 0
  /\ \E r \in Requests :
       /\ WithinBounds(r.op)
       /\ r.sub \in issued \cup {NoOne}
       /\ req' = [req EXCEPT ![h] = r]
  /\ pc' = [pc EXCEPT ![h] = "lock"]
  /\ UNCHANGED <<brokersLock, brokerVars, todo, left, streamVars, history>>

\* The client reads a response, which makes room in the stream.
ClientRead(h) ==
  /\ unread[h] > 0
  /\ unread' = [unread EXCEPT ![h] = @ - 1]
  /\ UNCHANGED <<brokersLock, brokerVars, callVars, broken, history>>

\* The client cancels or disconnects: what it had not read is gone, and from
\* here on the stream's Send and Recv return an error.
ClientBreak(h) ==
  /\ req[h].op \in {"Publish", "Consume"}
  /\ h \notin broken
  /\ broken' = broken \cup {h}
  /\ unread' = [unread EXCEPT ![h] = 0]
  /\ UNCHANGED <<brokersLock, brokerVars, callVars, history>>

\* Handler h returns; whether it has unlocked is up to the caller.
Return(h) ==
  /\ pc' = [pc EXCEPT ![h] = "idle"]
  /\ req' = [req EXCEPT ![h] = NoRequest]
  /\ todo' = [todo EXCEPT ![h] = {}]
  /\ left' = [left EXCEPT ![h] = 0]
  /\ broken' = broken \ {h}

\* Handler h is at brokersLock.Lock() for operation o, and gets the lock.
Locks(h, o) == pc[h] = "lock" /\ req[h].op = o /\ brokersLock = NoOne

-----------------------------------------------------------------------------
(* The unary handlers: lock, body, deferred unlock *)

\* Faulty variant: the map entry is replaced although the topic exists.
CreateTopic_NoCheck(h) ==
  /\ Locks(h, "CreateTopic")
  /\ topics' = topics \cup {req[h].topic}
  /\ subs' = [subs EXCEPT ![req[h].topic] = {}]
  /\ mailbox' = [s \in SubIds |->
                   IF s \in subs[req[h].topic] THEN <<>> ELSE mailbox[s]]
  /\ Return(h)
  /\ UNCHANGED <<brokersLock, issued, unread, history>>

CreateTopic(h) ==
  /\ Locks(h, "CreateTopic")
  /\ LET t == req[h].topic IN
       IF t \in topics
       THEN UNCHANGED <<topics, subs>>          \* "topic already exists"
       ELSE /\ topics' = topics \cup {t}
            /\ subs' = [subs EXCEPT ![t] = {}]
  /\ Return(h)
  /\ UNCHANGED <<brokersLock, mailbox, issued, unread, history>>

RemoveTopic(h) ==
  /\ Locks(h, "RemoveTopic")
  /\ LET t == req[h].topic IN
       /\ topics' = topics \ {t}
       /\ subs' = [subs EXCEPT ![t] = {}]
       /\ mailbox' = [s \in SubIds |->
                        IF s \in subs[t] THEN <<>> ELSE mailbox[s]]
       /\ log' = [log EXCEPT ![t] = <<>>]
  /\ Return(h)
  /\ UNCHANGED <<brokersLock, issued, unread, published, sent, lost>>

\* Faulty variant: the id is registered, NewQueue() is forgotten.
AddSubscriber_NilQueue(h) ==
  /\ Locks(h, "AddSubscriber")
  /\ req[h].topic \in topics
  /\ \E s \in SubIds \ issued :
       /\ issued' = issued \cup {s}
       /\ subs' = [subs EXCEPT ![req[h].topic] = @ \cup {s}]
       /\ mailbox' = [mailbox EXCEPT ![s] = NoOne]
  /\ Return(h)
  /\ UNCHANGED <<brokersLock, topics, unread, history>>

\* SubscriptionID() draws 16 random bytes: the id is one never drawn before.
AddSubscriber(h) ==
  /\ Locks(h, "AddSubscriber")
  /\ LET t == req[h].topic IN
       \/ /\ t \notin topics                    \* "topic does not exist"
          /\ UNCHANGED brokerVars
       \/ /\ t \in topics
          /\ \E s \in SubIds \ issued :
               /\ issued' = issued \cup {s}
               /\ subs' = [subs EXCEPT ![t] = @ \cup {s}]
               /\ mailbox' = [mailbox EXCEPT ![s] = <<>>]
          /\ UNCHANGED topics
  /\ Return(h)
  /\ UNCHANGED <<brokersLock, unread, history>>

\* Faulty variant: the handler does not take the lock.
RemoveSubscriber_NoLock(h) ==
  /\ pc[h] = "lock"
  /\ req[h].op = "RemoveSubscriber"
  /\ subs' = [subs EXCEPT ![req[h].topic] = @ \ {req[h].sub}]
  /\ mailbox' = [mailbox EXCEPT ![req[h].sub] = <<>>]
  /\ Return(h)
  /\ UNCHANGED <<brokersLock, topics, issued, unread, history>>

\* delete() of a missing topic or id is a no-op.
RemoveSubscriber(h) ==
  /\ Locks(h, "RemoveSubscriber")
  /\ LET t == req[h].topic
         s == req[h].sub IN
       /\ subs' = [subs EXCEPT ![t] = @ \ {s}]
       /\ mailbox' = IF s \in subs[t] THEN [mailbox EXCEPT ![s] = <<>>]
                                      ELSE mailbox
  /\ Return(h)
  /\ UNCHANGED <<brokersLock, topics, issued, unread, history>>

-----------------------------------------------------------------------------
(* Publish: one stream carries any number of values *)

\* Lock, and start the range over brokers[topic] (nil, so empty, when there
\* is no such topic).
PublishLock(h) ==
  /\ Locks(h, "Publish")
  /\ LET t == req[h].topic IN
       /\ todo' = [todo EXCEPT ![h] = subs[t]]
       /\ published' = published + 1
       /\ log' = IF t \in topics
                 THEN [log EXCEPT ![t] = Append(@, published')]
                 ELSE log
  /\ brokersLock' = h
  /\ pc' = [pc EXCEPT ![h] = "push"]
  /\ UNCHANGED <<brokerVars, req, left, streamVars, sent, lost>>

\* Faulty variant: Push makes the new node the root.
PublishPush_ToFront(h) ==
  /\ pc[h] = "push"
  /\ \E s \in todo[h] :
       /\ mailbox' = [mailbox EXCEPT ![s] = <<published>> \o @]
       /\ todo' = [todo EXCEPT ![h] = @ \ {s}]
  /\ UNCHANGED <<brokersLock, topics, subs, issued, pc, req, left, streamVars,
                 history>>

\* One turn of the loop; Go ranges over a map in any order.
PublishPush(h) ==
  /\ pc[h] = "push"
  /\ \E s \in todo[h] :
       /\ mailbox' = [mailbox EXCEPT ![s] = Append(@, published)]
       /\ todo' = [todo EXCEPT ![h] = @ \ {s}]
  /\ UNCHANGED <<brokersLock, topics, subs, issued, pc, req, left, streamVars,
                 history>>

\* Faulty variant: the loop stops before the range is exhausted.
PublishUnlock_Early(h) ==
  /\ pc[h] = "push"
  /\ brokersLock' = NoOne
  /\ pc' = [pc EXCEPT ![h] = "ack"]
  /\ UNCHANGED <<brokerVars, req, todo, left, streamVars, history>>

\* Faulty variant: the acknowledgement is sent with the lock held, and a
\* failure to send it returns.
PublishUnlock_Forgotten(h) ==
  /\ pc[h] = "push"
  /\ todo[h] = {}
  /\ IF h \in broken
     THEN Return(h) /\ UNCHANGED <<brokersLock, unread>>
     ELSE /\ brokersLock' = NoOne
          /\ pc' = [pc EXCEPT ![h] = "ack"]
          /\ UNCHANGED <<req, todo, left, streamVars>>
  /\ UNCHANGED <<brokerVars, history>>

PublishUnlock(h) ==
  /\ pc[h] = "push"
  /\ todo[h] = {}
  /\ brokersLock' = NoOne
  /\ pc' = [pc EXCEPT ![h] = "ack"]
  /\ UNCHANGED <<brokerVars, req, todo, left, streamVars, history>>

\* Send the acknowledgement and go back to Recv; a failed Send ends the call.
PublishAck(h) ==
  /\ pc[h] = "ack"
  /\ \/ /\ h \notin broken
        /\ pc' = [pc EXCEPT ![h] = "recv"]
        /\ UNCHANGED <<req, todo, left, broken>>
     \/ /\ h \in broken
        /\ Return(h)
  /\ UNCHANGED <<brokersLock, brokerVars, unread, history>>

\* The next value of the stream arrives, to whatever topic it names.
PublishRecv(h) ==
  /\ pc[h] = "recv"
  /\ h \notin broken
  /\ WithinBounds("Publish")
  /\ \E t \in Topics : req' = [req EXCEPT ![h].topic = t]
  /\ pc' = [pc EXCEPT ![h] = "lock"]
  /\ UNCHANGED <<brokersLock, brokerVars, todo, left, streamVars, history>>

\* Recv returns io.EOF, or the error of a broken stream.
PublishEnd(h) ==
  /\ pc[h] = "recv"
  /\ Return(h)
  /\ UNCHANGED <<brokersLock, brokerVars, unread, history>>

-----------------------------------------------------------------------------
(* Consume: drain one mailbox into the stream, the lock held throughout *)

ConsumeLock(h) ==
  /\ Locks(h, "Consume")
  /\ req[h].sub \in subs[req[h].topic]
  /\ brokersLock' = h
  /\ left' = [left EXCEPT ![h] = Len(mailbox[req[h].sub])]
  /\ pc' = [pc EXCEPT ![h] = "drain"]
  /\ UNCHANGED <<brokerVars, req, todo, streamVars, history>>

\* The map holds no such queue: q is nil and q.Count() dereferences it.
\* Nothing recovers, so the process dies, with all its goroutines and streams.
ConsumePanics(h) ==
  /\ Locks(h, "Consume")
  /\ req[h].sub \notin subs[req[h].topic]
  /\ brokersLock' = h
  /\ pc' = [g \in Handlers |-> "dead"]
  /\ req' = [g \in Handlers |-> NoRequest]
  /\ todo' = [g \in Handlers |-> {}]
  /\ left' = [g \in Handlers |-> 0]
  /\ unread' = [g \in Handlers |-> 0]
  /\ broken' = {}
  /\ UNCHANGED <<brokerVars, history>>

\* Faulty variant: the element is read and not removed.
ConsumeSend_NoPop(h) ==
  /\ pc[h] = "drain"
  /\ left[h] > 0
  /\ h \notin broken
  /\ unread[h] < Window
  /\ sent' = [sent EXCEPT ![req[h].sub] =
                Append(@, Head(mailbox[req[h].sub]))]
  /\ left' = [left EXCEPT ![h] = @ - 1]
  /\ unread' = [unread EXCEPT ![h] = @ + 1]
  /\ UNCHANGED <<brokersLock, brokerVars, pc, req, todo, broken, published,
                 log, lost>>

\* q.Pop(), and a Send that finds room in the stream.
ConsumeSend(h) ==
  /\ pc[h] = "drain"
  /\ left[h] > 0
  /\ h \notin broken
  /\ unread[h] < Window
  /\ LET s == req[h].sub IN
       /\ mailbox' = [mailbox EXCEPT ![s] = Tail(@)]
       /\ sent' = [sent EXCEPT ![s] = Append(@, Head(mailbox[s]))]
  /\ left' = [left EXCEPT ![h] = @ - 1]
  /\ unread' = [unread EXCEPT ![h] = @ + 1]
  /\ UNCHANGED <<brokersLock, topics, subs, issued, pc, req, todo, broken,
                 published, log, lost>>

\* q.Pop(), and a Send that fails: return err, past the Unlock.
ConsumeSendError(h) ==
  /\ pc[h] = "drain"
  /\ left[h] > 0
  /\ h \in broken
  /\ mailbox' = [mailbox EXCEPT ![req[h].sub] = Tail(@)]
  /\ lost' = lost + 1
  /\ Return(h)
  /\ UNCHANGED <<brokersLock, topics, subs, issued, unread, published, log,
                 sent>>

\* Faulty variant: the loop runs one time too few.
ConsumeUnlock_OffByOne(h) ==
  /\ pc[h] = "drain"
  /\ left[h] \in {0, 1}
  /\ brokersLock' = NoOne
  /\ Return(h)
  /\ UNCHANGED <<brokerVars, unread, history>>

\* Faulty variant: a Consume that found nothing waits for a first value.
ConsumeUnlock_Waits(h) ==
  /\ pc[h] = "drain"
  /\ left[h] = 0
  /\ sent[req[h].sub] # <<>>
  /\ brokersLock' = NoOne
  /\ Return(h)
  /\ UNCHANGED <<brokerVars, unread, history>>

ConsumeUnlock(h) ==
  /\ pc[h] = "drain"
  /\ left[h] = 0
  /\ brokersLock' = NoOne
  /\ Return(h)
  /\ UNCHANGED <<brokerVars, unread, history>>

-----------------------------------------------------------------------------

\* The steps of h that take the lock, and those it takes without waiting.
LockStep(h) ==
  \/ CreateTopic(h) \/ RemoveTopic(h)
  \/ AddSubscriber(h) \/ RemoveSubscriber(h)
  \/ PublishLock(h)
  \/ ConsumeLock(h) \/ ConsumePanics(h)

OwnStep(h) ==
  \/ PublishPush(h) \/ PublishUnlock(h) \/ PublishAck(h)
  \/ ConsumeSend(h) \/ ConsumeSendError(h) \/ ConsumeUnlock(h)

ClientStep(h) ==
  \/ Call(h) \/ ClientRead(h) \/ ClientBreak(h)
  \/ PublishRecv(h) \/ PublishEnd(h)

Next == \E h \in Handlers : LockStep(h) \/ OwnStep(h) \/ ClientStep(h)

Spec == Init /\ [][Next]_vars

\* A runnable goroutine runs.  sync.Mutex hands the lock to a goroutine that
\* waited for a millisecond, so none starves.  A client that is connected
\* reads its responses (it may disconnect at any time).
Fairness ==
  \A h \in Handlers :
    /\ WF_vars(OwnStep(h))
    /\ SF_vars(LockStep(h))
    /\ WF_vars(ClientRead(h))

FairSpec == Spec /\ Fairness
-----------------------------------------------------------------------------
(* Properties *)

TypeOK ==
  /\ brokersLock \in Handlers \cup {NoOne}
  /\ topics \subseteq Topics
  /\ subs \in [Topics -> SUBSET SubIds]
  /\ mailbox \in [SubIds -> Seq(Nat)]
  /\ issued \subseteq SubIds
  /\ pc \in [Handlers -> {"idle", "lock", "push", "ack", "recv", "drain",
                        "dead"}]
  /\ req \in [Handlers -> Requests \cup {NoRequest}]
  /\ todo \in [Handlers -> SUBSET SubIds]
  /\ left \in [Handlers -> Nat]
  /\ unread \in [Handlers -> Nat]
  /\ broken \subseteq Handlers
  /\ published \in Nat
  /\ log \in [Topics -> Seq(Nat)]
  /\ sent \in [SubIds -> Seq(Nat)]
  /\ lost \in Nat

\* Between Lock and Unlock of a streaming handler.
InSection(h) == pc[h] \in {"push", "drain"}

\* At most one handler is in its section, the one that locked the mutex.
MutualExclusion == \A h \in Handlers : InSection(h) => brokersLock = h

\* A handler serves the kind of request its place in the code belongs to.
RequestsMatch ==
  \A h \in Handlers :
    /\ pc[h] \in {"lock", "push", "ack", "recv", "drain"} => req[h] \in Requests
    /\ pc[h] \in {"push", "ack", "recv"} => req[h].op = "Publish"
    /\ pc[h] = "drain" => req[h].op = "Consume"

\* The process died.
Panicked == \E h \in Handlers : pc[h] = "dead"

\* The lock is held and nobody is left who would release it.
LockLeaked == \E h \in Handlers : brokersLock = h /\ ~InSection(h)

\* A value published to t is still on its way to the mailbox of s.
Owed(t, s) ==
  \E h \in Handlers : pc[h] = "push" /\ req[h].topic = t /\ s \in todo[h]

\* How far into its topic's log the mailbox of s begins.
Cursor(t, s) ==
  Len(log[t]) - Len(mailbox[s]) - (IF Owed(t, s) THEN 1 ELSE 0)

\* quashserver.go:153 and :175-178.  The loops of Publish and Consume rely on
\* a map that does not move under them: every mailbox Publish still has to
\* push to exists (else Push dereferences nil), and Consume's counter is
\* exactly what is in its mailbox (else Pop does).
LoopsAreSafe ==
  \A h \in Handlers :
    /\ pc[h] = "push" => todo[h] \subseteq subs[req[h].topic]
    /\ pc[h] = "drain" => /\ req[h].sub \in subs[req[h].topic]
                          /\ left[h] = Len(mailbox[req[h].sub])

\* The inductive invariant behind TypeOK and LoopsAreSafe: BrokerProofs.
SectionInv == TypeOK /\ RequestsMatch /\ MutualExclusion /\ LoopsAreSafe

\* brokers is a map of maps: a topic that is not a key has no subscribers, and
\* a subscriber id, which is never reused, is a key of one topic at most.
MapInv ==
  /\ \A t \in Topics : t \notin topics => subs[t] = {}
  /\ \A t \in Topics : subs[t] \subseteq issued
  /\ \A t, u \in Topics : t # u => subs[t] \cap subs[u] = {}

\* README.md:41, broadcast: the mailboxes of a topic's subscribers, filled
\* one push at a time and drained one by one, are ends of one and the same
\* log.  No subscriber misses a value, sees one twice or out of order.
MailboxIsBacklog ==
  \A t \in Topics : \A s \in subs[t] :
    /\ Cursor(t, s) \in Nat
    /\ \A i \in 1..Len(mailbox[s]) :
         mailbox[s][i] = log[t][Cursor(t, s) + i]

\* Over all the Consume calls for a subscriber, concurrent ones included, no
\* value is handed out twice or after a later one, and none that is still
\* queued has been handed out.
HandedOutOnceInOrder ==
  \A s \in SubIds :
    LET all == sent[s] \o mailbox[s] IN
      \A i, j \in 1..Len(all) : i < j => all[i] < all[j]

\* quashserver.go:155, :182 and :185, and the deferred Unlocks.  Every path
\* out of a critical section unlocks, but one: a Send that fails in Consume.
OnlyFailedSendLeaks ==
  [][(~LockLeaked /\ LockLeaked' /\ ~Panicked')
       => \E h \in Handlers :
            /\ req[h].op = "Consume"
            /\ h \in broken
            /\ left[h] > 0]_vars

\* README.md:126: a Consume that ends normally has drained its mailbox.
DrainsEverything ==
  [][\A h \in Handlers :
       (pc[h] = "drain" /\ pc'[h] = "idle" /\ brokersLock' = NoOne)
         => mailbox'[req[h].sub] = <<>>]_vars

\* quashserver.go:99 and :118-123.  A subscription, once handed out, goes away
\* only by a RemoveTopic or RemoveSubscriber for that topic; in particular not
\* because somebody creates the topic again.
SubscriptionsPersist ==
  [][\A t \in Topics : \A s \in subs[t] \ subs'[t] :
       \E h \in Handlers :
         /\ req[h].topic = t
         /\ \/ req[h].op = "RemoveTopic"
            \/ req[h].op = "RemoveSubscriber" /\ req[h].sub = s]_vars

\* Handler h has a request it has not answered.
Busy(h) == pc[h] \in {"lock", "push", "drain", "ack"}

\* quashserver.go:150-185.  Every request is answered, however the handlers
\* contend for the lock and however long a drain waits for its client, as long
\* as clients that stay connected read what they are sent, and unless the
\* process died or a failed Send in Consume left the lock held.
RequestsAnswered ==
  \A h \in Handlers : Busy(h) ~> (~Busy(h) \/ LockLeaked)

\* README.md:41: Consume "drains and streams back whatever is currently
\* queued for that subscriber, then closes".  This fails, in two ways: see
\* ServerSurvives and ConsumeCloses.
\* - A Consume for a subscriber that was removed finds nothing queued, and
\*   should close.
ServerSurvives == ~Panicked

\* - A Consume closes even if some other consumer went away.
ConsumeCloses ==
  \A h \in Handlers :
    (pc[h] = "lock" /\ req[h].op = "Consume") ~> pc[h] \in {"idle", "dead"}

\* The cursor PubSub gives s: in its topic's log, 0 if it has no topic.
Cursors ==
  [s \in SubIds |->
     IF \E t \in Topics : s \in subs[t]
     THEN Cursor(CHOOSE t \in Topics : s \in subs[t], s)
     ELSE 0]

\* The mailboxes implement the shared log with cursors of PubSub.
Contract == INSTANCE PubSub WITH cursor <- Cursors

ImplementsPubSub == Contract!Spec
=============================================================================
