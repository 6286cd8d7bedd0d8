------------------------------- MODULE PubSub -------------------------------
(***************************************************************************)
(* What the publish/subscribe half of Quash promises, without locks,       *)
(* handlers or streams.  A topic is one log; a subscriber is a cursor into *)
(* that log, placed at its end when the subscriber is added.  A value that *)
(* is handed to a subscriber is the one right after its cursor, so a       *)
(* subscriber sees what was published after it joined, in publication      *)
(* order, each value at most once.  A value that the cursor passes without *)
(* handing it over is lost, and counted.  Handed over means given to the   *)
(* connection: what a connection that breaks still had in it is not        *)
(* counted, and the subscriber does not get it either.                     *)
(*                                                                         *)
(* The server keeps no log: it pushes a copy of every value into one       *)
(* mailbox per subscriber.  Broker shows that those copies implement this. *)
(***************************************************************************)
EXTENDS Naturals, Sequences

CONSTANTS
  Topics,   \* the topic names clients use
  SubIds    \* the subscriber ids the server may hand out

VARIABLES
  topics,     \* the topics that exist
  subs,       \* subs[t]: the subscribers of topic t
  issued,     \* every subscriber id handed out so far
  log,        \* log[t]: the values published to t since it was created
  cursor,     \* cursor[s]: how much of its topic's log s is past
  sent,       \* sent[s]: the values handed to s, oldest first
  lost,       \* how many values were taken from a log and not handed over
  published   \* how many values were published; the n-th one is called n

vars == <<topics, subs, issued, log, cursor, sent, lost, published>>

Init ==
  /\ topics = {}
  /\ subs = [t \in Topics |-> {}]
  /\ issued = {}
  /\ log = [t \in Topics |-> <<>>]
  /\ cursor = [s \in SubIds |-> 0]
  /\ sent = [s \in SubIds |-> <<>>]
  /\ lost = 0
  /\ published = 0

\* A new topic starts with an empty log and nobody subscribed to it.
Create(t) ==
  /\ t \notin topics
  /\ topics' = topics \cup {t}
  /\ UNCHANGED <<subs, issued, log, cursor, sent, lost, published>>

\* Removing a topic drops its log and all of its subscribers.
Remove(t) ==
  /\ topics' = topics \ {t}
  /\ subs' = [subs EXCEPT ![t] = {}]
  /\ log' = [log EXCEPT ![t] = <<>>]
  /\ cursor' = [s \in SubIds |-> IF s \in subs[t] THEN 0 ELSE cursor[s]]
  /\ UNCHANGED <<issued, sent, lost, published>>

\* A subscriber starts at the end of the log: there is no replay.
Subscribe(t, s) ==
  /\ t \in topics
  /\ s \notin issued
  /\ issued' = issued \cup {s}
  /\ subs' = [subs EXCEPT ![t] = @ \cup {s}]
  /\ cursor' = [cursor EXCEPT ![s] = Len(log[t])]
  /\ UNCHANGED <<topics, log, sent, lost, published>>

Unsubscribe(t, s) ==
  /\ s \in subs[t]
  /\ subs' = [subs EXCEPT ![t] = @ \ {s}]
  /\ cursor' = [cursor EXCEPT ![s] = 0]
  /\ UNCHANGED <<topics, issued, log, sent, lost, published>>

\* One publication reaches all the subscribers of t at once; one to a topic
\* that does not exist reaches nobody and leaves no trace.
Publish(t) ==
  /\ published' = published + 1
  /\ log' = IF t \in topics THEN [log EXCEPT ![t] = Append(@, published')]
                            ELSE log
  /\ UNCHANGED <<topics, subs, issued, cursor, sent, lost>>

Deliver(t, s) ==
  /\ s \in subs[t]
  /\ cursor[s] < Len(log[t])
  /\ cursor' = [cursor EXCEPT ![s] = @ + 1]
  /\ sent' = [sent EXCEPT ![s] = Append(@, log[t][cursor[s] + 1])]
  /\ UNCHANGED <<topics, subs, issued, log, lost, published>>

Lose(t, s) ==
  /\ s \in subs[t]
  /\ cursor[s] < Len(log[t])
  /\ cursor' = [cursor EXCEPT ![s] = @ + 1]
  /\ lost' = lost + 1
  /\ UNCHANGED <<topics, subs, issued, log, sent, published>>

Next ==
  \E t \in Topics :
    \/ Create(t)
    \/ Remove(t)
    \/ Publish(t)
    \/ \E s \in SubIds :
         \/ Subscribe(t, s)
         \/ Unsubscribe(t, s)
         \/ Deliver(t, s)
         \/ Lose(t, s)

Spec == Init /\ [][Next]_vars
=============================================================================
