------------------------------- MODULE TTLMap -------------------------------
(***************************************************************************)
(* What the key-value half of Quash promises: a map whose entries are      *)
(* there up to a deadline and not after it, and a read that answers what   *)
(* was in the map at some instant between the call and the return.  When   *)
(* the memory of an entry is reclaimed is of no concern here.              *)
(***************************************************************************)
EXTENDS Integers, Functions

CONSTANTS
  Keys, Values,
  TTLs,      \* the times to live clients ask for, in seconds
  Second,    \* ticks of the clock in a second
  Callers,   \* concurrent reads
  Missing    \* the answer "no such key"; "no call"

VARIABLES
  clock,     \* the time, in ticks
  cell,      \* cell[k]: the entry of k, for the keys that have one
  writes,    \* how many times clients set or deleted a key
  asking,    \* asking[c]: the key c is reading
  seen,      \* seen[c]: what was there under that key since the call
  reply      \* reply[c]: the last answer to c

vars == <<clock, cell, writes, asking, seen, reply>>

Init ==
  /\ clock = 0
  /\ cell = [k \in {} |-> Missing]
  /\ writes = 0
  /\ asking = [c \in Callers |-> Missing]
  /\ seen = [c \in Callers |-> {}]
  /\ reply = [c \in Callers |-> Missing]

\* What a read of k at this instant would answer.
Content(k) == IF k \in DOMAIN cell THEN cell[k].value ELSE Missing

Observe ==
  seen' = [c \in Callers |-> IF asking'[c] = Missing
                             THEN {}
                             ELSE seen[c] \cup {Content(asking[c])'}]

\* Time passes, and entries whose deadline passes with it disappear.
Tick ==
  /\ clock' = clock + 1
  /\ cell' = Restrict(cell, {k \in DOMAIN cell : clock' <= cell[k].until})
  /\ UNCHANGED <<writes, asking, reply>>
  /\ Observe

Set(k, v, d) ==
  /\ cell' = [j \in DOMAIN cell \cup {k} |->
                IF j = k THEN [value |-> v, until |-> clock + d * Second]
                         ELSE cell[j]]
  /\ writes' = writes + 1
  /\ UNCHANGED <<clock, asking, reply>>
  /\ Observe

Delete(k) ==
  /\ cell' = Restrict(cell, DOMAIN cell \ {k})
  /\ writes' = writes + 1
  /\ UNCHANGED <<clock, asking, reply>>
  /\ Observe

Ask(c, k) ==
  /\ asking[c] = Missing
  /\ asking' = [asking EXCEPT ![c] = k]
  /\ UNCHANGED <<clock, cell, writes, reply>>
  /\ Observe

Answer(c) ==
  /\ asking[c] # Missing
  /\ \E v \in seen[c] : reply' = [reply EXCEPT ![c] = v]
  /\ asking' = [asking EXCEPT ![c] = Missing]
  /\ UNCHANGED <<clock, cell, writes>>
  /\ Observe

Next ==
  \/ Tick
  \/ \E k \in Keys :
       \/ \E v \in Values, d \in TTLs : Set(k, v, d)
       \/ Delete(k)
       \/ \E c \in Callers : Ask(c, k)
  \/ \E c \in Callers : Answer(c)

Spec == Init /\ [][Next]_vars
=============================================================================
