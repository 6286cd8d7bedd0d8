------------------------------- MODULE KVStore ------------------------------
(***************************************************************************)
(* The key-value store of server/quashserver/quashserver.go: the map       *)
(* kvMap, the mutex kvLock, the handlers SetKV, GetKV and DeleteKV, and    *)
(* the goroutine GarbageCollection that Init starts.                       *)
(*                                                                         *)
(* Grain.  SetKV and DeleteKV lock, change one entry and unlock: one step. *)
(* GetKV reads the clock before it waits for the lock: two steps, and      *)
(* anything may come between.  The collector holds the lock while it       *)
(* ranges over the map: it locks, looks at one key per step, and unlocks.  *)
(* How long its time.Sleep takes is left open.                             *)
(*                                                                         *)
(* Time is a count of ticks.  A time.Duration is an int64 count: here it   *)
(* has 2 * Half values, and multiplication wraps around.  Time.Add does    *)
(* not wrap (it keeps seconds and nanoseconds apart).                      *)
(***************************************************************************)
EXTENDS Integers, FiniteSets, Functions

CONSTANTS
  Keys, Values,
  TTLs,        \* the TimeOutDurations clients ask for, in seconds
  Second,      \* time.Second, in ticks
  Half,        \* a Duration is in -Half .. Half - 1
  Callers,     \* concurrent GetKV calls
  Missing,     \* "key doesn't exist", "no call"
  MaxClock,    \* bound: the last tick
  MaxWrites    \* bound: SetKV and DeleteKV calls in a behaviour

ASSUME KVAssumption ==
  /\ TTLs \subseteq Int
  /\ Second \in Nat \ {0}
  /\ Half \in Nat \ {0}
  /\ MaxClock \in Nat
  /\ MaxWrites \in Nat
  /\ Missing \notin Values
  /\ Missing \notin Keys

VARIABLES
  clock,       \* time.Now()
  kvLock,      \* "free", or "gc": the collector is in its loop
  kvMap,       \* the map; its DOMAIN is the set of keys it holds
  get,         \* get[c]: GetKV's key (Missing: no call) and the time it read
  gcNow,       \* the collector's now
  gcTodo,      \* the keys its range loop has not visited
  gcAwake,     \* whether the collector is in its loop
  writes, seen, reply   \* history: see TTLMap

NoCall == [key |-> Missing, now |-> 0]

gcVars == <<gcNow, gcTodo, gcAwake>>
vars == <<clock, kvLock, kvMap, get, gcVars, writes, seen, reply>>

Init ==
  /\ clock = 0
  /\ kvLock = "free"
  /\ kvMap = [k \in {} |-> Missing]
  /\ get = [c \in Callers |-> NoCall]
  /\ gcNow = 0
  /\ gcTodo = {}
  /\ gcAwake = FALSE
  /\ writes = 0
  /\ seen = [c \in Callers |-> {}]
  /\ reply = [c \in Callers |-> Missing]
-----------------------------------------------------------------------------
(* The map, times and entries *)

\* kvMap[k] = e, and delete(kvMap, k), which tolerates a missing key
Put(k, e) == [j \in DOMAIN kvMap \cup {k} |-> IF j = k THEN e ELSE kvMap[j]]
Without(k) == Restrict(kvMap, DOMAIN kvMap \ {k})

\* The product of a Duration and a count, in two's complement.
Wrap(n) == ((n + Half) % (2 * Half)) - Half

\* val.InitTime.Add(val.TimeOut)
Deadline(e) == e.initTime + e.timeOut

\* Faulty variant: not Before, instead of After.
Expired_NotBefore(e, now) == now >= Deadline(e)

\* now.After(val.InitTime.Add(val.TimeOut))
Expired(e, now) == now > Deadline(e)

\* History: what a client is entitled to read under k at this instant.
Content(k) ==
  IF k \in DOMAIN kvMap /\ clock <= kvMap[k].until
  THEN kvMap[k].value
  ELSE Missing

Observe ==
  seen' = [c \in Callers |-> IF get'[c] = NoCall
                             THEN {}
                             ELSE seen[c] \cup {Content(get[c].key)'}]

Tick ==
  /\ clock < MaxClock
  /\ clock' = clock + 1
  /\ UNCHANGED <<kvLock, kvMap, get, gcVars, writes, reply>>
  /\ Observe
-----------------------------------------------------------------------------
(* The handlers *)

\* The entry SetKV makes now; until is history, what the client asked for.
Entry(v, d) ==
  [value |-> v, initTime |-> clock, timeOut |-> Wrap(d * Second),
   until |-> clock + d * Second]

\* Faulty variant: the map is written without the lock.
SetKV_NoLock(k, v, d) ==
  /\ writes < MaxWrites
  /\ kvMap' = Put(k, Entry(v, d))
  /\ writes' = writes + 1
  /\ UNCHANGED <<clock, kvLock, get, gcVars, reply>>
  /\ Observe

SetKV(k, v, d) ==
  /\ writes < MaxWrites
  /\ kvLock = "free"
  /\ kvMap' = Put(k, Entry(v, d))
  /\ writes' = writes + 1
  /\ UNCHANGED <<clock, kvLock, get, gcVars, reply>>
  /\ Observe

DeleteKV(k) ==
  /\ writes < MaxWrites
  /\ kvLock = "free"
  /\ kvMap' = Without(k)
  /\ writes' = writes + 1
  /\ UNCHANGED <<clock, kvLock, get, gcVars, reply>>
  /\ Observe

\* GetKV up to its Lock: now := time.Now()
GetKVCall(c, k) ==
  /\ get[c] = NoCall
  /\ get' = [get EXCEPT ![c] = [key |-> k, now |-> clock]]
  /\ UNCHANGED <<clock, kvLock, kvMap, gcVars, writes, reply>>
  /\ Observe

\* Whether call c, were it to get the lock now, would find its key expired.
FindsExpired(c) ==
  /\ get[c].key \in DOMAIN kvMap
  /\ Expired(kvMap[get[c].key], get[c].now)

\* What call c, were it to get the lock now, would answer.
Reply(c) ==
  IF get[c].key \notin DOMAIN kvMap \/ FindsExpired(c)
  THEN Missing
  ELSE kvMap[get[c].key].value

\* Faulty variant: the Unlock is not deferred, and the error paths skip it.
GetKV_ErrorKeepsLock(c) ==
  /\ get[c] # NoCall
  /\ kvLock = "free"
  /\ reply' = [reply EXCEPT ![c] = Reply(c)]
  /\ kvMap' = IF FindsExpired(c) THEN Without(get[c].key) ELSE kvMap
  /\ kvLock' = IF Reply(c) = Missing THEN "gc" ELSE "free"
  /\ get' = [get EXCEPT ![c] = NoCall]
  /\ UNCHANGED <<clock, gcVars, writes>>
  /\ Observe

\* The rest of GetKV, which removes the entry it finds expired.
GetKV(c) ==
  /\ get[c] # NoCall
  /\ kvLock = "free"
  /\ reply' = [reply EXCEPT ![c] = Reply(c)]
  /\ kvMap' = IF FindsExpired(c) THEN Without(get[c].key) ELSE kvMap
  /\ get' = [get EXCEPT ![c] = NoCall]
  /\ UNCHANGED <<clock, kvLock, gcVars, writes>>
  /\ Observe
-----------------------------------------------------------------------------
(* GarbageCollection *)

\* The end of a Sleep, the Lock, now := time.Now() and the start of the range.
GCLock ==
  /\ ~gcAwake
  /\ kvLock = "free"
  /\ kvLock' = "gc"
  /\ gcAwake' = TRUE
  /\ gcNow' = clock
  /\ gcTodo' = DOMAIN kvMap
  /\ UNCHANGED <<clock, kvMap, get, writes, reply>>
  /\ Observe

\* Faulty variant: whatever is in the map is removed.
GCScan_All(k) ==
  /\ gcAwake
  /\ k \in gcTodo
  /\ kvMap' = Without(k)
  /\ gcTodo' = gcTodo \ {k}
  /\ UNCHANGED <<clock, kvLock, get, gcNow, gcAwake, writes, reply>>
  /\ Observe

\* One turn of the loop; Go ranges over a map in any order.
GCScan(k) ==
  /\ gcAwake
  /\ k \in gcTodo
  /\ kvMap' = IF Expired(kvMap[k], gcNow)
              THEN Without(k)
              ELSE kvMap
  /\ gcTodo' = gcTodo \ {k}
  /\ UNCHANGED <<clock, kvLock, get, gcNow, gcAwake, writes, reply>>
  /\ Observe

\* Faulty variant: the loop ends at the first entry that has not expired.
GCUnlock_AtFirstLive ==
  /\ gcAwake
  /\ \/ gcTodo = {}
     \/ \E k \in gcTodo : ~Expired(kvMap[k], gcNow)
  /\ gcAwake' = FALSE
  /\ kvLock' = "free"
  /\ gcTodo' = {}
  /\ UNCHANGED <<clock, kvMap, get, gcNow, writes, reply>>
  /\ Observe

\* Faulty variant: back to sleep with the lock held.
GCUnlock_Forgotten ==
  /\ gcAwake
  /\ gcTodo = {}
  /\ gcAwake' = FALSE
  /\ UNCHANGED <<clock, kvLock, kvMap, get, gcNow, gcTodo, writes, reply>>
  /\ Observe

\* The Unlock, and back to Sleep.
GCUnlock ==
  /\ gcAwake
  /\ gcTodo = {}
  /\ gcAwake' = FALSE
  /\ kvLock' = "free"
  /\ UNCHANGED <<clock, kvMap, get, gcNow, gcTodo, writes, reply>>
  /\ Observe
-----------------------------------------------------------------------------

GCStep == GCLock \/ (\E k \in Keys : GCScan(k)) \/ GCUnlock

Next ==
  \/ Tick
  \/ \E k \in Keys :
       \/ \E v \in Values, d \in TTLs : SetKV(k, v, d)
       \/ DeleteKV(k)
       \/ \E c \in Callers : GetKVCall(c, k)
  \/ \E c \in Callers : GetKV(c)
  \/ GCStep

Spec == Init /\ [][Next]_vars

\* A runnable goroutine runs.  sync.Mutex hands the lock to a goroutine that
\* waited for a millisecond, so none starves.
Fairness == WF_vars(GCStep) /\ \A c \in Callers : SF_vars(GetKV(c))

FairSpec == Spec /\ Fairness
-----------------------------------------------------------------------------
(* Properties *)

Entries == [value : Values, initTime : Nat, timeOut : Int, until : Int]
Calls == [key : Keys, now : Nat]

\* The last conjunct ties the mutex to the collector, the one that holds it
\* between steps.
TypeOK ==
  /\ clock \in Nat
  /\ kvLock \in {"free", "gc"}
  /\ DOMAIN kvMap \subseteq Keys
  /\ kvMap \in [DOMAIN kvMap -> Entries]
  /\ get \in [Callers -> Calls \cup {NoCall}]
  /\ gcNow \in Nat
  /\ gcTodo \subseteq Keys
  /\ gcAwake \in BOOLEAN
  /\ writes \in Nat
  /\ seen \in [Callers -> SUBSET (Values \cup {Missing})]
  /\ reply \in [Callers -> Values \cup {Missing}]
  /\ gcAwake <=> kvLock = "gc"

\* A TTL that is not negative and, in nanoseconds, fits a Duration.
TTLsFit == \A d \in TTLs : d * Second \in 0..(Half - 1)

\* quashserver.go:75-86.  Although GetKV compares with a time it read before
\* it waited for the lock, and other calls and the collector may change the
\* entry meanwhile, its answer is right for some instant of the call.
GetIsLinearizable ==
  \A c \in Callers :
    get[c] # NoCall /\ kvLock = "free" => Reply(c) \in seen[c]

\* What the collector and the pending reads know about the map, if TTLs fit.
\* A read has seen every value it may still answer, and past the deadline of
\* an entry it has seen the key missing.
ReadInv ==
  /\ TypeOK
  /\ gcNow <= clock
  /\ gcTodo \subseteq DOMAIN kvMap
  /\ gcAwake \/ gcTodo = {}
  /\ \A k \in DOMAIN kvMap : kvMap[k].until = Deadline(kvMap[k])
  /\ \A c \in Callers : get[c] = NoCall => seen[c] = {}
  /\ \A c \in Callers : get[c] # NoCall =>
       /\ get[c].now <= clock
       /\ Content(get[c].key) \in seen[c]
       /\ get[c].key \in DOMAIN kvMap =>
            LET e == kvMap[get[c].key] IN
              get[c].now <= e.until => e.value \in seen[c]

\* structs.go:21-23 tells of a "concurrent map iteration and map write" that
\* used to kill the server.  Nobody writes kvMap in the collector's loop
\* but the collector.
NoWriteDuringRange ==
  [][gcAwake /\ gcTodo' = gcTodo => kvMap' = kvMap]_vars

HoldsExpired(k) == k \in DOMAIN kvMap /\ Expired(kvMap[k], clock)

\* quashserver.go:198-202.  What expired is reclaimed, read or not.
ExpiredIsReclaimed ==
  \A k \in Keys :
    HoldsExpired(k) ~> ~HoldsExpired(k)

\* Every GetKV returns, on each of its paths and whatever the others do.
GetKVReturns == \A c \in Callers : get[c] # NoCall ~> get[c] = NoCall

\* README.md:118: the TTL is "in seconds".  An entry is readable for as long
\* as the client asked.
ReadableForItsTTL ==
  \A k \in DOMAIN kvMap :
    clock <= kvMap[k].until => ~Expired(kvMap[k], clock)

\* The entries a client is entitled to read, and the keys being read.
Cell ==
  [k \in {j \in DOMAIN kvMap : clock <= kvMap[j].until} |->
     [value |-> kvMap[k].value, until |-> kvMap[k].until]]

Asking == [c \in Callers |-> get[c].key]

Promise == INSTANCE TTLMap WITH cell <- Cell, asking <- Asking

\* README.md:117-119: the map with its lock, its collector and its lazy
\* removals is a map with deadlines; nothing disappears early, nothing is
\* read late.
ImplementsTTLMap == Promise!Spec
=============================================================================
