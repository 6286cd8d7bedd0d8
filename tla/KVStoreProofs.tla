---------------------------- MODULE KVStoreProofs ---------------------------
(***************************************************************************)
(* Proofs about KVStore for any keys, values, callers, time unit and       *)
(* width of a Duration.  TypeOK is inductive.  What GetKV answers and the  *)
(* refinement of TTLMap need TTLsFit (a TTL that overflows breaks them,    *)
(* see ReadableForItsTTL), and rest on ReadInv.                            *)
(***************************************************************************)
EXTENDS KVStore, TLAPS

LEMMA WrapType == ASSUME NEW n \in Int PROVE Wrap(n) \in Int
BY KVAssumption DEF Wrap

LEMMA SmallModulo ==
  ASSUME NEW a \in Nat, NEW m \in Nat \ {0}, a < m
  PROVE  a % m = a
OBVIOUS

LEMMA WrapIdentity ==
  ASSUME NEW n \in 0..(Half - 1)
  PROVE  Wrap(n) = n
<1>1. n + Half \in Nat /\ 2 * Half \in Nat \ {0} /\ n + Half < 2 * Half
  BY KVAssumption
<1>2. (n + Half) % (2 * Half) = n + Half
  BY <1>1, SmallModulo
<1> QED
  BY <1>2, KVAssumption DEF Wrap

LEMMA EntryType ==
  ASSUME TypeOK, NEW v \in Values, NEW d \in TTLs
  PROVE  Entry(v, d) \in Entries
<1>1. d * Second \in Int
  BY KVAssumption
<1> QED
  BY <1>1, WrapType DEF Entry, Entries, TypeOK

\* Put and Without give maps of the same type again.
LEMMA PutType ==
  ASSUME TypeOK, NEW k \in Keys, NEW e \in Entries
  PROVE  /\ DOMAIN Put(k, e) = DOMAIN kvMap \cup {k}
         /\ DOMAIN Put(k, e) \subseteq Keys
         /\ Put(k, e) \in [DOMAIN Put(k, e) -> Entries]
BY DEF TypeOK, Put

LEMMA WithoutType ==
  ASSUME TypeOK, NEW k \in Keys
  PROVE  /\ DOMAIN Without(k) = DOMAIN kvMap \ {k}
         /\ DOMAIN Without(k) \subseteq Keys
         /\ Without(k) \in [DOMAIN Without(k) -> Entries]
BY DEF TypeOK, Without, Restrict

LEMMA NoCallFacts ==
  ASSUME TypeOK, NEW c \in Callers
  PROVE  /\ get[c] # NoCall => get[c] \in Calls /\ get[c].key \in Keys
         /\ get[c] = NoCall <=> get[c].key = Missing
BY KVAssumption DEF TypeOK, Calls, NoCall

LEMMA ContentType ==
  ASSUME TypeOK, NEW k PROVE Content(k) \in Values \cup {Missing}
BY DEF TypeOK, Content, Entries

\* Observe keeps the type of seen.
LEMMA ObserveType ==
  ASSUME TypeOK, Observe, kvMap' \in [DOMAIN kvMap' -> Entries]
  PROVE  seen' \in [Callers -> SUBSET (Values \cup {Missing})]
<1>1. \A c \in Callers : Content(get[c].key)' \in Values \cup {Missing}
  BY DEF Content, Entries
<1> QED
  BY <1>1 DEF Observe, TypeOK
-----------------------------------------------------------------------------
(* Type correctness *)

THEOREM InitType == Init => TypeOK
<1> SUFFICES ASSUME Init
             PROVE  TypeOK
  OBVIOUS
<1>1. DOMAIN kvMap = {}
  BY DEF Init
<1>2. kvMap \in [DOMAIN kvMap -> Entries]
  BY <1>1 DEF Init
<1>3. /\ get \in [Callers -> Calls \cup {NoCall}]
      /\ seen \in [Callers -> SUBSET (Values \cup {Missing})]
      /\ reply \in [Callers -> Values \cup {Missing}]
  BY DEF Init
<1> QED
  BY <1>1, <1>2, <1>3 DEF Init, TypeOK

LEMMA NextType == TypeOK /\ [Next]_vars => TypeOK'
<1> SUFFICES ASSUME TypeOK, [Next]_vars
             PROVE  TypeOK'
  OBVIOUS
<1>1. CASE UNCHANGED vars
  BY <1>1 DEF vars, gcVars, TypeOK
<1>2. CASE Tick
  BY <1>2, ObserveType DEF Tick, gcVars, TypeOK
<1>3. ASSUME NEW k \in Keys, NEW v \in Values, NEW d \in TTLs, SetKV(k, v, d)
      PROVE  TypeOK'
  <2>1. DOMAIN kvMap' \subseteq Keys /\ kvMap' \in [DOMAIN kvMap' -> Entries]
    BY <1>3, EntryType, PutType DEF SetKV
  <2> QED
    BY <1>3, <2>1, ObserveType DEF SetKV, gcVars, TypeOK
<1>4. ASSUME NEW k \in Keys, DeleteKV(k)
      PROVE  TypeOK'
  <2>1. DOMAIN kvMap' \subseteq Keys /\ kvMap' \in [DOMAIN kvMap' -> Entries]
    BY <1>4, WithoutType DEF DeleteKV
  <2> QED
    BY <1>4, <2>1, ObserveType DEF DeleteKV, gcVars, TypeOK
<1>5. ASSUME NEW k \in Keys, NEW c \in Callers, GetKVCall(c, k)
      PROVE  TypeOK'
  <2>1. get' \in [Callers -> Calls \cup {NoCall}]
    BY <1>5 DEF GetKVCall, TypeOK, Calls
  <2> QED
    BY <1>5, <2>1, ObserveType DEF GetKVCall, gcVars, TypeOK
<1>6. ASSUME NEW c \in Callers, GetKV(c)
      PROVE  TypeOK'
  <2>1. get[c].key \in Keys
    BY <1>6, NoCallFacts DEF GetKV
  <2>2. DOMAIN kvMap' \subseteq Keys /\ kvMap' \in [DOMAIN kvMap' -> Entries]
    BY <1>6, <2>1, WithoutType DEF GetKV, TypeOK
  <2>3. Reply(c) \in Values \cup {Missing}
    BY <2>1 DEF Reply, TypeOK, Entries
  <2>4. get' \in [Callers -> Calls \cup {NoCall}]
    BY <1>6 DEF GetKV, TypeOK
  <2> QED
    BY <1>6, <2>2, <2>3, <2>4, ObserveType DEF GetKV, gcVars, TypeOK
<1>7. CASE GCLock
  BY <1>7, ObserveType DEF GCLock, gcVars, TypeOK
<1>8. ASSUME NEW k \in Keys, GCScan(k)
      PROVE  TypeOK'
  <2>1. DOMAIN kvMap' \subseteq Keys /\ kvMap' \in [DOMAIN kvMap' -> Entries]
    BY <1>8, WithoutType DEF GCScan, TypeOK
  <2> QED
    BY <1>8, <2>1, ObserveType DEF GCScan, TypeOK
<1>9. CASE GCUnlock
  BY <1>9, ObserveType DEF GCUnlock, TypeOK
<1> QED
  BY <1>1, <1>2, <1>3, <1>4, <1>5, <1>6, <1>7, <1>8, <1>9 DEF Next, GCStep

\* Every variable keeps its type, for any TTLs, and the mutex is held between
\* steps exactly while the collector is in its loop.
THEOREM TypeCorrect == Spec => []TypeOK
BY InitType, NextType, PTL DEF Spec
-----------------------------------------------------------------------------
(* What a read answers *)

LEMMA InitRead == Init => ReadInv
<1> SUFFICES ASSUME Init
             PROVE  ReadInv
  OBVIOUS
<1>1. TypeOK
  BY InitType
<1>2. DOMAIN kvMap = {}
  BY DEF Init
<1> QED
  BY <1>1, <1>2 DEF Init, ReadInv

LEMMA ObserveFacts ==
  ASSUME Observe, NEW c \in Callers
  PROVE  /\ get'[c] = NoCall => seen'[c] = {}
         /\ get'[c] # NoCall => seen'[c] = seen[c] \cup {Content(get[c].key)'}
BY DEF Observe

\* A step preserves ReadInv if every entry was there before or is fresh, and
\* every pending read was pending before or starts now.
LEMMA StepRead ==
  ASSUME ReadInv, TypeOK', Observe,
         clock' \in {clock, clock + 1},
         gcNow' \in {gcNow, clock},
         gcTodo' \subseteq DOMAIN kvMap',
         gcAwake' \/ gcTodo' = {},
         \A k \in DOMAIN kvMap' :
           \/ k \in DOMAIN kvMap /\ kvMap'[k] = kvMap[k]
           \/ /\ kvMap'[k].until = Deadline(kvMap'[k])
              /\ clock' <= kvMap'[k].until,
         \A c \in Callers :
           \/ get'[c] = NoCall
           \/ get'[c] = get[c]
           \/ get'[c].now = clock /\ clock' = clock
  PROVE  ReadInv'
<1>1. clock' \in Nat /\ clock \in Nat /\ gcNow \in Nat /\ clock <= clock'
  BY DEF ReadInv, TypeOK
<1>2. gcNow' <= clock'
  BY <1>1 DEF ReadInv
<1>3. \A k \in DOMAIN kvMap' : kvMap'[k].until = Deadline(kvMap'[k])
  BY DEF ReadInv
<1>4. ASSUME NEW c \in Callers, get'[c] # NoCall
      PROVE  /\ get'[c].now <= clock'
             /\ Content(get[c].key)' \in seen'[c]
             /\ get'[c].key \in DOMAIN kvMap' =>
                  (get'[c].now <= kvMap'[get'[c].key].until
                     => kvMap'[get'[c].key].value \in seen'[c])
  <2>1. seen'[c] = seen[c] \cup {Content(get[c].key)'}
    BY <1>4, ObserveFacts
  <2>2. get'[c] \in Calls
    BY <1>4 DEF TypeOK
  <2>3. get'[c].now <= clock'
    BY <1>1, <1>4, <2>2 DEF ReadInv, Calls
  <2>4. ASSUME get'[c].key \in DOMAIN kvMap',
               get'[c].now <= kvMap'[get'[c].key].until
        PROVE  kvMap'[get'[c].key].value \in seen'[c]
    <3> DEFINE k == get'[c].key
    <3>1. CASE clock' <= kvMap'[k].until
      <4>1. Content(get[c].key)' = kvMap'[k].value
        BY <2>4, <3>1 DEF Content
      <4> QED
        BY <2>1, <4>1
    <3>2. CASE ~(clock' <= kvMap'[k].until)
      <4>1. k \in DOMAIN kvMap /\ kvMap'[k] = kvMap[k]
        BY <2>4, <3>2
      <4>2. kvMap'[k].until \in Int
        BY <2>4 DEF TypeOK, Entries
      <4>3. get'[c] = get[c]
        BY <1>1, <1>4, <2>2, <2>4, <3>2, <4>2 DEF Calls
      <4>4. kvMap[k].value \in seen[c]
        BY <1>4, <2>4, <4>1, <4>3 DEF ReadInv
      <4> QED
        BY <2>1, <4>1, <4>4
    <3> QED
      BY <3>1, <3>2
  <2> QED
    BY <2>1, <2>3, <2>4
<1>5. \A c \in Callers : get'[c] = NoCall => seen'[c] = {}
  BY ObserveFacts
<1> QED
  BY <1>2, <1>3, <1>4, <1>5 DEF ReadInv

LEMMA FreshEntry ==
  ASSUME TTLsFit, TypeOK, NEW v \in Values, NEW d \in TTLs
  PROVE  LET e == Entry(v, d) IN
           e.until = Deadline(e) /\ clock <= e.until
<1>1. d * Second \in 0..(Half - 1)
  BY DEF TTLsFit
<1>2. Wrap(d * Second) = d * Second
  BY <1>1, WrapIdentity
<1>3. d * Second \in Nat
  BY <1>1, KVAssumption
<1> QED
  BY <1>2, <1>3 DEF Entry, Deadline, TypeOK

LEMMA NextRead == TTLsFit /\ ReadInv /\ [Next]_vars => ReadInv'
<1> SUFFICES ASSUME TTLsFit, ReadInv, [Next]_vars
             PROVE  ReadInv'
  OBVIOUS
<1>1. TypeOK /\ TypeOK'
  BY NextType DEF ReadInv
<1>2. CASE UNCHANGED vars
  BY <1>2 DEF vars, gcVars, ReadInv, TypeOK, Content
<1>3. CASE Tick
  BY <1>1, <1>3, StepRead DEF Tick, gcVars, ReadInv
<1>4. ASSUME NEW k \in Keys, NEW v \in Values, NEW d \in TTLs, SetKV(k, v, d)
      PROVE  ReadInv'
  <2>1. kvMap' = Put(k, Entry(v, d)) /\ UNCHANGED <<clock, get, gcVars>>
    BY <1>4 DEF SetKV
  <2>2. DOMAIN kvMap' = DOMAIN kvMap \cup {k}
    BY <2>1 DEF Put
  <2>3. \A j \in DOMAIN kvMap' :
          kvMap'[j] = IF j = k THEN Entry(v, d) ELSE kvMap[j]
    BY <2>1 DEF Put
  <2>4. \A j \in DOMAIN kvMap' :
          \/ j \in DOMAIN kvMap /\ kvMap'[j] = kvMap[j]
          \/ /\ kvMap'[j].until = Deadline(kvMap'[j])
             /\ clock' <= kvMap'[j].until
    BY <1>1, <2>1, <2>2, <2>3, FreshEntry
  <2> QED
    BY <1>1, <1>4, <2>1, <2>2, <2>4, StepRead DEF SetKV, gcVars, ReadInv
<1>5. ASSUME NEW k \in Keys, DeleteKV(k)
      PROVE  ReadInv'
  <2>1. gcTodo = {}
    BY <1>1, <1>5 DEF DeleteKV, ReadInv, TypeOK
  <2>2. /\ DOMAIN kvMap' = DOMAIN kvMap \ {k}
        /\ \A j \in DOMAIN kvMap' : kvMap'[j] = kvMap[j]
    BY <1>5 DEF DeleteKV, Without, Restrict
  <2> QED
    BY <1>1, <1>5, <2>1, <2>2, StepRead DEF DeleteKV, gcVars, ReadInv
<1>6. ASSUME NEW k \in Keys, NEW c \in Callers, GetKVCall(c, k)
      PROVE  ReadInv'
  <2>1. \A b \in Callers : get'[b] = get[b] \/ get'[b].now = clock
    BY <1>1, <1>6 DEF GetKVCall, TypeOK
  <2> QED
    BY <1>1, <1>6, <2>1, StepRead DEF GetKVCall, gcVars, ReadInv
<1>7. ASSUME NEW c \in Callers, GetKV(c)
      PROVE  ReadInv'
  <2>1. gcTodo = {}
    BY <1>1, <1>7 DEF GetKV, ReadInv, TypeOK
  <2>2. /\ DOMAIN kvMap' \subseteq DOMAIN kvMap
        /\ \A j \in DOMAIN kvMap' : kvMap'[j] = kvMap[j]
    BY <1>7 DEF GetKV, Without, Restrict
  <2>3. \A b \in Callers : get'[b] = get[b] \/ get'[b] = NoCall
    BY <1>1, <1>7 DEF GetKV, TypeOK
  <2> QED
    BY <1>1, <1>7, <2>1, <2>2, <2>3, StepRead DEF GetKV, gcVars, ReadInv
<1>8. CASE GCLock
  BY <1>1, <1>8, StepRead DEF GCLock, ReadInv
<1>9. ASSUME NEW k \in Keys, GCScan(k)
      PROVE  ReadInv'
  <2>1. /\ DOMAIN kvMap \ {k} \subseteq DOMAIN kvMap'
        /\ DOMAIN kvMap' \subseteq DOMAIN kvMap
        /\ \A j \in DOMAIN kvMap' : kvMap'[j] = kvMap[j]
    BY <1>9 DEF GCScan, Without, Restrict
  <2>2. gcTodo' \subseteq DOMAIN kvMap'
    BY <1>9, <2>1 DEF GCScan, ReadInv
  <2> QED
    BY <1>1, <1>9, <2>1, <2>2, StepRead DEF GCScan, ReadInv
<1>10. CASE GCUnlock
  BY <1>1, <1>10, StepRead DEF GCUnlock, ReadInv
<1> QED
  BY <1>2, <1>3, <1>4, <1>5, <1>6, <1>7, <1>8, <1>9, <1>10 DEF Next, GCStep

LEMMA ReadInvariance == ASSUME TTLsFit PROVE Spec => []ReadInv
BY InitRead, NextRead, PTL DEF Spec

\* Every answer GetKV may give is in seen.
LEMMA ReadAnswers ==
  ASSUME ReadInv, NEW c \in Callers, get[c] # NoCall
  PROVE  Reply(c) \in seen[c]
<1> DEFINE k == get[c].key
           e == kvMap[k]
<1>1. /\ get[c].now \in Nat /\ clock \in Nat /\ get[c].now <= clock
      /\ Content(k) \in seen[c]
  BY NoCallFacts DEF ReadInv, TypeOK, Calls
<1>2. CASE k \notin DOMAIN kvMap
  BY <1>1, <1>2 DEF Reply, Content
<1>3. CASE k \in DOMAIN kvMap
  <2>1. e.until = Deadline(e) /\ e.until \in Int
    BY <1>3 DEF ReadInv, TypeOK, Entries
  <2>2. CASE get[c].now <= e.until
    <3>1. e.value \in seen[c]
      BY <1>3, <2>2 DEF ReadInv
    <3>2. Reply(c) = e.value
      BY <1>1, <1>3, <2>1, <2>2 DEF Reply, FindsExpired, Expired
    <3> QED
      BY <3>1, <3>2
  <2>3. CASE ~(get[c].now <= e.until)
    <3>1. Content(k) = Missing
      BY <1>1, <1>3, <2>1, <2>3 DEF Content
    <3>2. Reply(c) = Missing
      BY <1>1, <1>3, <2>1, <2>3 DEF Reply, FindsExpired, Expired
    <3> QED
      BY <1>1, <3>1, <3>2
  <2> QED
    BY <2>2, <2>3
<1> QED
  BY <1>2, <1>3

\* quashserver.go:75-86.  Every answer of GetKV is what a client was entitled
\* to read at some instant of the call, whatever came between its look at the
\* clock and its turn at the lock.
THEOREM ReadsAreLinearizable ==
  ASSUME TTLsFit
  PROVE  Spec => []GetIsLinearizable
<1>1. ReadInv => GetIsLinearizable
  BY ReadAnswers DEF GetIsLinearizable
<1> QED
  BY <1>1, ReadInvariance, PTL
-----------------------------------------------------------------------------
(* The refinement of TTLMap *)

LEMMA InitRefines == Init => Promise!Init
<1> SUFFICES ASSUME Init
             PROVE  Promise!Init
  OBVIOUS
<1>1. DOMAIN kvMap = {}
  BY DEF Init
<1>2. Cell = [k \in {} |-> Missing]
  BY <1>1 DEF Cell
<1>3. Asking = [c \in Callers |-> Missing]
  BY DEF Init, Asking, NoCall
<1> QED
  BY <1>2, <1>3 DEF Init, Promise!Init

LEMMA CellFacts ==
  /\ DOMAIN Cell = {j \in DOMAIN kvMap : clock <= kvMap[j].until}
  /\ \A k \in DOMAIN Cell :
       Cell[k] = [value |-> kvMap[k].value, until |-> kvMap[k].until]
BY DEF Cell

LEMMA ObserveRefines ==
  ASSUME TypeOK', Observe
  PROVE  Promise!Observe
<1>1. ASSUME NEW c \in Callers
      PROVE  /\ Asking'[c] = Missing <=> get'[c] = NoCall
             /\ Promise!Content(Asking[c])' = Content(get[c].key)'
  <2>1. Asking'[c] = get'[c].key
    BY DEF Asking
  <2>2. get'[c] = NoCall <=> get'[c].key = Missing
    BY KVAssumption DEF TypeOK, Calls, NoCall
  <2>3. Promise!Content(Asking[c])' = Content(get[c].key)'
    BY <2>1 DEF Promise!Content, Content, Cell
  <2> QED
    BY <2>1, <2>2, <2>3
<1> QED
  BY <1>1 DEF Observe, Promise!Observe

\* A step that keeps the visible entries and the pending reads is a stutter.
LEMMA StutterRefines ==
  ASSUME ReadInv, TypeOK', Observe,
         UNCHANGED <<clock, writes, get, reply>>, Cell' = Cell
  PROVE  UNCHANGED Promise!vars
<1>1. Asking' = Asking
  BY DEF Asking
<1>2. ASSUME NEW c \in Callers
      PROVE  seen'[c] = seen[c]
  <2>1. Content(get[c].key)' = Content(get[c].key)
    <3>1. get'[c].key = get[c].key
      OBVIOUS
    <3> QED
      BY <3>1, CellFacts DEF Content, Cell
  <2>2. CASE get[c] = NoCall
    BY <2>2, ObserveFacts DEF ReadInv
  <2>3. CASE get[c] # NoCall
    <3>1. Content(get[c].key) \in seen[c]
      BY <2>3 DEF ReadInv
    <3>2. seen'[c] = seen[c] \cup {Content(get[c].key)'}
      BY <2>3, ObserveFacts
    <3> QED
      BY <2>1, <3>1, <3>2
  <2> QED
    BY <2>2, <2>3
<1>3. seen' = seen
  BY <1>2 DEF Observe, ReadInv, TypeOK
<1> QED
  BY <1>1, <1>3 DEF Promise!vars

LEMMA TickRefines ==
  ASSUME ReadInv, TypeOK', Tick
  PROVE  Promise!Tick
<1> DEFINE Later == {k \in DOMAIN Cell : clock' <= Cell[k].until}
<1>1. /\ kvMap' = kvMap /\ get' = get /\ clock' = clock + 1 /\ clock \in Nat
      /\ \A k \in DOMAIN kvMap : kvMap[k].until \in Int
  BY DEF Tick, ReadInv, TypeOK, Entries
<1>2. DOMAIN Cell' = Later
  BY <1>1, CellFacts DEF Cell
<1>3. \A k \in Later : Cell'[k] = Cell[k]
  BY <1>1 DEF Cell
<1>4. Cell' = [k \in Later |-> Cell[k]]
  BY <1>2, <1>3 DEF Cell
<1>5. Asking' = Asking
  BY <1>1 DEF Asking
<1> QED
  BY <1>4, <1>5, ObserveRefines DEF Tick, Promise!Tick, Promise!Restrict

LEMMA SetRefines ==
  ASSUME TTLsFit, ReadInv, TypeOK',
         NEW k \in Keys, NEW v \in Values, NEW d \in TTLs, SetKV(k, v, d)
  PROVE  Promise!Set(k, v, d)
<1> DEFINE D == DOMAIN Cell \cup {k}
           New(j) == IF j = k THEN [value |-> v, until |-> clock + d * Second]
                              ELSE Cell[j]
<1>1. /\ kvMap' = Put(k, Entry(v, d))
      /\ UNCHANGED <<clock, get>>
  BY DEF SetKV
<1>2. clock <= clock + d * Second
  BY FreshEntry DEF ReadInv, Entry
<1>3. /\ DOMAIN kvMap' = DOMAIN kvMap \cup {k}
      /\ \A j \in DOMAIN kvMap' :
           kvMap'[j] = IF j = k THEN Entry(v, d) ELSE kvMap[j]
  BY <1>1 DEF Put
<1>4. Entry(v, d).until = clock + d * Second /\ Entry(v, d).value = v
  BY DEF Entry
<1>5. DOMAIN Cell' = D
  BY <1>1, <1>2, <1>3, <1>4 DEF Cell
<1>6. \A j \in D : Cell'[j] = New(j)
  BY <1>1, <1>3, <1>4, <1>5 DEF Cell
<1>7. Cell' = [j \in D |-> New(j)]
  BY <1>5, <1>6 DEF Cell
<1>8. Asking' = Asking
  BY <1>1 DEF Asking
<1> QED
  BY <1>7, <1>8, ObserveRefines DEF SetKV, Promise!Set

LEMMA DeleteRefines ==
  ASSUME ReadInv, TypeOK', NEW k \in Keys, DeleteKV(k)
  PROVE  Promise!Delete(k)
<1>1. /\ UNCHANGED <<clock, get>>
      /\ DOMAIN kvMap' = DOMAIN kvMap \ {k}
      /\ \A j \in DOMAIN kvMap' : kvMap'[j] = kvMap[j]
  BY DEF DeleteKV, Without, Restrict
<1>2. DOMAIN Cell' = DOMAIN Cell \ {k}
  BY <1>1 DEF Cell
<1>3. \A j \in DOMAIN Cell \ {k} : Cell'[j] = Cell[j]
  BY <1>1, <1>2 DEF Cell
<1>4. Cell' = [j \in DOMAIN Cell \ {k} |-> Cell[j]]
  BY <1>2, <1>3 DEF Cell
<1>5. Asking' = Asking
  BY <1>1 DEF Asking
<1> QED
  BY <1>4, <1>5, ObserveRefines
     DEF DeleteKV, Promise!Delete, Promise!Restrict

LEMMA CallRefines ==
  ASSUME ReadInv, TypeOK', NEW k \in Keys, NEW c \in Callers, GetKVCall(c, k)
  PROVE  Promise!Ask(c, k)
<1>1. Cell' = Cell
  BY DEF GetKVCall, Cell
<1>2. Asking[c] = Missing
  BY DEF GetKVCall, Asking, NoCall
<1>3. Asking' = [Asking EXCEPT ![c] = k]
  BY DEF GetKVCall, Asking, ReadInv, TypeOK
<1> QED
  BY <1>1, <1>2, <1>3, ObserveRefines DEF GetKVCall, Promise!Ask

\* Removing an entry past its deadline takes away nothing anyone may read.
LEMMA PurgeKeepsCell ==
  ASSUME ReadInv, NEW k \in DOMAIN kvMap, NEW now \in Nat, now <= clock,
         Expired(kvMap[k], now), kvMap' = Without(k), UNCHANGED clock
  PROVE  Cell' = Cell
<1>1. /\ DOMAIN kvMap' = DOMAIN kvMap \ {k}
      /\ \A j \in DOMAIN kvMap' : kvMap'[j] = kvMap[j]
  BY DEF Without, Restrict
<1>2. ~(clock <= kvMap[k].until)
  BY DEF Expired, ReadInv, TypeOK, Entries
<1>3. DOMAIN Cell' = DOMAIN Cell
  BY <1>1, <1>2 DEF Cell
<1>4. \A j \in DOMAIN Cell : Cell'[j] = Cell[j]
  BY <1>1, <1>3 DEF Cell
<1> QED
  BY <1>3, <1>4 DEF Cell

LEMMA GetRefines ==
  ASSUME TTLsFit, ReadInv, TypeOK', NEW c \in Callers, GetKV(c)
  PROVE  Promise!Answer(c)
<1>1. /\ get[c] \in Calls
      /\ get[c].now \in Nat
      /\ get[c].now <= clock
      /\ Reply(c) \in seen[c]
  BY NoCallFacts, ReadAnswers DEF GetKV, ReadInv, Calls
<1>2. Cell' = Cell
  <2>1. CASE FindsExpired(c)
    BY <1>1, <2>1, PurgeKeepsCell DEF GetKV, FindsExpired
  <2>2. CASE ~FindsExpired(c)
    BY <2>2 DEF GetKV, Cell
  <2> QED
    BY <2>1, <2>2
<1>3. Asking[c] # Missing
  BY <1>1, KVAssumption DEF Asking, Calls
<1>4. Asking' = [Asking EXCEPT ![c] = Missing]
  BY DEF GetKV, Asking, NoCall, ReadInv, TypeOK
<1> QED
  BY <1>1, <1>2, <1>3, <1>4, ObserveRefines DEF GetKV, Promise!Answer

LEMMA NextRefines ==
  TTLsFit /\ ReadInv /\ ReadInv' /\ [Next]_vars
    => [Promise!Next]_(Promise!vars)
<1> SUFFICES ASSUME TTLsFit, ReadInv, ReadInv', [Next]_vars
             PROVE  [Promise!Next]_(Promise!vars)
  OBVIOUS
<1>1. TypeOK'
  BY DEF ReadInv
<1>2. CASE UNCHANGED vars
  BY <1>2 DEF vars, Promise!vars, Cell, Asking
<1>3. CASE Tick
  BY <1>1, <1>3, TickRefines DEF Promise!Next
<1>4. ASSUME NEW k \in Keys, NEW v \in Values, NEW d \in TTLs, SetKV(k, v, d)
      PROVE  Promise!Next
  BY <1>1, <1>4, SetRefines DEF Promise!Next
<1>5. ASSUME NEW k \in Keys, DeleteKV(k)
      PROVE  Promise!Next
  BY <1>1, <1>5, DeleteRefines DEF Promise!Next
<1>6. ASSUME NEW k \in Keys, NEW c \in Callers, GetKVCall(c, k)
      PROVE  Promise!Next
  BY <1>1, <1>6, CallRefines DEF Promise!Next
<1>7. ASSUME NEW c \in Callers, GetKV(c)
      PROVE  Promise!Next
  BY <1>1, <1>7, GetRefines DEF Promise!Next
<1>8. CASE GCLock
  BY <1>1, <1>8, StutterRefines DEF GCLock, Cell
<1>9. ASSUME NEW k \in Keys, GCScan(k)
      PROVE  UNCHANGED Promise!vars
  <2>1. k \in DOMAIN kvMap /\ gcNow \in Nat /\ gcNow <= clock
    BY <1>9 DEF GCScan, ReadInv, TypeOK
  <2>2. Cell' = Cell
    <3>1. CASE Expired(kvMap[k], gcNow)
      BY <1>9, <2>1, <3>1, PurgeKeepsCell DEF GCScan
    <3>2. CASE ~Expired(kvMap[k], gcNow)
      BY <1>9, <3>2 DEF GCScan, Cell
    <3> QED
      BY <3>1, <3>2
  <2> QED
    BY <1>1, <1>9, <2>2, StutterRefines DEF GCScan
<1>10. CASE GCUnlock
  BY <1>1, <1>10, StutterRefines DEF GCUnlock, Cell
<1> QED
  BY <1>2, <1>3, <1>4, <1>5, <1>6, <1>7, <1>8, <1>9, <1>10 DEF Next, GCStep

\* README.md:117-119.  The store implements the map with deadlines, as long as
\* no client asks for a TTL that overflows a Duration.
THEOREM StoreImplementsTTLMap ==
  ASSUME TTLsFit
  PROVE  Spec => ImplementsTTLMap
BY InitRefines, NextRefines, ReadInvariance, PTL
   DEF Spec, ImplementsTTLMap, Promise!Spec
-----------------------------------------------------------------------------
(* Mutual exclusion with the collector *)

LEMMA RangeStep ==
  ASSUME TypeOK, [Next]_vars, gcAwake, gcTodo' = gcTodo
  PROVE  kvMap' = kvMap
<1>1. kvLock = "gc"
  BY DEF TypeOK
<1>2. \A k \in Keys : ~GCScan(k)
  BY DEF GCScan
<1> QED
  BY <1>1, <1>2
     DEF Next, GCStep, Tick, SetKV, DeleteKV, GetKVCall, GetKV, GCLock,
         GCUnlock, vars

\* structs.go:21-23.  No handler writes the map while the collector ranges
\* over it, for any TTLs.
THEOREM RangeIsExclusive == Spec => NoWriteDuringRange
<1>1. TypeOK /\ [Next]_vars
        => [gcAwake /\ gcTodo' = gcTodo => kvMap' = kvMap]_vars
  BY RangeStep
<1> QED
  BY <1>1, TypeCorrect, PTL DEF Spec, NoWriteDuringRange
=============================================================================
