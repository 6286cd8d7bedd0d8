# Quash, verified

TLA+ models, TLC configurations and TLAPS proofs for Quash, an in-memory
key-value store and topic broker in Go.  Source lines are named relative to
the repository (`quashserver.go` is `server/quashserver/quashserver.go`).

## 1. The system

### Components

| component | source | state it keeps | operations |
|---|---|---|---|
| topic broker | `quashserver.go:96-188` | `brokers`: topic -> subscriber id -> queue; `brokersLock` | CreateTopic, RemoveTopic, AddSubscriber, RemoveSubscriber, Publish (stream), Consume (stream) |
| key-value store | `quashserver.go:61-94,194-206` | `kvMap`: key -> value, time set, time to live; `kvLock` | SetKV, GetKV, DeleteKV, GarbageCollection |
| queue | `server/queue/queue.go` | a linked list of elements and a counter, one per subscriber | NewQueue, Push (walks to the tail), Pop, Count |
| telemetry | `quashserver.go:26-51` | none; reads both maps | Snapshot |
| wire | `proto/` | none | messages, client stubs, server dispatch (generated) |
| client library | `client/client.go` | one package mutex; a connection and a stream per call | one function per RPC; Publish and Consume bridge a stream and Go channels |
| server | `server/server.go`, `main.go` | the gRPC server, the signal channel | Serve, Shutdown, main |
| admin dashboard | `admin/admin.go` | one WebSocket per browser; gauges and tables in the page | AdminServer, websocketHandler, indexHandler, the page's onmessage |
| utilities | `utils/utils.go`, `structs/structs.go` | none | SubscriptionID, RAM/CPU/heap readings, constants, embedded JavaScript |

### Interactions

* `main` runs `Serve` in a goroutine and waits for a signal.  `Serve` starts
  the dashboard's HTTP server and the collector as goroutines, registers the
  handlers and serves.  gRPC runs every call in a goroutine of its own.
* The handlers share nothing but the two maps, each under its own mutex.  No
  code holds both mutexes.
* Publish and Consume touch the network: Publish outside its critical section,
  Consume inside it.  A `Send` returns when the message fits the stream's
  flow-control window, blocks when it does not, and fails when the client went
  away.
* A dashboard goroutine per browser calls `Snapshot`, which takes the mutexes
  one after the other and then measures the CPU for a second.
* A client call takes the client package's mutex, dials, calls, closes.

### What is hard, and what makes each component right

* **Broker.** Any number of handlers, an adversarial or vanished client, a map
  of maps that disappears under a stale id.  Right means: the mailboxes are
  copies of one log (no subscriber misses a value, gets one twice or out of
  order), a subscription lasts until it is removed, a Consume drains what is
  there, and every request is answered.
* **Key-value store.** A clock that is read before the lock is taken, lazy and
  periodic removal, 64-bit durations.  Right means: an entry is readable up to
  its deadline and not after it, whoever races with whom, and expired entries
  are reclaimed.
* **Queue.** A list walked under somebody else's lock.  Right means: a FIFO
  whose counter is its length.
* **Telemetry.** Two maps, two locks, one reading.
* **Client library.** One mutex held for the whole of a streaming session, and
  unbuffered channels whose other end is the caller.  Right means: calls return,
  those that succeed take effect in their order, and values cross the stream in
  order.
* **Server.** Signals that arrive before, during and after start-up and
  shutdown.  Right means: an orderly stop.
* **Dashboard.** A page that redraws only some of what it receives.

The hazards are listed line by line in `PROJECT.json`.

## 2. Plan

The modules in order of weight, all of them written.

| module | what it is | depends on |
|---|---|---|
| `PubSub` | abstract: one log per topic, one cursor per subscriber | |
| `Broker` | the six handlers, the mutex, the streams; implements `PubSub` | `PubSub` |
| `TTLMap` | abstract: a map with deadlines and linearizable reads | |
| `KVStore` | the three handlers, the collector, the clock; implements `TTLMap` | `TTLMap` |
| `FIFO`, `Queue` | the linked list, node by node, implements a FIFO: what Broker takes a queue for | |
| `Wire` | the generated tables between a stub and a handler | |
| `Client` | a program that uses the client library: its goroutines, channels, the package mutex, the streams | `Wire` |
| `Lifecycle` | main, Serve, signals, GracefulStop and the calls in flight | |
| `Telemetry` | Snapshot, the dashboard's goroutine and the page, composed with the handlers of `Broker` | `Broker` |
| `BrokerProofs`, `BrokerLogProofs`, `PubSubProofs`, `KVStoreProofs`, `QueueProofs`, `ClientProofs`, `LifecycleProofs`, `TelemetryProofs` | theorems | |
| `MC...` | one per run family: the instance TLC checks | |

What could still be added is named in sections 6 and 7.

## 3. The modules

### Broker, and what it promises (PubSub)

`brokers` is three variables: `topics` (the keys of the outer map), `subs[t]`
(the keys of `brokers[t]`, empty if `t` is not a key) and `mailbox[s]` (the
queue of `s`; ids are 16 random bytes and never repeat, so a mailbox needs no
topic in its name).  `issued` remembers the ids handed out.  `brokersLock` is
the handler that locked the mutex last.  A handler is a slot: `pc`, `req`, and
the loop variables of the two streaming handlers, `todo` (the rest of the
`range`) and `left` (`count - i`).

| action | code |
|---|---|
| `CreateTopic`, `RemoveTopic`, `AddSubscriber`, `RemoveSubscriber` | `quashserver.go:96-139`, each Lock to Unlock |
| `PublishLock`, `PublishPush`, `PublishUnlock`, `PublishAck`, `PublishRecv`, `PublishEnd` | `:141-163`, one push per step |
| `ConsumeLock`, `ConsumeSend`, `ConsumeSendError`, `ConsumeUnlock`, `ConsumePanics` | `:165-188`, one pop and send per step |
| `Call`, `ClientRead`, `ClientBreak` | the client and the transport |

A unary handler cannot block between Lock and Unlock, so it is one step.  The
streaming loops are steps of their own because Consume's `Send` may block or
fail there, and because the loops are what a missing lock would break.

Three details carry the findings.  `ConsumeSendError` returns without
unlocking, as `:182` does: `brokersLock` stays with a handler that is gone.
`ConsumePanics` is `q.Count()` on the nil pointer that indexing the map with
an unknown id yields; nothing in the server recovers, so the process and every
call in it end.  `ConsumeSend` waits for room in the window with the lock held.

`published`, `log`, `sent` and `lost` are history: they appear in no guard
except the bound on publications.  A value is the number of its publication,
so "the same value" and "an earlier value" can be told.

`PubSub` keeps, per topic, one log, and per subscriber a position in it.
Publishing appends once for all subscribers; a delivery hands out the value
after the cursor.  `lost` counts the values that Consume took and whose Send
failed; what a client leaves unread when it breaks off was sent, and stays in
`sent`.  The
refinement mapping computes the cursor of `s` from the length of its mailbox,
and one less while a Publish has not reached `s` in its loop (`Owed`).

### KVStore, and what it promises (TTLMap)

`kvMap` is a partial function, as a Go map is.  `SetKV` and `DeleteKV` are one
step.  `GetKV` is two: it reads the clock at `:75`, before its Lock, and
anything may happen before its turn.  The collector locks, looks at one key
per step and unlocks; `kvLock` is `"gc"` in between.  `Tick` is the clock.  How
long the collector's `Sleep` lasts is left open, which allows every behaviour
of the one-second sleep and more.

A `time.Duration` is an int64: `Wrap` is its multiplication, with `2 * Half` in
place of 2^64.  `Time.Add` and `Time.After` are exact for the times at hand.

`until` in an entry is history, the deadline the client asked for, and so are
`writes`, `seen` and `reply`.  `seen[c]` collects what the key of the pending
read `c` held at each instant of the call; a read is linearizable when its
answer is in `seen[c]`.

In `TTLMap` an entry vanishes with the tick that passes its deadline, only
client writes change the map otherwise (they are counted, so an early removal
cannot pass for a client's DeleteKV), and a read answers something it has
seen.  `KVStore` maps its unexpired entries to the abstract map: the
collector's steps and lazy removals are stutters.

### Queue, and what it promises (FIFO)

Calls on a queue are made with `brokersLock` held, so they do not overlap.  The
heap is two functions on addresses, `element` and `next`; a node nothing refers
to may be allocated again with stale content.  `Push` runs up to its loop,
`Walk` is a turn of the loop, `Link` is its end; `Pop` is a step and is called
as often as `Count` said.  `chain` is history, the nodes the list is made of.
`FIFO` is a sequence with a put and a take; a Push takes effect at `Link`, or
at once on the empty list.

### Wire and Client

`Wire` is the generated code as the tables it consists of, entry by entry: the
full name a stub sends (`FullMethodName`, `Invoke`, `NewStream`), the names the
server registers with a handler for each (`ServiceDesc`), the type a handler
decodes and the method it runs (`UnaryHandler`, `StreamHandler`).  `Dispatch` is
the look-up of a name in them, and it is by `Dispatch` that Client's calls reach
the server's methods.  `proto/quash_proto.proto:110-111` still calls
AddSubscriber and RemoveSubscriber AddConsumer and RemoveConsumer, so the
generated code is not generated from it; README.md:114 sends readers there for
the definitions.

`Client` is a program with goroutines.  `program[g]` is a list of operations:
calls of the library, and the program's own `go`, sends, receives, `range` and
`close`.  `lock` is the package mutex of `client.go:14`, `in[g]` the place in
the library where `g` is, and an unbuffered send is one step of its two
goroutines (`Take`, `Forward`).

| action | code |
|---|---|
| `Enter`, `Return`, `CloseOut` | Lock, Dial; the deferred Close and Unlock; Consume's `close(resp)` |
| `Invokes`, `CallReturns`, `CallFails` | the seven unary functions, `client.go:16-120` |
| `ServerRuns`, `ServerMethod` | the generated handler, and the method it runs, `quashserver.go:61-139` |
| `PublishOpen`, `Take`, `Recv`, `Forward`, `RangeEnd`, `RecvEOF`, `RecvFails` | Publish, `:122-166` |
| `ConsumeOpen`, `Recv`, `Forward`, `RecvEOF`, `RecvFails` | Consume, `:168-211` |
| `ServerPublish` ... `ServerFinish`, `ServerDies` | the handlers as a client sees them: `Broker` takes them apart |
| `Break` | a connection fails, before or while its stream is open |

The server here has one topic, which may or may not exist (`topic`), and a
mailbox for each subscriber of it (`mailbox`; `Earlier` are ids somebody was
given before the program started).  CreateTopic, DeleteTopic, AddSubscriber and
RemoveSubscriber change them as `quashserver.go:96-139` does, refusals included.
`ServerPublish` pushes a value to every mailbox there is and acknowledges it
even if there is none, as `:151-157` does: an acknowledgement, and Publish's
nil, mean that the server has *handled* a value, not that anybody will get it.
A Consume for an id without a queue ends the process (`ServerDies`), and every
connection with it.

The variables `taken`, `handled`, `popped`, `got` and `heard` are history: what
each stage of a session has seen so far.  So are `ran`, the calls in the order
their handlers ran, and `answered`, the calls in the order they returned without
an error.  A call that returned an error may run later, at any time: `inflight`
keeps it.  Dial does not fail: it does not connect, and its target is a constant
that parses (if it could fail, the unary functions' deferred `conn.Close()` would
be a call on nil).

`ProperSends` says of the programs what Go asks of them: no send to a request
channel comes after its close, and the goroutine that sends is the one that
closes.  `MCClient` assumes it of its programs, and TLC finds it true.

### Lifecycle

`main` and `Serve` are two processes with a program counter each; `Signal` may
come at any moment.  Before `signal.Notify` it kills the process; after it, the
channel holds one signal and the runtime drops what finds it full.
`GracefulStop` closes the listener, tells the clients (`Refuse`) and waits for
the calls (`Drained`); only then does `main` return.  Of a call the model keeps
whether it ends by itself: store calls do, broker calls do unless the lock
leaked, a Publish stream ends when its client ends it.  `srv.Serve` returns nil
for a stop (`ServeReturns`) and an error for a listener that fails by itself
(`AcceptFails`), on which Serve panics with whatever calls are in flight
(`ServePanics`), unless the process ends before.  So a panic while calls are
served is possible, and `StopNeverPanicsWhileServing` says that it is never the
stop that makes it.  The channel `quit` of
`main.go:15` is handed to nobody, so its branch of the select is never taken.

### Telemetry

`Telemetry` extends `Broker`: its next step is one of `Broker`'s or one of the
dashboard's.  `ReadKV` is Snapshot's first critical section (the number of keys
is left out), `LockBrokers`, `CountTopic` and `UnlockBrokers` its second, a topic per
step; `Measure` or `MeasureFails`, `Write` and `Sleep` are the rest of
the WebSocket's loop.  `utils.go` ignores the errors of its readings and uses
the nil that came with them: the panic is net/http's to recover, the connection
closes, and the page does not reconnect.  `Open`, `LoadCharts`, `Leave` and
`OnMessage` are the page.  A message that comes before the charts are loaded is
lost to an exception, and a gauge whose metric is 0 is not redrawn: it keeps its
old reading, which the code does and nothing in the repository speaks about.
`EveryGaugeIsDrawn` says what is left: a gauge gets its drawing all the same, as
soon as its chart is there and its metric is not 0.

README.md:36 calls the reading a point-in-time copy.  It is of two points: the
keys are counted before the topics, and anything may happen in between.
`CountsAreOfOneInstant` holds of the broker's half.  The comment at
`structs.go:25` calls its map a topic's subscriber count; it is the queue
length of each subscriber.

What the dashboard may not do is change the broker.  `Undisturbed` is `Broker`
itself, instantiated with a mutex that is free while the dashboard holds it
(`HandlersLock`), and `BrokerUndisturbed` says that the composition implements
it: every step of the dashboard is a stutter, every step of a handler one it
could have taken unwatched.  Snapshot cannot write the map while it reads it,
but it could release a mutex it does not hold, or take one that is held; then
two handlers would meet in a critical section, and it is that which would show.

## 4. The runs

| run | instance | shows |
|---|---|---|
| `broker_safety` | 1 topic, 2 subscriber ids, 3 handlers, window 1, 3 values | types, safe loops, mailboxes are ends of one log, nothing handed out twice or out of order, only a failed Send leaks the lock, Consume drains, subscriptions last, refinement of PubSub |
| `broker_live` | 2 topics, 1 id, 2 handlers, 2 values, fairness | every request is answered unless the process died or the lock leaked |
| `broker_leak` | 1 topic, 1 id, 2 handlers, fairness | **violation**: a consumer that disconnects during a drain stops every later Consume (and any other broker call) |
| `broker_panic` | 1 topic, 1 id, 2 handlers | **violation**: a Consume for a removed subscriber ends the process |
| `kv_safety` | 1 key, 2 values, 2 reads, 3 writes, ticks 0-4, TTL 0 and 1 s of 2 ticks | types, reads are linearizable, no write during the collector's range, refinement of TTLMap |
| `kv_live` | 2 keys, 1 value, 1 read, 2 writes, fairness | expired entries are reclaimed, GetKV returns |
| `kv_overflow` | Durations of 4 bits, a TTL that does not fit | **violation**: an entry whose TTL overflows is expired at birth |
| `queue` | 4 nodes, 2 values, fairness | the pointers are one list without rings, the counter is its length, Push returns, refinement of FIFO |
| `client` | 4 programs of 3 goroutines and up to 3 sessions, 2 ids, window 1, 2 failing connections, fairness | at most one value in doubt, nil means handled and delivered, a failing Consume keeps at most one value from the connection, calls that succeed take effect in the order they return, a subscription stands until it is taken away, a sender is abandoned only by a failure, programs end unless a ring of goroutines waits |
| `client_example` | the program of README.md:141-180, fairness | **violation**: it never ends |
| `lifecycle` | 2 calls, 3 signals, fairness | a clean exit drops no call, stopping a server that serves never panics, one signal is enough |
| `telemetry` | 1 topic, 2 ids, 1 handler, 2 values, window 1, 1 gauge, fairness | counts of one instant, no write during the range, the broker does nothing it would not do unwatched, readings keep coming, every gauge is drawn, requests are answered while watched |

### Why the bounds are enough

Three handlers are a Publish in its loop, a Consume waiting behind it and a
removal behind that, or two consumers of one mailbox and a publisher.  Two
subscribers make the publishing loop take two steps, so that handlers can fall
between the pushes.  Three values let a mailbox hold two when a third arrives.
Window 1 makes the second `Send` of a drain block.  Two topics matter only for
requests that pair an id with the wrong topic; the live run has them.  For the
store, two writes race one read and a third comes after; a TTL of two ticks
lets time pass before, at and after a deadline; TTL 0 makes the deadline the
instant of the write.  In the live run two keys make the collector's loop two
steps.  Each module has its bounds as constants and in its guards:
`MaxPublishes` and one AddSubscriber call per id in `Broker`, `MaxClock` and
`MaxWrites` in `KVStore`.

A queue of four nodes has a walk of no turn, one and two, and reuses popped
nodes.  The client programs are the README's example, one with a goroutine per
session, one without response channels whose consumer races its publisher, and
one whose two sessions are fed in turn by one goroutine; each session is a run
of Publish or Consume, and window 1 makes the server's second Send wait.  Each
starts with the topic and without it, and they create, subscribe, unsubscribe
and delete, so that values are published to nobody, a Consume finds its queue
or not, and calls that failed run late.
`MaxBreaks` bounds the connections that fail: two of three.  Two calls let one
hold up the shutdown that the other survives, and three signals find the channel
empty, full and read.  A dashboard beside one handler meets each place of each
request; two ids let a removal and an addition fall between two readings, and
two values fill the window, so that a Consume is blocked in its Send, with the
mutex held, while the dashboard waits.
`Window`, `MaxBreaks` and `MaxSignals` are the other bounds.

The Broker and Telemetry runs do not check deadlock: the system does stop, when
the process died or the lock leaked, and two runs are about that.  Nor do the
runs of Client and Lifecycle: a program or process comes to its end.  The
KVStore and Queue runs do check it.

### Fairness

* A goroutine that can run does: weak fairness on the steps a handler takes
  without waiting for the mutex, and on the collector.
* `sync.Mutex` hands the lock to a goroutine that waited for a millisecond, so
  a waiter cannot be overtaken for ever: strong fairness on the steps that take
  the lock.
* A client that stays connected reads its responses: weak fairness on
  `ClientRead`.  Without it one slow consumer blocks the broker, since Consume
  holds the lock while it sends.  Clients may disconnect at any time, and owe
  neither calls nor further values.

* Once started, Push goes on: weak fairness on `Walk` and `Link`.
* A client program is finite and so is everything it sets in motion: weak
  fairness on `Progress`, that something that can run runs, is all it takes.
  Failures are not part of `Progress`.
* `main`, `Serve` and the handlers run: weak fairness on `MainStep`, `ServeStep`
  and `End`.  Clients end their streams when they like; `OneSignalIsEnough` is
  about the behaviours where calls do not hold up the shutdown for ever.
* The dashboard's goroutine is a goroutine like the others: weak fairness on its
  steps, strong fairness on the one that takes the mutex.  The browser owes
  nothing.

## 5. The findings

1. `quashserver.go:182` returns without unlocking (`broker_leak`).  README.md:41
   promises that Consume drains and "then closes".  `OnlyFailedSendLeaks`, checked
   and proved, says that this is the only step that leaks the lock.
2. `quashserver.go:176` dereferences nil for a subscriber that is not there
   (`broker_panic`).  By README.md:41 nothing is queued, and Consume should close.
3. `quashserver.go:67` overflows for a TTL of more than about 292 years in
   seconds (`kv_overflow`); README.md:118 says the TTL is in seconds.  Go's
   product of such a TTL and `time.Second` may be negative, and the entry is
   gone at once.
4. `client.go:208` sends to the response channel before Consume returns, and the
   program of README.md:172-179 reads that channel only after it returned
   (`client_example`).  The channel is unbuffered: with a value to consume, the
   program hangs with the package mutex held.  `EveryoneFinishes` says that a
   ring of waiting goroutines is the only way for a program to hang while
   connections hold.

## 6. The proofs

### BrokerProofs, BrokerLogProofs, PubSubProofs

Hold for any sets of topics, ids and handlers, any window and any number of
publications, from `BrokerAssumption` (`NoOne` is not a handler or an id, and
the numeric constants are numbers).

* `TypeOK` is not inductive: Consume takes the head of a mailbox, which is a
  value only if the mailbox is not empty.  That follows from `left[h]` being the
  length of the mailbox, which nobody disturbs because at most one handler is
  between Lock and Unlock.  `SectionInv` is the conjunction of `TypeOK`, the
  match of requests and places in the code, mutual exclusion and
  `LoopsAreSafe`; it is inductive (`SectionInvariance`), one lemma per action.
  `TypeCorrect` and `LoopsSafe` follow.
* `LeakOnlyByFailedSend` proves the action property `OnlyFailedSendLeaks` from
  `SectionInv`, by cases over the steps.
* `ConsumeDrains` proves `DrainsEverything`: a handler that is in its drain is the
  only one in a critical section, and its counter is the length of its mailbox.
* `SubscriptionsLast` proves `SubscriptionsPersist`.  It needs `MapInv`, that a
  topic that does not exist has no subscribers: CreateTopic replaces the inner
  map by an empty one, which is harmless only if there was none.
* `MailboxesMatchLog` proves `MailboxIsBacklog`.  A mailbox in the middle of a
  publication is a value short, and stays an end of the log only if the value
  still to come is the log's last: `PushesLast`, which holds because no second
  publication begins while one handler pushes.
* `EachValueOnce` proves `HandedOutOnceInOrder`.  `OrderInv` adds that the value
  to be pushed is newer than all in the mailbox, and those newer than all sent.
* `MailboxesImplementPubSub` is the refinement.  PublishLock is the abstract
  publication and the pushes are stutters: a mailbox grows by the value that
  was owed to it, so no cursor moves.  A Consume's step moves one cursor by one.

### KVStoreProofs

Holds for any keys, values, callers, TTLs, time unit and width of a Duration.

* `TypeCorrect` and `RangeIsExclusive` (no write while the collector ranges) for
  any TTLs.
* `ReadsAreLinearizable` and `StoreImplementsTTLMap` under `TTLsFit`: no TTL is
  negative or overflows.  `kv_overflow` shows that the hypothesis is needed.  A
  negative TTL would break the first: a read that looked at the clock before
  the write could find the entry, which was never readable, alive.  The
  inductive invariant is `ReadInv`: a pending read has seen every value it may
  still answer, and what the key holds right now.  The refinement then follows
  action by action; `PurgeKeepsCell` is the step that removal of an expired
  entry changes nothing anyone may read.

### QueueProofs

Holds for any addresses and values.  `ListInv` adds to `ListIsChain` the counter
during a Push (one more than the list, once the new node is allocated), that
the list is not empty while Push walks, and that the nodes hold values.
`TypeCorrect`, `PointersAreAList` and `CounterIsExact` follow from it, and
`ListImplementsFIFO`: `Link` appends to the chain and `Pop` takes its head.

### ClientProofs

Holds for any programs, goroutines, sessions, values and window, and any number
of failing connections, from `ClientAssumption`: programs are sequences of
operations, and a session, being one run, is run by one operation.

`OneValueInDoubt` and `NilMeansDelivered` speak of the ends of a session;
messages under way are between them.  `ClientInv` says what state
a stream is in: `Quiet`, all that was taken was handled and acknowledged;
`InDoubt`, one value is on its way, lost, or handled and its acknowledgement on
the way or lost; `InTransit`, what Consume's handler popped is what the client
got and what is on the way.  And it says what a goroutine knows from the place
it is at (`Knows`): Publish comes back to its range only with a quiet stream,
which is why it never has two values in doubt.  That a stream is touched by one
goroutine only, and not before its operation opens it, is `FreshUntilOpened`
with the assumption on sessions.  A Consume that drains has `srvLock`, so no
other handler touches its mailbox: that is `MailboxKept`, which every step of
the broker's methods has to respect.  Each action is shown to disturb one
goroutine and one session; the frame lemmas (`LocalFrame`, `ServerFrame`,
`TalkFrame`) carry the rest over.

Four invariants stand on `ClientInv`, each inductive together with it.

* `DrainInv` gives `OneValueUnsent` (`AtMostOneUnsent`).  `InTransit` is silent
  on a Consume whose Send failed; there the handler is done, and has taken
  exactly one value that is neither with the client nor on its way.  The values
  on their way when a connection fails are lost too, as many as the window had.
* `CallInv` gives `CallsTakeEffectInOrder` (`TakeEffectInOrder`).  Not inductive
  alone: it says nothing of the call that has its reply and has not returned.
  `ReplyIsLast` does: its handler ran after those of all the calls that
  returned.  That holds when the handler runs, for `ran` only grows, and until
  the call returns no other can, because whoever is in the library has the
  package mutex (`OneInside`).
* `TypeInv` gives `ClientTypeCorrect` (`TypeOK`).  The type invariant is not
  inductive alone: what a client gets is a value and not a request because the
  stream of a Publish carries only what its request channel did, and `left` is
  a number because it is the length of the mailbox.  `BrokerTypes` has the
  server's half: without the topic there is no mailbox.
* `FeedInv` gives `SendsAreTaken` (`AbandonedOnlyOnFailure`) under `ProperSends`.
  Whoever closed a request channel is past that operation, and a Publish that
  is over, or on its way out, has seen its channel closed or its connection
  fail.  A goroutine that still has a value to send has not closed the channel,
  nobody else closes it, so it was the connection.  Without `ProperSends` the
  property is false: a program that closes first and then sends panics in Go,
  and is left alone with its send in the model.

### LifecycleProofs

Holds for any number of calls and signals.  `StopInv` relates `main`'s place, the
state of GracefulStop and the calls in flight; with `TypeOK` it is inductive and
gives `TypeCorrect`, `GracefulStopWaits` and `StoppingNeverPanics`.

### TelemetryProofs

Holds for any topics, ids, handlers, gauges and levels.  `RangeInv` says that
while the dashboard ranges it has the lock, no handler is between Lock and
Unlock, and what it has counted is what the map holds.  `ReadingsAreConsistent`
and `RangeIsExclusive` follow.

`WatchingIsHarmless` is the refinement `BrokerUndisturbed`.  It needs `RangeInv`
for the steps that touch the mutex: a handler takes it when it is free, and then
it is free unwatched too; the dashboard gives back only what it holds.  One lemma
per group of the handlers' actions maps them to `Undisturbed`, whose variables
are `Broker`'s but for the mutex.  What was proved of `Broker` then holds of the
composition without a second proof: `WatchedBrokerDelivers` carries over the safe
loops, the mailboxes and the order of delivery, `WatchedBrokerIsPubSub` the
refinement of `PubSub`.

`TelemetryTypeCorrect` proves `TelemetryTypeOK`, of the broker's half from
`Undisturbed`'s type invariant, and of the dashboard's from `RangeInv`: what is
counted is the length of a queue that is there.

### Only model-checked

* Liveness, which is beyond this prover: `RequestsAnswered`,
  `ExpiredIsReclaimed`, `GetKVReturns`, `PushReturns`, `EveryoneFinishes`,
  `OneSignalIsEnough`, `ReadingsKeepComing`, `EveryGaugeIsDrawn`,
  `AnsweredWhileWatched`.
* `SubscriptionsStand`, which compares the whole history of calls with the
  mailboxes.

Every other safety invariant and action property the passing runs check is a
theorem.  Two of those carry a hypothesis beyond the assumptions on
constants: `TTLsFit` in KVStore, `ProperSends` in Client.

## 7. What is not modelled

* The accessors of the message structs and the raw descriptor in
  `proto/quash_proto.pb.go`: protobuf's encoding, generated; `Wire` has the
  types' names and indexes.
* The dashboard's HTML and style, the embedded JavaScript and style sheet of
  `utils.go` (third-party), and what gopsutil does inside.  The page only logs
  the numbers of the topics, so there is nothing of theirs to be right.
* Dial failing in the client, for the reason given with `Client`.
* The composition of `Client` with all of `Broker`: Client has each critical
  section as a step, and one topic, and Broker all their interleavings.  The two
  abstractions meet in what a client sees of a stream and are not tied by a
  refinement.  Nor has Client the store's keys: a GetKV finds its key or not.
* Memory: queues have no limit (`SubscriberBufferSize` is unused), so there is
  no limit to check.
* Texts of responses and logs.
