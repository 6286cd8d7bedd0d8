----------------------------- MODULE Lifecycle ------------------------------
(***************************************************************************)
(* The life of the process: main.go waits for a signal and shuts down,     *)
(* while the goroutine it started runs Serve of server/server.go.  Signals *)
(* and calls come when they like.                                          *)
(*                                                                         *)
(* Of a call only what shutting down depends on is kept: whether it ends   *)
(* by itself.  SetKV, GetKV and DeleteKV ("kv") always do; the unary       *)
(* broker calls and Consume ("broker") do unless brokersLock was leaked    *)
(* (Broker says how); a Publish stream ("publish") lasts until its client  *)
(* ends it, and hangs if it meets a leaked lock.                           *)
(*                                                                         *)
(* main also selects on a channel quit that is handed to nobody            *)
(* (main.go:15, :22-25): that branch is never taken.                       *)
(***************************************************************************)
EXTENDS Naturals, FiniteSets

CONSTANTS
  Calls,        \* slots for RPC calls
  MaxSignals    \* bound: SIGINT and SIGTERM, together

ASSUME LifecycleAssumption == MaxSignals \in Nat

VARIABLES
  mainPc,       \* "notify", "select", "shutdown", "wait"
  servePc,      \* "admin", "listen", "init", "register", "serve", "accept",
                \* "returned", or "failed": srv.Serve returned an error
  goroutines,   \* those Serve has started: "admin", "gc"
  signals,      \* signals that were sent
  pending,      \* signals in main's channel shutdown
  stop,         \* GracefulStop: "no", "closing", "refusing", "drained"
  call,         \* call[c]: "idle", or what it waits for
  leaked,       \* brokersLock is locked for good
  exit          \* "none" while the process runs, or how it ended

vars == <<mainPc, servePc, goroutines, signals, pending, stop, call, leaked,
          exit>>

Init ==
  /\ mainPc = "notify"
  /\ servePc = "admin"
  /\ goroutines = {}
  /\ signals = 0
  /\ pending = 0
  /\ stop = "no"
  /\ call = [c \in Calls |-> "idle"]
  /\ leaked = FALSE
  /\ exit = "none"

Alive == exit = "none"

InFlight == {c \in Calls : call[c] # "idle"}

-----------------------------------------------------------------------------
(* main *)

Notify ==
  /\ Alive
  /\ mainPc = "notify"
  /\ mainPc' = "select"
  /\ UNCHANGED <<servePc, goroutines, signals, pending, stop, call, leaked,
                 exit>>

\* Faulty variant: the channel has room for every signal.
Signal_Queues ==
  /\ Alive
  /\ signals < MaxSignals
  /\ signals' = signals + 1
  /\ IF mainPc = "notify"
     THEN exit' = "killed" /\ UNCHANGED pending
     ELSE pending' = pending + 1 /\ UNCHANGED exit
  /\ UNCHANGED <<mainPc, servePc, goroutines, stop, call, leaked>>

\* Faulty variant: an unbuffered channel takes a signal only while main waits.
Signal_Unbuffered ==
  /\ Alive
  /\ signals < MaxSignals
  /\ signals' = signals + 1
  /\ IF mainPc = "notify"
     THEN exit' = "killed" /\ UNCHANGED pending
     ELSE /\ pending' \in {pending, IF mainPc = "select" THEN 1 ELSE pending}
          /\ UNCHANGED exit
  /\ UNCHANGED <<mainPc, servePc, goroutines, stop, call, leaked>>

\* A signal kills a process that has not asked for it; else the runtime puts
\* it in the channel if there is room, and drops it if there is not.
Signal ==
  /\ Alive
  /\ signals < MaxSignals
  /\ signals' = signals + 1
  /\ IF mainPc = "notify"
     THEN exit' = "killed" /\ UNCHANGED pending
     ELSE pending' = 1 /\ UNCHANGED exit
  /\ UNCHANGED <<mainPc, servePc, goroutines, stop, call, leaked>>

\* case sig := <-shutdown, and quashSrv.Shutdown(), which only logs.
Select ==
  /\ Alive
  /\ mainPc = "select"
  /\ pending = 1
  /\ pending' = 0
  /\ mainPc' = "shutdown"
  /\ UNCHANGED <<servePc, goroutines, signals, stop, call, leaked, exit>>

\* srv.GracefulStop() closes the listener and tells the clients.
GracefulStop ==
  /\ Alive
  /\ mainPc = "shutdown"
  /\ mainPc' = "wait"
  /\ stop' = "closing"
  /\ UNCHANGED <<servePc, goroutines, signals, pending, call, leaked, exit>>

\* Every client has heard; calls it may have made before are in.
Refuse ==
  /\ Alive
  /\ stop = "closing"
  /\ servePc # "accept"
  /\ stop' = "refusing"
  /\ UNCHANGED <<mainPc, servePc, goroutines, signals, pending, call, leaked,
                 exit>>

\* Faulty variant: Stop instead of GracefulStop.
Drained_StopsHard ==
  /\ Alive
  /\ stop = "refusing"
  /\ stop' = "drained"
  /\ UNCHANGED <<mainPc, servePc, goroutines, signals, pending, call, leaked,
                 exit>>

\* GracefulStop waits for every call.
Drained ==
  /\ Alive
  /\ stop = "refusing"
  /\ InFlight = {}
  /\ stop' = "drained"
  /\ UNCHANGED <<mainPc, servePc, goroutines, signals, pending, call, leaked,
                 exit>>

\* GracefulStop returns, main does, and the process is over.
MainReturns ==
  /\ Alive
  /\ mainPc = "wait"
  /\ stop = "drained"
  /\ exit' = "clean"
  /\ UNCHANGED <<mainPc, servePc, goroutines, signals, pending, stop, call,
                 leaked>>

-----------------------------------------------------------------------------
(* Serve *)

StartAdmin ==
  /\ Alive
  /\ servePc = "admin"
  /\ goroutines' = goroutines \cup {"admin"}
  /\ servePc' = "listen"
  /\ UNCHANGED <<mainPc, signals, pending, stop, call, leaked, exit>>

\* net.Listen; the address may be in use.
Listen ==
  /\ Alive
  /\ servePc = "listen"
  /\ \/ servePc' = "init" /\ UNCHANGED exit
     \/ exit' = "panic" /\ UNCHANGED servePc
  /\ UNCHANGED <<mainPc, goroutines, signals, pending, stop, call, leaked>>

\* Server.Init starts the collector.
InitServer ==
  /\ Alive
  /\ servePc = "init"
  /\ goroutines' = goroutines \cup {"gc"}
  /\ servePc' = "register"
  /\ UNCHANGED <<mainPc, signals, pending, stop, call, leaked, exit>>

Register ==
  /\ Alive
  /\ servePc = "register"
  /\ servePc' = "serve"
  /\ UNCHANGED <<mainPc, goroutines, signals, pending, stop, call, leaked,
                 exit>>

\* srv.Serve: a server that was told to stop refuses, and Serve panics.
Serve ==
  /\ Alive
  /\ servePc = "serve"
  /\ IF stop = "no"
     THEN servePc' = "accept" /\ UNCHANGED exit
     ELSE exit' = "panic" /\ UNCHANGED servePc
  /\ UNCHANGED <<mainPc, goroutines, signals, pending, stop, call, leaked>>

\* Faulty variant: the end of the accept loop is taken for an error.
ServeReturns_Panics ==
  /\ Alive
  /\ servePc = "accept"
  /\ stop # "no"
  /\ servePc' = "returned"
  /\ exit' = "panic"
  /\ UNCHANGED <<mainPc, goroutines, signals, pending, stop, call, leaked>>

\* Accept fails because the listener was closed: srv.Serve returns nil.
ServeReturns ==
  /\ Alive
  /\ servePc = "accept"
  /\ stop # "no"
  /\ servePc' = "returned"
  /\ UNCHANGED <<mainPc, goroutines, signals, pending, stop, call, leaked,
                 exit>>

\* Accept fails for good, and not because of a stop: srv.Serve returns its
\* error.  Connections it accepted before are still served.
AcceptFails ==
  /\ Alive
  /\ servePc = "accept"
  /\ stop = "no"
  /\ servePc' = "failed"
  /\ UNCHANGED <<mainPc, goroutines, signals, pending, stop, call, leaked,
                 exit>>

\* Serve panics on that error; main may have begun to stop by then.
ServePanics ==
  /\ Alive
  /\ servePc = "failed"
  /\ exit' = "panic"
  /\ UNCHANGED <<mainPc, servePc, goroutines, signals, pending, stop, call,
                 leaked>>

-----------------------------------------------------------------------------
(* Calls *)

\* A new connection, or one from before GracefulStop that has not heard of it.
Start(c) ==
  /\ Alive
  /\ call[c] = "idle"
  /\ servePc \in {"accept", "returned", "failed"}
  /\ stop \in {"no", "closing"}
  /\ \E kind \in {"kv", "broker", "publish"} : call' = [call EXCEPT ![c] = kind]
  /\ UNCHANGED <<mainPc, servePc, goroutines, signals, pending, stop, leaked,
                 exit>>

\* The handler returns.
End(c) ==
  /\ Alive
  /\ call[c] = "kv" \/ (call[c] = "broker" /\ ~leaked)
  /\ call' = [call EXCEPT ![c] = "idle"]
  /\ UNCHANGED <<mainPc, servePc, goroutines, signals, pending, stop, leaked,
                 exit>>

\* It was a Consume whose Send failed.
Leak(c) ==
  /\ Alive
  /\ call[c] = "broker"
  /\ ~leaked
  /\ leaked' = TRUE
  /\ call' = [call EXCEPT ![c] = "idle"]
  /\ UNCHANGED <<mainPc, servePc, goroutines, signals, pending, stop, exit>>

\* The client ends its Publish stream, or sends a value to a leaked lock.
ClientEnds(c) ==
  /\ Alive
  /\ call[c] = "publish"
  /\ call' = [call EXCEPT ![c] = "idle"]
  /\ UNCHANGED <<mainPc, servePc, goroutines, signals, pending, stop, leaked,
                 exit>>

Sends(c) ==
  /\ Alive
  /\ call[c] = "publish"
  /\ leaked
  /\ call' = [call EXCEPT ![c] = "broker"]
  /\ UNCHANGED <<mainPc, servePc, goroutines, signals, pending, stop, leaked,
                 exit>>

-----------------------------------------------------------------------------

MainStep ==
  Notify \/ Select \/ GracefulStop \/ Refuse \/ Drained \/ MainReturns

ServeStep ==
  \/ StartAdmin \/ Listen \/ InitServer \/ Register
  \/ Serve \/ ServeReturns \/ ServePanics

Next ==
  \/ MainStep
  \/ ServeStep
  \/ AcceptFails
  \/ Signal
  \/ \E c \in Calls : Start(c) \/ End(c) \/ Leak(c) \/ ClientEnds(c) \/ Sends(c)

Spec == Init /\ [][Next]_vars

\* Goroutines run, handlers among them.  What clients do is up to them.
Fairness ==
  /\ WF_vars(MainStep)
  /\ WF_vars(ServeStep)
  /\ \A c \in Calls : WF_vars(End(c))

FairSpec == Spec /\ Fairness
-----------------------------------------------------------------------------
(* Properties *)

TypeOK ==
  /\ mainPc \in {"notify", "select", "shutdown", "wait"}
  /\ servePc \in {"admin", "listen", "init", "register", "serve", "accept",
                  "returned", "failed"}
  /\ goroutines \subseteq {"admin", "gc"}
  /\ signals \in 0..MaxSignals
  /\ pending \in 0..1
  /\ stop \in {"no", "closing", "refusing", "drained"}
  /\ call \in [Calls -> {"idle", "kv", "broker", "publish"}]
  /\ leaked \in BOOLEAN
  /\ exit \in {"none", "killed", "panic", "clean"}

\* README.md:21, "graceful shutdown": when the process ends by itself on a
\* signal, at whatever moment that came and however many followed, every call
\* it had let in was finished.
CleanExitDropsNothing == exit = "clean" => InFlight = {}

\* server.go:22 and :27.  Serve panics because it could not start, because it
\* was told to stop before it had started, or because its listener failed while
\* it served and nobody had asked it to stop.  Only the last can hit calls
\* in flight: stopping a server that serves never does, at whatever moment of
\* its accept loop and of its calls the stop comes.
StopNeverPanicsWhileServing ==
  exit = "panic" =>
    /\ servePc \in {"listen", "serve", "failed"}
    /\ servePc = "serve" => stop # "no"
    /\ servePc # "failed" => InFlight = {}

\* A call that will not end by itself: an open Publish stream, or one that
\* waits for a leaked lock.
HeldUp ==
  \E c \in Calls : call[c] = "publish" \/ (leaked /\ call[c] = "broker")

\* main.go:13-20.  One signal is enough, whatever main and Serve are doing when
\* it comes: it is not lost, and the process ends, if there comes a time from
\* which on no call holds it up.
OneSignalIsEnough == (<>[]~HeldUp) => (signals > 0 ~> ~Alive)

\* The part of the state the safety properties rest on: LifecycleProofs.
StopInv ==
  /\ stop # "no" <=> mainPc = "wait"
  /\ servePc \notin {"accept", "returned", "failed"} => InFlight = {}
  /\ servePc = "returned" => stop # "no"
  /\ stop = "drained" => InFlight = {}
  /\ exit = "clean" => stop = "drained"
=============================================================================
