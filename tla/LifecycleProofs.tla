-------------------------- MODULE LifecycleProofs ---------------------------
(***************************************************************************)
(* Proofs about Lifecycle, for any number of calls and signals.  One       *)
(* inductive invariant, TypeOK and StopInv together, gives them all.       *)
(***************************************************************************)
EXTENDS Lifecycle, TLAPS

LifecycleInv == TypeOK /\ StopInv

\* Initially nothing has been started, sent or stopped.
LEMMA InitEstablishes == Init => LifecycleInv
<1> SUFFICES ASSUME Init PROVE LifecycleInv
  OBVIOUS
<1>1. TypeOK
  <2>1. call \in [Calls -> {"idle", "kv", "broker", "publish"}]
    BY DEF Init
  <2>2. signals \in 0..MaxSignals /\ pending \in 0..1
    BY LifecycleAssumption DEF Init
  <2>3. QED
    BY <2>1, <2>2 DEF Init, TypeOK
<1>2. InFlight = {}
  BY DEF Init, InFlight
<1>3. StopInv
  BY <1>2 DEF Init, StopInv
<1>4. QED
  BY <1>1, <1>3 DEF LifecycleInv

\* The steps of main, of the signals and of gRPC's stop.
LEMMA MainPreserves ==
  LifecycleInv /\ (MainStep \/ Signal) => LifecycleInv'
<1> SUFFICES ASSUME LifecycleInv, MainStep \/ Signal PROVE LifecycleInv'
  OBVIOUS
<1> USE LifecycleAssumption DEF LifecycleInv, TypeOK, StopInv, InFlight
<1>1. CASE Notify
  BY <1>1 DEF Notify, Alive
<1>2. CASE Select
  BY <1>2 DEF Select, Alive
<1>3. CASE GracefulStop
  BY <1>3 DEF GracefulStop, Alive
<1>4. CASE Refuse
  BY <1>4 DEF Refuse, Alive
<1>5. CASE Drained
  BY <1>5 DEF Drained, Alive
<1>6. CASE MainReturns
  BY <1>6 DEF MainReturns, Alive
<1>7. CASE Signal
  BY <1>7 DEF Signal, Alive
<1>8. QED
  BY <1>1, <1>2, <1>3, <1>4, <1>5, <1>6, <1>7 DEF MainStep

\* The steps of Serve, and of the listener it has.
LEMMA ServePreserves ==
  LifecycleInv /\ (ServeStep \/ AcceptFails) => LifecycleInv'
<1> SUFFICES ASSUME LifecycleInv, ServeStep \/ AcceptFails
             PROVE  LifecycleInv'
  OBVIOUS
<1> USE DEF LifecycleInv, TypeOK, StopInv, InFlight
<1>1. CASE StartAdmin
  BY <1>1 DEF StartAdmin, Alive
<1>2. CASE Listen
  BY <1>2 DEF Listen, Alive
<1>3. CASE InitServer
  BY <1>3 DEF InitServer, Alive
<1>4. CASE Register
  BY <1>4 DEF Register, Alive
<1>5. CASE Serve
  BY <1>5 DEF Serve, Alive
<1>6. CASE ServeReturns
  BY <1>6 DEF ServeReturns, Alive
<1>7. CASE ServePanics
  BY <1>7 DEF ServePanics, Alive
<1>8. CASE AcceptFails
  BY <1>8 DEF AcceptFails, Alive
<1>9. QED
  BY <1>1, <1>2, <1>3, <1>4, <1>5, <1>6, <1>7, <1>8 DEF ServeStep

\* A call that ends leaves no other call behind it.
LEMMA CallsPreserve ==
  ASSUME LifecycleInv, NEW c \in Calls,
         Start(c) \/ End(c) \/ Leak(c) \/ ClientEnds(c) \/ Sends(c)
  PROVE  LifecycleInv'
<1> USE DEF LifecycleInv, TypeOK, StopInv, InFlight
<1>1. CASE Start(c)
  BY <1>1 DEF Start, Alive
<1>2. CASE End(c)
  BY <1>2 DEF End, Alive
<1>3. CASE Leak(c)
  BY <1>3 DEF Leak, Alive
<1>4. CASE ClientEnds(c)
  BY <1>4 DEF ClientEnds, Alive
<1>5. CASE Sends(c)
  BY <1>5 DEF Sends, Alive
<1>6. QED
  BY <1>1, <1>2, <1>3, <1>4, <1>5

LEMMA LifecycleInvariance == Spec => []LifecycleInv
<1>1. LifecycleInv /\ [Next]_vars => LifecycleInv'
  <2> SUFFICES ASSUME LifecycleInv, [Next]_vars PROVE LifecycleInv'
    OBVIOUS
  <2>1. CASE UNCHANGED vars
    BY <2>1 DEF LifecycleInv, TypeOK, StopInv, InFlight, vars
  <2>2. CASE Next
    BY <2>2, MainPreserves, ServePreserves, CallsPreserve DEF Next
  <2>3. QED
    BY <2>1, <2>2
<1>2. QED
  BY <1>1, InitEstablishes, PTL DEF Spec

\* Every variable keeps its type; in particular main's channel never holds
\* more than one signal, main.go:13.
THEOREM TypeCorrect == Spec => []TypeOK
BY LifecycleInvariance, PTL DEF LifecycleInv

\* README.md:21: a graceful shutdown drops no call, however many there are.
THEOREM GracefulStopWaits == Spec => []CleanExitDropsNothing
<1>1. LifecycleInv => CleanExitDropsNothing
  BY DEF LifecycleInv, StopInv, CleanExitDropsNothing
<1>2. QED
  BY <1>1, LifecycleInvariance, PTL

\* server.go:22 and :27: with any number of calls and signals, a panic while
\* calls are served comes from the listener and never from the stop.  That a
\* server which serves has calls only from the accept loop on, and leaves the
\* loop without an error only on a stop, is StopInv's part of the argument.
THEOREM StoppingNeverPanics == Spec => []StopNeverPanicsWhileServing
<1> DEFINE Inv == LifecycleInv /\ StopNeverPanicsWhileServing
<1>1. Init => Inv
  BY InitEstablishes DEF Init, StopNeverPanicsWhileServing
<1>2. Inv /\ [Next]_vars => StopNeverPanicsWhileServing'
  <2> SUFFICES ASSUME Inv, [Next]_vars PROVE StopNeverPanicsWhileServing'
    OBVIOUS
  <2> USE DEF StopNeverPanicsWhileServing, InFlight
  <2>1. CASE MainStep \/ Signal
    BY <2>1 DEF MainStep, Signal, Notify, Select, GracefulStop, Refuse,
                Drained, MainReturns, Alive
  <2>2. CASE ServeStep
    BY <2>2 DEF ServeStep, StartAdmin, Listen, InitServer, Register, Serve,
                ServeReturns, ServePanics, Alive, LifecycleInv, StopInv
  <2>3. CASE \E c \in Calls :
               Start(c) \/ End(c) \/ Leak(c) \/ ClientEnds(c) \/ Sends(c)
    BY <2>3 DEF Start, End, Leak, ClientEnds, Sends, Alive
  <2>4. CASE UNCHANGED vars
    BY <2>4 DEF vars
  <2>5. CASE AcceptFails
    BY <2>5 DEF AcceptFails, Alive
  <2>6. QED
    BY <2>1, <2>2, <2>3, <2>4, <2>5 DEF Next
<1>3. QED
  BY <1>1, <1>2, LifecycleInvariance, PTL DEF Spec
=============================================================================
