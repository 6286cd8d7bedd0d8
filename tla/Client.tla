------------------------------- MODULE Client -------------------------------
(***************************************************************************)
(* A program that uses client/client.go.  Its goroutines call the library, *)
(* whose functions lock a package mutex, dial, call and unlock, and talk   *)
(* to each other, and to a Publish or Consume that is running, over        *)
(* unbuffered channels: a send and its receive are one step of both.       *)
(*                                                                         *)
(* Dial never fails: it does not connect, and the address is a constant    *)
(* that parses.  A server that cannot be reached shows in the call.        *)
(*                                                                         *)
(* The server keeps one topic, which need not exist, and a mailbox for     *)
(* each of its subscribers, which may be none.  A critical section of it   *)
(* is a step (Broker takes Publish's apart), but Consume's drain, which is *)
(* one step per value.  KV and the topics the program does not use are     *)
(* left out: a GetKV finds its key or not.                                 *)
(***************************************************************************)
EXTENDS Wire, FiniteSets, SequencesExt

CONSTANTS
  Goroutines, Main,
  Sessions,     \* runs of Publish and Consume, each with its channels
  Values,
  Ids,          \* subscriber ids
  Earlier,      \* those of subscribers there may be before the program starts
  Programs,     \* what the goroutines do: goroutine -> sequence of operations
  NoOne,        \* "the mutex is unlocked", "no subscriber"
  Window,       \* messages a stream buffers before Consume's Send blocks
  MaxBreaks     \* bound: connections that fail in a behaviour

Unaries == {"SetKV", "GetKV", "DeleteKV", "CreateTopic", "DeleteTopic",
            "AddSubscriber", "RemoveSubscriber"}

Subscriptions == {"AddSubscriber", "RemoveSubscriber"}

\* The operations of a program, which goes on when a call fails.
\* "out": resp is a channel and not nil.  "id": the subscriber a call names;
\* AddSubscriber's is the one it will be given.
Operations ==
  [op : {"call"}, fn : Subscriptions, id : Ids]
  \cup [op : {"call"}, fn : Unaries \ Subscriptions, id : {NoOne}]
  \cup [op : {"publish"}, s : Sessions, out : BOOLEAN]
  \cup [op : {"consume"}, s : Sessions, out : BOOLEAN, id : Ids]
  \cup [op : {"go"}, g : Goroutines]
  \cup [op : {"send"}, s : Sessions, v : Values]
  \cup [op : {"receive", "range", "close"}, s : Sessions]

NoOp == [op |-> "none"]

\* Operation o runs session s.
Opens(o, s) == o.op \in {"publish", "consume"} /\ o.s = s

\* Operation o is given subscriber id.
Adds(o, id) == o.op = "call" /\ o.fn = "AddSubscriber" /\ o.id = id

\* A session is one run, and an id is given once.
ASSUME ClientAssumption ==
  /\ Main \in Goroutines
  /\ NoOne \notin Goroutines \cup Sessions \cup Ids
  /\ Earlier \subseteq Ids
  /\ Window \in Nat \ {0}
  /\ MaxBreaks \in Nat
  /\ Programs \subseteq [Goroutines -> Seq(Operations)]
  /\ \A p \in Programs, s \in Sessions, g, h \in Goroutines :
       \A i \in 1..Len(p[g]), j \in 1..Len(p[h]) :
         Opens(p[g][i], s) /\ Opens(p[h][j], s) => g = h /\ i = j
  /\ \A p \in Programs, id \in Ids, g, h \in Goroutines :
       \A i \in 1..Len(p[g]), j \in 1..Len(p[h]) :
         Adds(p[g][i], id) /\ Adds(p[h][j], id)
           => g = h /\ i = j /\ id \notin Earlier

VARIABLES
  program,
  started,      \* goroutines that run
  at,           \* at[g]: the operation g is at
  lock,         \* the package mutex
  in,           \* in[g]: where in the library g is, or "caller"
  result,       \* result[g]: how g's last call of the library ended
  closed,       \* request channels the program closed
  ended,        \* response channels Consume closed
  up, down,     \* the messages under way in a stream, to the server and back
  half,         \* streams the client closed its side of
  eof,          \* streams whose handler returned nil
  cut,          \* streams whose connection failed
  inflight,     \* unary calls whose handler has not run: <<goroutine, place>>
  alive,        \* the server's process
  topic,        \* the topic exists
  mailbox,      \* mailbox[id]: the values queued, for each of its subscribers
  srvLock,      \* brokersLock
  hs, q, left,  \* the streams' handlers, whose queue they drain, and count
  ran, answered,                          \* history of the calls
  taken, handled, popped, got, heard      \* history of the streams

callerVars == <<program, started, at>>
libVars == <<lock, in, result>>
channelVars == <<closed, ended>>
streamVars == <<up, down, half, eof, cut>>
brokerVars == <<alive, topic, mailbox>>
serverVars == <<brokerVars, srvLock, hs, q, left>>
callHistory == <<ran, answered>>
streamHistory == <<taken, handled, popped, got, heard>>
history == <<callHistory, streamHistory>>
vars == <<callerVars, libVars, channelVars, streamVars, inflight, serverVars,
          history>>

Init ==
  /\ program \in Programs
  /\ started = {Main}
  /\ at = [g \in Goroutines |-> 1]
  /\ lock = NoOne
  /\ in = [g \in Goroutines |-> "caller"]
  /\ result = [g \in Goroutines |-> "none"]
  /\ closed = {} /\ ended = {}
  /\ up = [s \in Sessions |-> <<>>]
  /\ down = [s \in Sessions |-> <<>>]
  /\ half = {} /\ eof = {} /\ cut = {}
  /\ inflight = {}
  /\ srvLock = NoOne
  /\ hs = [s \in Sessions |-> "none"]
  /\ left = [s \in Sessions |-> 0]
  /\ q = [s \in Sessions |-> NoOne]
  /\ alive = TRUE
  /\ topic \in BOOLEAN
  /\ mailbox = [id \in IF topic THEN Earlier ELSE {} |-> <<>>]
  /\ ran = <<>>                           \* calls whose handler ran
  /\ answered = <<>>                      \* calls that returned no error
  /\ taken = [s \in Sessions |-> <<>>]    \* out of the request channel
  /\ handled = [s \in Sessions |-> <<>>]  \* by Publish's critical section
  /\ popped = [s \in Sessions |-> <<>>]   \* out of the mailbox
  /\ got = [s \in Sessions |-> <<>>]      \* by stream.Recv
  /\ heard = [s \in Sessions |-> <<>>]    \* out of the response channel

\* The operation g is at; NoOp before it starts and after its last one.
Op(g) ==
  IF g \in started /\ at[g] <= Len(program[g]) THEN program[g][at[g]] ELSE NoOp

\* g is in its own code, at operation o.
Doing(g, o) == in[g] = "caller" /\ Op(g).op = o

\* g is in the library, at place p.
Inside(g, p) == in[g] = p

Streams(g) == Op(g).op \in {"publish", "consume"}

-----------------------------------------------------------------------------
(* The program's own operations on channels and goroutines *)

Go(g) ==
  /\ Doing(g, "go")
  /\ started' = started \cup {Op(g).g}
  /\ at' = [at EXCEPT ![g] = @ + 1]
  /\ UNCHANGED <<program, libVars, channelVars, streamVars, inflight,
                 serverVars, history>>

CloseReq(g) ==
  /\ Doing(g, "close")
  /\ closed' = closed \cup {Op(g).s}
  /\ at' = [at EXCEPT ![g] = @ + 1]
  /\ UNCHANGED <<program, started, libVars, ended, streamVars, inflight,
                 serverVars, history>>

\* for range resp ends when the channel is closed.
RangeDone(g) ==
  /\ Doing(g, "range")
  /\ Op(g).s \in ended
  /\ at' = [at EXCEPT ![g] = @ + 1]
  /\ UNCHANGED <<program, started, libVars, channelVars, streamVars, inflight,
                 serverVars, history>>

-----------------------------------------------------------------------------
(* Every function of the library begins and ends alike *)

\* Faulty variant: the calls are not kept apart.
Enter_NoLock(g) ==
  /\ in[g] = "caller"
  /\ Op(g).op \in {"call", "publish", "consume"}
  /\ lock' = g
  /\ in' = [in EXCEPT ![g] = "open"]
  /\ result' = [result EXCEPT ![g] = "none"]
  /\ UNCHANGED <<callerVars, channelVars, streamVars, inflight, serverVars,
                 history>>

\* lock.Lock() and Dial.
Enter(g) ==
  /\ in[g] = "caller"
  /\ Op(g).op \in {"call", "publish", "consume"}
  /\ lock = NoOne
  /\ lock' = g
  /\ in' = [in EXCEPT ![g] = "open"]
  /\ result' = [result EXCEPT ![g] = "none"]
  /\ UNCHANGED <<callerVars, channelVars, streamVars, inflight, serverVars,
                 history>>

\* return err or nil: the deferred calls are next, close(resp) first.
Leaves(g, outcome) ==
  /\ result' = [result EXCEPT ![g] = outcome]
  /\ in' = [in EXCEPT ![g] =
              IF Op(g).op = "consume" /\ Op(g).out THEN "close" ELSE "return"]

\* Faulty variant: Consume does not close its channel.
CloseOut_Forgotten(g) ==
  /\ Inside(g, "close")
  /\ in' = [in EXCEPT ![g] = "return"]
  /\ UNCHANGED <<callerVars, lock, result, channelVars, streamVars, inflight,
                 serverVars, history>>

\* Consume's defer close(resp).
CloseOut(g) ==
  /\ Inside(g, "close")
  /\ ended' = ended \cup {Op(g).s}
  /\ in' = [in EXCEPT ![g] = "return"]
  /\ UNCHANGED <<callerVars, lock, result, closed, streamVars, inflight,
                 serverVars, history>>

\* conn.Close() and lock.Unlock().  Nothing is under way on the connection:
\* its call was answered or failed.
Return(g) ==
  /\ Inside(g, "return")
  /\ lock' = NoOne
  /\ in' = [in EXCEPT ![g] = "caller"]
  /\ at' = [at EXCEPT ![g] = @ + 1]
  /\ UNCHANGED <<program, started, result, channelVars, streamVars, inflight,
                 serverVars, history>>

-----------------------------------------------------------------------------
(* SetKV, GetKV, DeleteKV, CreateTopic, DeleteTopic, AddSubscriber,        *)
(* RemoveSubscriber: one stub call                                         *)

\* The stub a library function calls.
Stub(fn) == IF fn = "DeleteTopic" THEN "RemoveTopic" ELSE fn

Invokes(g) ==
  /\ Inside(g, "open")
  /\ Op(g).op = "call"
  /\ inflight' = inflight \cup {<<g, at[g]>>}
  /\ in' = [in EXCEPT ![g] = "invoke"]
  /\ UNCHANGED <<callerVars, lock, result, channelVars, streamVars, serverVars,
                 history>>

\* Faulty variant: CreateTopic does not look whether the topic exists.
ServerMethod_Recreates(m, id, answer) ==
  \/ /\ m \in {"SetKV", "GetKV", "DeleteKV"}
     /\ answer = "reply"
     /\ UNCHANGED brokerVars
  \/ /\ m = "CreateTopic" /\ srvLock = NoOne
     /\ answer = "reply"
     /\ topic' = TRUE
     /\ mailbox' = [k \in {} |-> <<>>]
     /\ UNCHANGED alive
  \/ /\ m = "AddSubscriber" /\ srvLock = NoOne /\ topic
     /\ answer = "reply"
     /\ mailbox' = [k \in DOMAIN mailbox \cup {id} |->
                      IF k = id THEN <<>> ELSE mailbox[k]]
     /\ UNCHANGED <<alive, topic>>

\* What the server's method m does, and whether it answers with a reply or
\* with an error.  The broker's methods need brokersLock.
ServerMethod(m, id, answer) ==
  \/ /\ m \in {"SetKV", "GetKV", "DeleteKV"}
     /\ answer = "reply" \/ (answer = "refused" /\ m = "GetKV")
     /\ UNCHANGED brokerVars
  \/ /\ m = "CreateTopic" /\ srvLock = NoOne
     /\ answer = IF topic THEN "refused" ELSE "reply"
     /\ topic' = TRUE
     /\ UNCHANGED <<alive, mailbox>>
  \/ /\ m = "RemoveTopic" /\ srvLock = NoOne
     /\ answer = "reply"
     /\ topic' = FALSE
     /\ mailbox' = [k \in {} |-> <<>>]
     /\ UNCHANGED alive
  \/ /\ m = "AddSubscriber" /\ srvLock = NoOne
     /\ answer = IF topic THEN "reply" ELSE "refused"
     /\ mailbox' = IF topic
                    THEN [k \in DOMAIN mailbox \cup {id} |->
                            IF k = id THEN <<>> ELSE mailbox[k]]
                    ELSE mailbox
     /\ UNCHANGED <<alive, topic>>
  \/ /\ m = "RemoveSubscriber" /\ srvLock = NoOne
     /\ answer = "reply"
     /\ mailbox' = [k \in DOMAIN mailbox \ {id} |-> mailbox[k]]
     /\ UNCHANGED <<alive, topic>>

\* The server finds the handler for the call's name, decodes the request and
\* runs the method, whether or not the client still waits.
ServerRuns(g, i) ==
  /\ alive
  /\ <<g, i>> \in inflight
  /\ inflight' = inflight \ {<<g, i>>}
  /\ ran' = Append(ran, <<g, i>>)
  /\ \E answer \in {"reply", "refused"} :
       /\ LET call == Invoke[Stub(program[g][i].fn)]
              handler == Dispatch(call.name) IN
            /\ handler.decodes = call.in
            /\ ServerMethod(handler.runs, program[g][i].id, answer)
       /\ in' = IF Inside(g, "invoke") /\ at[g] = i
                THEN [in EXCEPT ![g] = answer] ELSE in
  /\ UNCHANGED <<callerVars, lock, result, channelVars, streamVars, srvLock,
                 hs, q, left, answered, streamHistory>>

\* return resp, err.
CallReturns(g) ==
  /\ in[g] \in {"reply", "refused"}
  /\ IF Inside(g, "reply")
     THEN Leaves(g, "ok") /\ answered' = Append(answered, <<g, at[g]>>)
     ELSE Leaves(g, "error") /\ UNCHANGED answered
  /\ UNCHANGED <<callerVars, lock, channelVars, streamVars, inflight,
                 serverVars, ran, streamHistory>>

\* A cancelled context, a lost connection, a server that is not there.
CallFails(g) ==
  /\ in[g] \in {"invoke", "reply"}
  /\ Leaves(g, "error")
  /\ UNCHANGED <<callerVars, lock, channelVars, streamVars, inflight,
                 serverVars, history>>

-----------------------------------------------------------------------------
(* Publish and Consume: one stream *)

\* client.Publish: the server starts the handler the name stands for.
PublishOpen(g) ==
  /\ Inside(g, "open")
  /\ Op(g).op = "publish"
  /\ Op(g).s \notin cut
  /\ hs' = [hs EXCEPT ![Op(g).s] = Dispatch(NewStream["Publish"].name).runs]
  /\ in' = [in EXCEPT ![g] = "next"]
  /\ UNCHANGED <<callerVars, lock, result, channelVars, streamVars, inflight,
                 brokerVars, srvLock, q, left, history>>

\* client.Consume, Send of the only request, CloseSend.
ConsumeOpen(g) ==
  /\ Inside(g, "open")
  /\ Op(g).op = "consume"
  /\ LET s == Op(g).s IN
       /\ s \notin cut
       /\ hs' = [hs EXCEPT ![s] = Dispatch(NewStream["Consume"].name).runs]
       /\ up' = [up EXCEPT ![s] = <<Op(g).id>>]
       /\ half' = half \cup {s}
  /\ in' = [in EXCEPT ![g] = "recv"]
  /\ UNCHANGED <<callerVars, lock, result, channelVars, down, eof, cut,
                 inflight, brokerVars, srvLock, q, left, history>>

OpenFails(g) ==
  /\ Inside(g, "open")
  /\ Streams(g)
  /\ Op(g).s \in cut
  /\ Leaves(g, "error")
  /\ UNCHANGED <<callerVars, lock, channelVars, streamVars, inflight,
                 serverVars, history>>

\* Goroutine h's send meets Publish's range over the request channel.
Hands(h, g) == Doing(h, "send") /\ Inside(g, "next") /\ Op(h).s = Op(g).s

\* resp <- value meets goroutine h's receive.
Hears(h, g) ==
  /\ Inside(g, "forward")
  /\ \/ Doing(h, "receive")
     \/ Doing(h, "range")
  /\ Op(h).s = Op(g).s

\* Faulty variant: Publish does not wait for the acknowledgement.
Take_Pipelined(g, h) ==
  /\ Hands(h, g)
  /\ LET s == Op(g).s IN
       /\ taken' = [taken EXCEPT ![s] = Append(@, Op(h).v)]
       /\ IF s \in cut
          THEN Leaves(g, "error") /\ UNCHANGED up
          ELSE /\ up' = [up EXCEPT ![s] = Append(@, Op(h).v)]
               /\ UNCHANGED <<in, result>>
  /\ at' = [at EXCEPT ![h] = @ + 1]
  /\ UNCHANGED <<program, started, lock, channelVars, down, half, eof, cut,
                 inflight, serverVars, callHistory, handled, popped, got,
                 heard>>

\* A value is received from the request channel, and sent to the server.
Take(g, h) ==
  /\ Hands(h, g)
  /\ LET s == Op(g).s IN
       /\ taken' = [taken EXCEPT ![s] = Append(@, Op(h).v)]
       /\ IF s \in cut
          THEN Leaves(g, "error") /\ UNCHANGED up
          ELSE /\ up' = [up EXCEPT ![s] = Append(@, Op(h).v)]
               /\ in' = [in EXCEPT ![g] = "ack"]
               /\ UNCHANGED result
  /\ at' = [at EXCEPT ![h] = @ + 1]
  /\ UNCHANGED <<program, started, lock, channelVars, down, half, eof, cut,
                 inflight, serverVars, callHistory, handled, popped, got,
                 heard>>

\* The range over the request channel ends, and CloseSend.
RangeEnd(g) ==
  /\ Inside(g, "next")
  /\ Op(g).s \in closed
  /\ half' = half \cup {Op(g).s}
  /\ in' = [in EXCEPT ![g] = "flush"]
  /\ UNCHANGED <<callerVars, lock, result, channelVars, up, down, eof, cut,
                 inflight, serverVars, history>>

\* The place a stream's loop continues at.
Loop(g) == IF Op(g).op = "publish" THEN "next" ELSE "recv"

\* Faulty variant: without a response channel, the function returns.
Recv_NilReturns(g) ==
  /\ in[g] \in {"ack", "recv"}
  /\ LET s == Op(g).s IN
       /\ down[s] # <<>>
       /\ down' = [down EXCEPT ![s] = Tail(@)]
       /\ got' = [got EXCEPT ![s] = Append(@, Head(down[s]))]
  /\ in' = [in EXCEPT ![g] = IF Op(g).out THEN "forward" ELSE "return"]
  /\ UNCHANGED <<callerVars, lock, result, channelVars, up, half, eof, cut,
                 inflight, serverVars, callHistory, taken, handled, popped,
                 heard>>

\* stream.Recv: Publish's acknowledgement, or Consume's next value.
Recv(g) ==
  /\ in[g] \in {"ack", "recv"}
  /\ LET s == Op(g).s IN
       /\ down[s] # <<>>
       /\ down' = [down EXCEPT ![s] = Tail(@)]
       /\ got' = [got EXCEPT ![s] = Append(@, Head(down[s]))]
  /\ in' = [in EXCEPT ![g] = IF Op(g).out THEN "forward" ELSE Loop(g)]
  /\ UNCHANGED <<callerVars, lock, result, channelVars, up, half, eof, cut,
                 inflight, serverVars, callHistory, taken, handled, popped,
                 heard>>

\* resp <- value: the next message, or the end of the stream, comes after it.
Forward(g, h) ==
  /\ Hears(h, g)
  /\ heard' = [heard EXCEPT ![Op(g).s] = Append(@, Last(got[Op(g).s]))]
  /\ at' = IF Op(h).op = "receive" THEN [at EXCEPT ![h] = @ + 1] ELSE at
  /\ in' = [in EXCEPT ![g] = Loop(g)]
  /\ UNCHANGED <<program, started, lock, result, channelVars, streamVars,
                 inflight, serverVars, callHistory, taken, handled, popped,
                 got>>

\* io.EOF, which Recv returns when the handler returned nil and everything it
\* sent was read.  (Publish's last loop would drop a message, but each value
\* has had its acknowledgement by then.)
RecvEOF(g) ==
  /\ in[g] \in {"flush", "recv"}
  /\ Op(g).s \in eof
  /\ down[Op(g).s] = <<>>
  /\ Leaves(g, "ok")
  /\ UNCHANGED <<callerVars, lock, channelVars, streamVars, inflight,
                 serverVars, history>>

\* Faulty variant: any error ends the loop like io.EOF.
RecvFails_AsEOF(g) ==
  /\ in[g] \in {"ack", "flush", "recv"}
  /\ Op(g).s \in cut
  /\ Leaves(g, "ok")
  /\ UNCHANGED <<callerVars, lock, channelVars, streamVars, inflight,
                 serverVars, history>>

\* A broken connection; messages that were under way may be lost.
RecvFails(g) ==
  /\ in[g] \in {"ack", "flush", "recv"}
  /\ Op(g).s \in cut
  /\ Leaves(g, "error")
  /\ UNCHANGED <<callerVars, lock, channelVars, streamVars, inflight,
                 serverVars, history>>

-----------------------------------------------------------------------------
(* The server's handlers of the streams, and the network *)

\* Publish: Recv, and the critical section, which pushes the value to every
\* subscriber there is, and to nobody if there is none or no topic.
ServerPublish(s) ==
  /\ hs[s] = "Publish"
  /\ up[s] # <<>>
  /\ srvLock = NoOne
  /\ mailbox' = [id \in DOMAIN mailbox |-> Append(mailbox[id], Head(up[s]))]
  /\ handled' = [handled EXCEPT ![s] = Append(@, Head(up[s]))]
  /\ up' = [up EXCEPT ![s] = Tail(@)]
  /\ hs' = [hs EXCEPT ![s] = "ack"]
  /\ UNCHANGED <<callerVars, libVars, channelVars, down, half, eof, cut,
                 inflight, alive, topic, srvLock, q, left, callHistory, taken,
                 popped, got, heard>>

\* Publish's Send of the acknowledgement; an error ends the handler.
ServerAck(s) ==
  /\ hs[s] = "ack"
  /\ IF s \in cut
     THEN hs' = [hs EXCEPT ![s] = "done"] /\ UNCHANGED down
     ELSE /\ down' = [down EXCEPT ![s] = Append(@, Last(handled[s]))]
          /\ hs' = [hs EXCEPT ![s] = "Publish"]
  /\ UNCHANGED <<callerVars, libVars, channelVars, up, half, eof, cut,
                 inflight, brokerVars, srvLock, q, left, history>>

\* Publish's Recv returns io.EOF: return nil.
ServerEOF(s) ==
  /\ hs[s] = "Publish"
  /\ up[s] = <<>>
  /\ s \in half
  /\ hs' = [hs EXCEPT ![s] = "done"]
  /\ eof' = eof \cup {s}
  /\ UNCHANGED <<callerVars, libVars, channelVars, up, down, half, cut,
                 inflight, brokerVars, srvLock, q, left, history>>

\* Recv fails: return err.
ServerRecvFails(s) ==
  /\ hs[s] \in {"Publish", "Consume"}
  /\ s \in cut
  /\ hs' = [hs EXCEPT ![s] = "done"]
  /\ UNCHANGED <<callerVars, libVars, channelVars, streamVars, inflight,
                 brokerVars, srvLock, q, left, history>>

\* The queue a Consume that has just received its request finds.
Asks(s, id) ==
  /\ hs[s] = "Consume"
  /\ up[s] # <<>> /\ Head(up[s]) = id
  /\ srvLock = NoOne

\* Faulty variant: the loop is one turn short.
ServerCount_OneShort(s) ==
  \E id \in DOMAIN mailbox :
    /\ Asks(s, id)
    /\ srvLock' = s
    /\ q' = [q EXCEPT ![s] = id]
    /\ left' = [left EXCEPT ![s] = Len(mailbox[id]) - 1]
    /\ up' = [up EXCEPT ![s] = Tail(@)]
    /\ hs' = [hs EXCEPT ![s] = "send"]
    /\ UNCHANGED <<callerVars, libVars, channelVars, down, half, eof, cut,
                   inflight, brokerVars, history>>

\* Consume: Recv of the request, Lock, the queue and its Count.
ServerCount(s) ==
  \E id \in DOMAIN mailbox :
    /\ Asks(s, id)
    /\ srvLock' = s
    /\ q' = [q EXCEPT ![s] = id]
    /\ left' = [left EXCEPT ![s] = Len(mailbox[id])]
    /\ up' = [up EXCEPT ![s] = Tail(@)]
    /\ hs' = [hs EXCEPT ![s] = "send"]
    /\ UNCHANGED <<callerVars, libVars, channelVars, down, half, eof, cut,
                   inflight, brokerVars, history>>

\* Count of no queue, which nothing recovers from: the process dies, and every
\* connection with it.
ServerDies(s) ==
  /\ \E id \in Ids \ DOMAIN mailbox : Asks(s, id)
  /\ alive' = FALSE
  /\ cut' = Sessions
  /\ UNCHANGED <<callerVars, libVars, channelVars, up, down, half, eof,
                 inflight, topic, mailbox, srvLock, hs, q, left, history>>

\* Faulty variant: the mailbox is drained before the first Send.
ServerSend_DrainsFirst(s) ==
  /\ hs[s] = "send"
  /\ left[s] > 0
  /\ s \in cut \/ Len(down[s]) < Window
  /\ mailbox' = [mailbox EXCEPT ![q[s]] = <<>>]
  /\ popped' = [popped EXCEPT ![s] = @ \o mailbox[q[s]]]
  /\ IF s \in cut
     THEN hs' = [hs EXCEPT ![s] = "done"] /\ UNCHANGED <<down, left>>
     ELSE /\ down' = [down EXCEPT ![s] = @ \o mailbox[q[s]]]
          /\ left' = [left EXCEPT ![s] = 0]
          /\ UNCHANGED hs
  /\ UNCHANGED <<callerVars, libVars, channelVars, up, half, eof, cut,
                 inflight, alive, topic, srvLock, q, callHistory, taken,
                 handled, got, heard>>

\* Pop and Send.  A failed Send returns with brokersLock held.
ServerSend(s) ==
  /\ hs[s] = "send"
  /\ left[s] > 0
  /\ s \in cut \/ Len(down[s]) < Window
  /\ mailbox' = [mailbox EXCEPT ![q[s]] = Tail(@)]
  /\ popped' = [popped EXCEPT ![s] = Append(@, Head(mailbox[q[s]]))]
  /\ IF s \in cut
     THEN hs' = [hs EXCEPT ![s] = "done"] /\ UNCHANGED <<down, left>>
     ELSE /\ down' = [down EXCEPT ![s] = Append(@, Head(mailbox[q[s]]))]
          /\ left' = [left EXCEPT ![s] = @ - 1]
          /\ UNCHANGED hs
  /\ UNCHANGED <<callerVars, libVars, channelVars, up, half, eof, cut,
                 inflight, alive, topic, srvLock, q, callHistory, taken,
                 handled, got, heard>>

\* Unlock, return nil.
ServerFinish(s) ==
  /\ hs[s] = "send"
  /\ left[s] = 0
  /\ srvLock' = NoOne
  /\ hs' = [hs EXCEPT ![s] = "done"]
  /\ eof' = eof \cup {s}
  /\ UNCHANGED <<callerVars, libVars, channelVars, up, down, half, cut,
                 inflight, brokerVars, q, left, history>>

\* A connection fails, before its stream is opened or while it is open.
Break(s) ==
  /\ s \notin cut
  /\ Cardinality(cut) < MaxBreaks
  /\ \E g \in started : Streams(g) /\ Op(g).s = s
  /\ cut' = cut \cup {s}
  /\ UNCHANGED <<callerVars, libVars, channelVars, up, down, half, eof,
                 inflight, serverVars, history>>

-----------------------------------------------------------------------------

GoroutineStep(g) ==
  \/ Go(g) \/ CloseReq(g) \/ RangeDone(g)
  \/ Enter(g) \/ CloseOut(g) \/ Return(g)
  \/ Invokes(g) \/ CallReturns(g)
  \/ PublishOpen(g) \/ ConsumeOpen(g) \/ OpenFails(g)
  \/ RangeEnd(g) \/ Recv(g) \/ RecvEOF(g) \/ RecvFails(g)

Meet(g, h) == Take(g, h) \/ Forward(g, h)

ServerStep(s) ==
  /\ alive
  /\ \/ ServerPublish(s) \/ ServerAck(s) \/ ServerEOF(s) \/ ServerRecvFails(s)
     \/ ServerCount(s) \/ ServerDies(s) \/ ServerSend(s) \/ ServerFinish(s)

Progress ==
  \/ \E g \in Goroutines : GoroutineStep(g)
  \/ \E g, h \in Goroutines : Meet(g, h)
  \/ \E call \in inflight : ServerRuns(call[1], call[2])
  \/ \E s \in Sessions : ServerStep(s)

Fault ==
  \/ \E g \in Goroutines : CallFails(g)
  \/ \E s \in Sessions : Break(s)

Next == Progress \/ Fault

Spec == Init /\ [][Next]_vars

\* Something that can run runs.  A program is finite, and so is everything it
\* sets in motion: no more is needed for all of it to run.
FairSpec == Spec /\ WF_vars(Progress)
-----------------------------------------------------------------------------
(* Properties *)

Places == {"caller", "open", "invoke", "reply", "refused", "next", "ack",
           "flush", "recv", "forward", "close", "return"}

TypeOK ==
  /\ program \in Programs
  /\ started \subseteq Goroutines
  /\ \A g \in Goroutines : at[g] \in 1..Len(program[g]) + 1
  /\ lock \in Goroutines \cup {NoOne}
  /\ in \in [Goroutines -> Places]
  /\ result \in [Goroutines -> {"none", "ok", "error"}]
  /\ closed \subseteq Sessions /\ ended \subseteq Sessions
  /\ up \in [Sessions -> Seq(Values \cup Ids)]
  /\ down \in [Sessions -> Seq(Values)]
  /\ half \subseteq Sessions
  /\ eof \subseteq Sessions
  /\ cut \subseteq Sessions
  /\ inflight \subseteq Goroutines \X Nat
  /\ srvLock \in Sessions \cup {NoOne}
  /\ hs \in [Sessions -> {"none", "Publish", "ack", "Consume", "send", "done"}]
  /\ left \in [Sessions -> Nat]
  /\ q \in [Sessions -> Ids \cup {NoOne}]
  /\ alive \in BOOLEAN
  /\ topic \in BOOLEAN
  /\ DOMAIN mailbox \subseteq Ids
  /\ \A id \in DOMAIN mailbox : topic /\ mailbox[id] \in Seq(Values)
  /\ ran \in Seq(Goroutines \X Nat)
  /\ answered \in Seq(Goroutines \X Nat)
  /\ {taken, handled, popped, got, heard} \subseteq [Sessions -> Seq(Values)]

\* Session s is one of Publish's.
Publishes(s) ==
  \E g \in Goroutines : \E i \in 1..Len(program[g]) :
    program[g][i].op = "publish" /\ program[g][i].s = s

\* client.go:138-152: one value at a time.  Of the values a Publish took from
\* its request channel, the server has handled the acknowledged ones, in order
\* and once each, and no other but the one whose acknowledgement is missing:
\* when the stream fails, that one alone is in doubt, and a caller that sends
\* it again repeats at most it.  Handled means pushed to whoever subscribed
\* then, which may be nobody.
AtMostOneInDoubt ==
  \A s \in Sessions : Publishes(s) =>
    /\ IsPrefix(got[s], handled[s])
    /\ IsPrefix(handled[s], taken[s])
    /\ Len(taken[s]) <= Len(got[s]) + 1

\* client.go:160 and :202.  nil means the whole session went through: the
\* server has handled everything Publish took from the caller (it does not
\* say that anybody subscribed to it), and everything Consume took out of the
\* mailbox, where it is no more, has reached the caller.
SuccessMeansDelivered ==
  \A g \in Goroutines :
    (Inside(g, "return") /\ Streams(g) /\ result[g] = "ok") =>
      LET s == Op(g).s IN
      /\ Publishes(s) => handled[s] = taken[s]
      /\ ~Publishes(s) => got[s] = popped[s]
      /\ Op(g).out => heard[s] = got[s]

\* quashserver.go:178-186.  What Consume took out of the mailbox is gone from
\* there.  Its client has it, in order, or it is on the connection, but for one
\* value: the one whose Send failed, after which no other is taken.  So what a
\* connection that fails can lose is that one and what it was carrying.
AtMostOneUnsent ==
  \A s \in Sessions : ~Publishes(s) =>
    /\ IsPrefix(got[s] \o down[s], popped[s])
    /\ Len(popped[s]) <= Len(got[s] \o down[s]) + 1

\* client.go:14-28, a mutex around each call: the calls that return no error,
\* of whatever goroutines, took effect on the server in the order they
\* returned.  A call that returned an error may still take effect, at any time
\* later, and does not disturb that.
TakeEffectInOrder ==
  /\ Range(answered) \subseteq Range(ran)
  /\ \A m, n \in 1..Len(answered) : m < n =>
       \E j, k \in 1..Len(ran) :
         j < k /\ ran[j] = answered[m] /\ ran[k] = answered[n]

\* The operation whose handler was the k-th to run.
RanOp(k) == program[ran[k][1]][ran[k][2]]

\* The operation takes the subscription of id away.
Unsubscribes(o, id) ==
  \/ o.fn = "DeleteTopic"
  \/ o.fn = "RemoveSubscriber" /\ o.id = id

\* README.md:165-177, a subscriber id that is kept for later.  A subscription
\* the client was told of stands until a DeleteTopic or its RemoveSubscriber
\* takes effect, however late the calls that returned an error run; until then
\* a Consume for it finds its queue.
SubscriptionsStand ==
  \A k \in 1..Len(ran) :
    LET o == RanOp(k) IN
    (/\ o.fn = "AddSubscriber"
     /\ ran[k] \in Range(answered)
     /\ \A j \in k+1..Len(ran) : ~Unsubscribes(RanOp(j), o.id))
      => o.id \in DOMAIN mailbox

\* The call of s is over.
Over(s) ==
  \E g \in Goroutines : \E i \in 1..(at[g] - 1) :
    program[g][i].op \in {"publish", "consume"} /\ program[g][i].s = s

\* What Go asks of a program whose sends are never to a closed channel, and
\* what the goroutine that feeds a Publish does: it closes the request channel
\* after its last value.  A Consume has no request channel.
ProperSends ==
  \A p \in Programs, g, h \in Goroutines :
    \A i \in 1..Len(p[g]), j \in 1..Len(p[h]) :
      (/\ p[g][i].op = "send" /\ p[h][j].op \in {"close", "consume"}
       /\ p[h][j].s = p[g][i].s)
        => p[h][j].op = "close" /\ h = g /\ i < j

\* client.go:143-149.  A Publish does not end while a caller still has values
\* to send, unless its stream failed: nobody is left with a send that nothing
\* will ever take.  (One may wait for a Publish that cannot begin: see
\* WaitForEachOther.)
AbandonedOnlyOnFailure ==
  \A g \in Goroutines :
    (Doing(g, "send") /\ Over(Op(g).s)) => Op(g).s \in cut

Finished == \A g \in started : at[g] > Len(program[g]) /\ in[g] = "caller"

\* g is or will be at one of the operations os on session s.
Coming(g, os, s) ==
  \E i \in at[g]..Len(program[g]) :
    program[g][i].op \in os /\ program[g][i].s = s

\* The goroutines g waits for: the mutex's holder, or whoever has the other
\* end of its channel.
Awaits(g) ==
  CASE in[g] = "caller" /\ Op(g).op \in {"call", "publish", "consume"} ->
         {lock} \ {NoOne}
    [] Inside(g, "next") ->
         {h \in Goroutines : Coming(h, {"send", "close"}, Op(g).s)}
    [] Inside(g, "forward") ->
         {h \in Goroutines : Coming(h, {"receive", "range"}, Op(g).s)}
    [] Doing(g, "send") -> {h \in Goroutines : Coming(h, {"publish"}, Op(g).s)}
    [] Doing(g, "receive") \/ (Doing(g, "range") /\ Op(g).s \notin ended) ->
         {h \in Goroutines : Coming(h, {"publish", "consume"}, Op(g).s)}
    [] OTHER -> {}

\* client.go:14, a mutex held for a whole session: its holder is one of some
\* goroutines that wait for nobody but each other, and cannot meet.
WaitForEachOther ==
  \E C \in SUBSET Goroutines :
    /\ lock \in C
    /\ \A g \in C : Awaits(g) # {} /\ Awaits(g) \subseteq C
    /\ \A g, h \in C : ~Hands(h, g) /\ ~Hears(h, g)

\* Every program runs to its end, unless its goroutines wait for each other
\* around the package mutex, or a connection failed.
EveryoneFinishes == <>(Finished \/ WaitForEachOther \/ cut # {})

\* README.md:172-179 shows a program that consumes a value and prints it.
\* As long as its calls succeed, it ends.
ExampleFinishes ==
  <>(Finished \/ cut # {} \/ \E g \in Goroutines : result[g] = "error")
=============================================================================
