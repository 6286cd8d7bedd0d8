---------------------------- MODULE ClientProofs ----------------------------
(***************************************************************************)
(* Proofs about Client for any programs, goroutines, sessions, values, ids *)
(* and stream window, and any number of connections that fail.             *)
(*                                                                         *)
(* AtMostOneInDoubt and SuccessMeansDelivered are not inductive: they say  *)
(* nothing about the messages under way.  ClientInv adds what state a      *)
(* stream is in (Quiet, InDoubt, InTransit), that a session is untouched   *)
(* before its operation opens it, and what each place in the library tells *)
(* the goroutine that has come to it about its stream.                     *)
(*                                                                         *)
(* Four more invariants stand on ClientInv: CallInv, the order in which    *)
(* calls ran and returned; TypeInv, what the types leave out that TypeOK   *)
(* needs; FeedInv, that a request channel's close is behind who made it,   *)
(* and that a Publish ends by that close or a failure; and DrainInv, where *)
(* the values of a Consume are after a failed Send too.                    *)
(***************************************************************************)
EXTENDS Client, SequenceTheorems, TLAPS

Messages == Values \cup Ids

StreamOps == {"publish", "consume"}

\* The facts about types the proofs need.
Types ==
  /\ program \in Programs
  /\ started \subseteq Goroutines
  /\ at \in [Goroutines -> Nat \ {0}]
  /\ in \in [Goroutines -> Places]
  /\ result \in [Goroutines -> {"none", "ok", "error"}]
  /\ up \in [Sessions -> Seq(Messages)]
  /\ down \in [Sessions -> Seq(Messages)]
  /\ taken \in [Sessions -> Seq(Messages)]
  /\ handled \in [Sessions -> Seq(Messages)]
  /\ popped \in [Sessions -> Seq(Messages)]
  /\ got \in [Sessions -> Seq(Messages)]
  /\ heard \in [Sessions -> Seq(Messages)]
  /\ inflight \subseteq Goroutines \X Nat
  /\ \A id \in DOMAIN mailbox : mailbox[id] \in Seq(Messages)
  /\ q = [s \in Sessions |-> q[s]]
  /\ eof \subseteq Sessions
  /\ hs \in [Sessions -> {"none", "Publish", "ack", "Consume", "send", "done"}]
  /\ left \in [Sessions -> Nat]

\* Whoever is in the library is at the operation its place belongs to.
PlaceMatches(g) ==
  /\ in[g] # "caller" => Op(g).op \in {"call", "publish", "consume"}
  /\ in[g] \in {"invoke", "reply", "refused"} => Op(g).op = "call"
  /\ in[g] \in {"next", "ack", "flush"} => Op(g).op = "publish"
  /\ in[g] = "recv" => Op(g).op = "consume"
  /\ in[g] = "forward" => Streams(g) /\ Op(g).out
  /\ in[g] = "close" => Op(g).op = "consume"

PlacesMatch == \A g \in Goroutines : PlaceMatches(g)

\* The handlers of s are those of its method; a Consume that drains has the
\* lock, and counts down to the end of its mailbox.
HandlersMatch ==
  \A s \in Sessions :
    /\ hs[s] \in {"Publish", "ack"} => Publishes(s)
    /\ hs[s] \in {"Consume", "send"} => ~Publishes(s)
    /\ hs[s] = "send" => /\ srvLock = s
                         /\ q[s] \in DOMAIN mailbox
                         /\ left[s] = Len(mailbox[q[s]])
    /\ s \in eof => hs[s] = "done"

Fresh(s) ==
  /\ hs[s] = "none"
  /\ up[s] = <<>> /\ down[s] = <<>>
  /\ taken[s] = <<>> /\ handled[s] = <<>>
  /\ popped[s] = <<>> /\ got[s] = <<>> /\ heard[s] = <<>>

\* A session is untouched until its operation has opened the stream.
FreshUntilOpened ==
  \A g \in Goroutines : \A i \in 1..Len(program[g]) :
    (program[g][i].op \in StreamOps
       /\ (at[g] < i \/ (at[g] = i /\ in[g] \in {"caller", "open"})))
      => Fresh(program[g][i].s)

\* All that Publish took was handled and acknowledged.
Quiet(s) ==
  /\ hs[s] \in {"none", "Publish", "done"}
  /\ up[s] = <<>> /\ down[s] = <<>>
  /\ taken[s] = handled[s] /\ handled[s] = got[s]

\* The last value Publish took is on its way to the server or lost there,
\* or handled, or its acknowledgement is on its way back.
InDoubt(s) ==
  \E v \in Messages :
    /\ taken[s] = Append(got[s], v)
    /\ \/ /\ hs[s] \in {"none", "Publish", "done"}
          /\ up[s] \in {<<>>, <<v>>} /\ down[s] = <<>> /\ handled[s] = got[s]
       \/ /\ hs[s] \in {"ack", "done"}
          /\ up[s] = <<>> /\ down[s] = <<>> /\ handled[s] = taken[s]
       \/ /\ hs[s] \in {"Publish", "done"}
          /\ up[s] = <<>> /\ down[s] = <<v>> /\ handled[s] = taken[s]

\* What Consume popped has reached the client or is on its way, as long as
\* no Send failed.
InTransit(s) ==
  (hs[s] # "done" \/ s \in eof) => popped[s] = got[s] \o down[s]

InOrder(s) == IF Publishes(s) THEN Quiet(s) \/ InDoubt(s) ELSE InTransit(s)

StreamInv == \A s \in Sessions : InOrder(s)

\* The stream of g has nothing more to tell.
Settled(g) ==
  LET s == Op(g).s IN
  /\ Op(g).op = "publish" => Quiet(s)
  /\ Op(g).op = "consume" => s \in eof /\ down[s] = <<>>
  /\ Op(g).out => heard[s] = got[s]

\* What g knows from the place it has come to.
Knows(g) ==
  LET s == Op(g).s IN
  /\ (in[g] \in {"next", "forward", "flush"} /\ Op(g).op = "publish")
       => Quiet(s)
  /\ (in[g] \in {"next", "ack", "flush", "recv"} /\ Op(g).out)
       => heard[s] = got[s]
  /\ in[g] = "forward" => /\ got[s] # <<>>
                          /\ got[s] = Append(heard[s], Last(got[s]))
  /\ (in[g] \in {"close", "return"} /\ result[g] = "ok") => Settled(g)

ProgressInv == \A g \in Goroutines : Streams(g) => Knows(g)

ClientInv ==
  /\ Types /\ PlacesMatch /\ HandlersMatch
  /\ FreshUntilOpened /\ StreamInv /\ ProgressInv
-----------------------------------------------------------------------------
(* The wire, operations and sequences *)

\* A name on the wire reaches the handler of its method.
LEMMA DispatchFacts ==
  ASSUME NEW m \in Methods
  PROVE  Dispatch(FullMethodName[m]).runs = m
<1> DEFINE sd == CHOOSE d \in Registered : d.name = FullMethodName[m][1]
           L == sd.methods \o sd.streams
           found == {e \in Range(L) : e.name = FullMethodName[m][2]}
<1>1. /\ FullMethodName[m][1] = "quash_proto.QuashService"
      /\ FullMethodName[m][2] = m
  BY DEF FullMethodName, Methods, Unary, Streaming
<1>2. sd = ServiceDesc
  BY <1>1 DEF Registered, ServiceDesc
<1>3. L = ServiceDesc.methods \o ServiceDesc.streams
  BY <1>2
<1> HIDE DEF L, sd
<1>4. /\ DOMAIN L = 1..9
      /\ L[1] = Entry("SetKV", UnaryHandler.SetKV)
      /\ L[2] = Entry("GetKV", UnaryHandler.GetKV)
      /\ L[3] = Entry("DeleteKV", UnaryHandler.DeleteKV)
      /\ L[4] = Entry("CreateTopic", UnaryHandler.CreateTopic)
      /\ L[5] = Entry("RemoveTopic", UnaryHandler.RemoveTopic)
      /\ L[6] = Entry("AddSubscriber", UnaryHandler.AddSubscriber)
      /\ L[7] = Entry("RemoveSubscriber", UnaryHandler.RemoveSubscriber)
      /\ L[8] = Entry("Publish", StreamHandler.Publish)
      /\ L[9] = Entry("Consume", StreamHandler.Consume)
  BY <1>3 DEF ServiceDesc
<1>5. \A i \in 1..9 : L[i].handler.runs = L[i].name
  <2>1. \A x \in Unary :
          Entry(x, UnaryHandler[x]).handler.runs
            = Entry(x, UnaryHandler[x]).name
    BY DEF Unary, Entry, Handler, UnaryHandler
  <2>2. \A x \in Streaming :
          Entry(x, StreamHandler[x]).handler.runs
            = Entry(x, StreamHandler[x]).name
    BY DEF Streaming, Entry, Handler, StreamHandler
  <2> QED
    BY <1>4, <2>1, <2>2 DEF Unary, Streaming
<1>6. \E i \in 1..9 : L[i].name = m
  <2>1. /\ L[1].name = "SetKV" /\ L[2].name = "GetKV"
        /\ L[3].name = "DeleteKV" /\ L[4].name = "CreateTopic"
        /\ L[5].name = "RemoveTopic" /\ L[6].name = "AddSubscriber"
        /\ L[7].name = "RemoveSubscriber" /\ L[8].name = "Publish"
        /\ L[9].name = "Consume"
    BY <1>4 DEF Entry
  <2> QED
    BY <2>1 DEF Methods, Unary, Streaming
<1>7. Dispatch(FullMethodName[m]) =
        IF found # {} THEN (CHOOSE e \in found : TRUE).handler
                      ELSE Handler("none", "Unimplemented")
  BY DEF Dispatch, L, sd
<1>8. found # {} /\ \A e \in found : e.handler.runs = m
  BY <1>1, <1>4, <1>5, <1>6 DEF Range
<1> HIDE DEF found
<1>9. (CHOOSE e \in found : TRUE) \in found
  BY <1>8
<1> QED
  BY <1>7, <1>8, <1>9

LEMMA StreamsAreDispatched ==
  /\ Dispatch(NewStream["Publish"].name).runs = "Publish"
  /\ Dispatch(NewStream["Consume"].name).runs = "Consume"
BY DispatchFacts DEF NewStream, Methods, Streaming

LEMMA OpFacts ==
  ASSUME NEW o \in Operations
  PROVE  /\ o.op \in {"publish", "consume", "send", "receive", "range",
                      "close"} => o.s \in Sessions
         /\ o.op = "send" => o.v \in Values
         /\ o.op \in {"publish", "consume"} => o.out \in BOOLEAN
         /\ o.op = "consume" => o.id \in Ids
BY DEF Operations

LEMMA AppendFacts ==
  ASSUME NEW S, NEW w \in Seq(S), NEW x \in S
  PROVE  /\ Append(w, x) \in Seq(S)
         /\ Len(Append(w, x)) = Len(w) + 1
         /\ Last(Append(w, x)) = x
         /\ Append(w, x) # w /\ Append(w, x) # <<>>
         /\ \A i \in 1..Len(w) : Append(w, x)[i] = w[i]
BY DEF Last

LEMMA PrefixFacts ==
  ASSUME NEW S, NEW w \in Seq(S), NEW x \in S
  PROVE  IsPrefix(w, Append(w, x)) /\ IsPrefix(w, w)
<1>1. Len(w) \in Nat /\ \A i \in 1..Len(w) : w[i] \in S
  OBVIOUS
<1>2. /\ SubSeq(Append(w, x), 1, Len(w)) \in Seq(S)
      /\ Len(SubSeq(Append(w, x), 1, Len(w))) = Len(w)
      /\ \A i \in 1..Len(w) : SubSeq(Append(w, x), 1, Len(w))[i] = w[i]
  BY <1>1, AppendFacts, SubSeqProperties
<1>3. SubSeq(Append(w, x), 1, Len(w)) = w
  BY <1>2, SeqEqual
<1>4. SubSeq(w, 1, Len(w)) = w
  BY SubSeqFull
<1> QED
  BY <1>1, <1>3, <1>4, AppendFacts DEF IsPrefix

LEMMA ConcatAppend ==
  ASSUME NEW S, NEW w \in Seq(S), NEW r \in Seq(S), NEW x \in S
  PROVE  w \o Append(r, x) = Append(w \o r, x)
<1>1. /\ w \o Append(r, x) \in Seq(S)
      /\ Append(w \o r, x) \in Seq(S)
      /\ Len(w \o Append(r, x)) = Len(Append(w \o r, x))
  BY ConcatProperties
<1>2. ASSUME NEW i \in 1..Len(w \o Append(r, x))
      PROVE  (w \o Append(r, x))[i] = Append(w \o r, x)[i]
  <2>1. w \o r \in Seq(S) /\ Append(r, x) \in Seq(S)
    BY ConcatProperties
  <2>2. (w \o Append(r, x))[i] =
          IF i <= Len(w) THEN w[i] ELSE Append(r, x)[i - Len(w)]
    BY <2>1, ConcatProperties
  <2>3. Append(w \o r, x)[i] = IF i <= Len(w \o r) THEN (w \o r)[i] ELSE x
    BY <1>1, <2>1
  <2>4. CASE i = Len(w) + Len(r) + 1
    BY <2>2, <2>3, <2>4, ConcatProperties
  <2>5. CASE i \in 1..Len(w) + Len(r)
    <3>1. (w \o r)[i] = IF i <= Len(w) THEN w[i] ELSE r[i - Len(w)]
      BY <2>5, ConcatProperties
    <3>2. i > Len(w) => Append(r, x)[i - Len(w)] = r[i - Len(w)]
      BY <2>5, AppendFacts
    <3>3. i <= Len(w \o r)
      BY <2>5, ConcatProperties
    <3> QED
      BY <2>2, <2>3, <3>1, <3>2, <3>3
  <2>6. Len(w \o Append(r, x)) = Len(w) + (Len(r) + 1)
    BY <2>1, AppendFacts, ConcatProperties
  <2>7. Len(w) \in Nat /\ Len(r) \in Nat
    OBVIOUS
  <2>8. i = Len(w) + Len(r) + 1 \/ i \in 1..Len(w) + Len(r)
    BY <2>6, <2>7
  <2> QED
    BY <2>4, <2>5, <2>8
<1> QED
  BY <1>1, <1>2, SeqEqual

LEMMA ConcatHead ==
  ASSUME NEW S, NEW w \in Seq(S), NEW r \in Seq(S), r # <<>>
  PROVE  Append(w, Head(r)) \o Tail(r) = w \o r
<1>1. /\ Append(w, Head(r)) \o Tail(r) \in Seq(S)
      /\ w \o r \in Seq(S)
      /\ Len(Append(w, Head(r)) \o Tail(r)) = Len(w \o r)
  BY ConcatProperties
<1>2. \A i \in 1..Len(w \o r) :
        (Append(w, Head(r)) \o Tail(r))[i] = (w \o r)[i]
  BY ConcatProperties, HeadTailProperties
<1> QED
  BY <1>1, <1>2, SeqEqual

LEMMA InitTypes == Init => Types
<1> SUFFICES ASSUME Init PROVE Types
  OBVIOUS
<1>1. <<>> \in Seq(Messages)
  BY EmptySeq
<1> QED
  BY <1>1, ClientAssumption DEF Init, Types, Places

\* A goroutine that runs a stream is at an operation of its program.
LEMMA StreamFacts ==
  ASSUME Types, NEW g \in Goroutines, Streams(g)
  PROVE  /\ g \in started
         /\ at[g] \in 1..Len(program[g])
         /\ Op(g) = program[g][at[g]]
         /\ Op(g) \in Operations
         /\ Op(g).s \in Sessions
         /\ Op(g).out \in BOOLEAN
<1>1. g \in started /\ at[g] <= Len(program[g])
  BY DEF Streams, Op, NoOp
<1>2. program[g] \in Seq(Operations)
  BY ClientAssumption DEF Types
<1>3. at[g] \in 1..Len(program[g]) /\ Op(g) = program[g][at[g]]
  BY <1>1, <1>2 DEF Types, Op
<1>4. Op(g) \in Operations
  BY <1>2, <1>3, ElementOfSeq
<1> QED
  BY <1>1, <1>3, <1>4, OpFacts DEF Streams

\* Nobody else runs its session.
LEMMA OneRun ==
  ASSUME Types, NEW g \in Goroutines, Streams(g),
         NEW h \in Goroutines, NEW i \in 1..Len(program[h]),
         program[h][i].op \in StreamOps, program[h][i].s = Op(g).s
  PROVE  h = g /\ i = at[g]
<1>1. /\ at[g] \in 1..Len(program[g])
      /\ Opens(program[g][at[g]], Op(g).s)
      /\ Op(g).s \in Sessions
  BY StreamFacts DEF Opens, Streams
<1>2. Opens(program[h][i], Op(g).s)
  BY DEF Opens, StreamOps
<1>3. \A p \in Programs, s \in Sessions, a, b \in Goroutines :
        \A k \in 1..Len(p[a]), j \in 1..Len(p[b]) :
          Opens(p[a][k], s) /\ Opens(p[b][j], s) => a = b /\ k = j
  BY ClientAssumption
<1>4. program \in Programs
  BY DEF Types
<1> QED
  BY <1>1, <1>2, <1>3, <1>4

LEMMA OneRunner ==
  ASSUME Types, NEW g \in Goroutines, Streams(g),
         NEW h \in Goroutines, Streams(h), Op(h).s = Op(g).s
  PROVE  h = g
BY StreamFacts, OneRun DEF Streams, StreamOps

LEMMA KindOfSession ==
  ASSUME Types, NEW g \in Goroutines, Streams(g)
  PROVE  Publishes(Op(g).s) <=> Op(g).op = "publish"
BY StreamFacts, OneRun DEF Streams, StreamOps, Publishes
-----------------------------------------------------------------------------
(* Frames: what is left to show about three kinds of steps *)

\* Nothing happens to session s.
SessionSame(s) ==
  /\ hs'[s] = hs[s] /\ (s \in eof' <=> s \in eof)
  /\ up'[s] = up[s] /\ down'[s] = down[s]
  /\ taken'[s] = taken[s] /\ handled'[s] = handled[s]
  /\ popped'[s] = popped[s] /\ got'[s] = got[s] /\ heard'[s] = heard[s]

LEMMA SessionFrame ==
  ASSUME program' = program, NEW s \in Sessions, SessionSame(s)
  PROVE  /\ Publishes(s)' <=> Publishes(s)
         /\ Quiet(s)' <=> Quiet(s)
         /\ Fresh(s)' <=> Fresh(s)
         /\ InOrder(s) => InOrder(s)'
BY DEF SessionSame, Publishes, Quiet, Fresh, InOrder, InDoubt, InTransit

\* Goroutine h stays where it is, or in its own code.
Stays(h) ==
  /\ in'[h] = in[h]
  /\ in[h] # "caller" => /\ result'[h] = result[h]
                         /\ at'[h] = at[h]

LEMMA StaysFrame ==
  ASSUME Types, program' = program, started \subseteq started',
         NEW h \in Goroutines, PlaceMatches(h), Stays(h),
         Streams(h) => Knows(h),
         (Streams(h) /\ in[h] # "caller") => SessionSame(Op(h).s)
  PROVE  PlaceMatches(h)' /\ (Streams(h)' => Knows(h)')
<1>1. CASE in[h] = "caller"
  BY <1>1 DEF Stays, PlaceMatches, Knows
<1>2. CASE in[h] # "caller"
  <2>1. Op(h)' = Op(h)
    BY <1>2 DEF PlaceMatches, Stays, Op, NoOp
  <2>2. PlaceMatches(h)'
    BY <1>2, <2>1 DEF PlaceMatches, Stays, Streams
  <2>3. ASSUME Streams(h)' PROVE Knows(h)'
    <3>1. Streams(h) /\ SessionSame(Op(h).s) /\ Op(h).s \in Sessions
      BY <1>2, <2>1, <2>3, StreamFacts DEF Streams
    <3> QED
      BY <1>2, <2>1, <3>1, SessionFrame
         DEF Stays, Knows, Settled, SessionSame
  <2> QED
    BY <2>2, <2>3
<1> QED
  BY <1>1, <1>2

LEMMA InitInv == Init => ClientInv
<1> SUFFICES ASSUME Init PROVE ClientInv
  OBVIOUS
<1>1. \A s \in Sessions : Fresh(s) /\ Quiet(s) /\ s \notin eof
  BY DEF Init, Fresh, Quiet
<1>2. \A g \in Goroutines : in[g] = "caller"
  BY DEF Init
<1>3. PlacesMatch /\ ProgressInv
  BY <1>2 DEF PlacesMatch, PlaceMatches, ProgressInv, Knows
<1>4. HandlersMatch
  BY <1>1 DEF Fresh, HandlersMatch
<1>5. FreshUntilOpened
  <2> SUFFICES ASSUME NEW g \in Goroutines, NEW i \in 1..Len(program[g]),
                      program[g][i].op \in StreamOps
               PROVE  program[g][i].s \in Sessions
    BY <1>1 DEF FreshUntilOpened
  <2>1. program[g] \in Seq(Operations)
    BY ClientAssumption DEF Init
  <2> QED
    BY <2>1, ElementOfSeq, OpFacts DEF StreamOps
<1>6. StreamInv
  <2>1. <<>> \o <<>> = <<>>
    OBVIOUS
  <2> QED
    BY <1>1, <2>1 DEF StreamInv, InOrder, InTransit, Fresh
<1> QED
  BY <1>3, <1>4, <1>5, <1>6, InitTypes DEF ClientInv

\* Goroutine g goes from one operation to the next, or on in the library.
Advances(g) ==
  \/ at'[g] = at[g] + 1
  \/ /\ at'[g] = at[g]
     /\ in'[g] \in {"caller", "open"} => in[g] \in {"caller", "open"}

\* What opens no session leaves those to come as they are.
LEMMA FreshFrame ==
  ASSUME Types, FreshUntilOpened, program' = program,
         \A g \in Goroutines : Advances(g),
         \A g \in Goroutines : \A i \in 1..Len(program[g]) :
           (/\ program[g][i].op \in StreamOps
            /\ Fresh(program[g][i].s)
            /\ at'[g] < i \/ (at'[g] = i /\ in'[g] \in {"caller", "open"}))
             => Fresh(program[g][i].s)'
  PROVE  FreshUntilOpened'
<1> SUFFICES ASSUME NEW g \in Goroutines, NEW i \in 1..Len(program[g]),
                    program[g][i].op \in StreamOps,
                    \/ at'[g] < i
                    \/ at'[g] = i /\ in'[g] \in {"caller", "open"}
             PROVE  Fresh(program[g][i].s)'
  BY DEF FreshUntilOpened
<1>1. at[g] < i \/ (at[g] = i /\ in[g] \in {"caller", "open"})
  <2>1. at[g] \in Nat /\ i \in Nat
    BY DEF Types
  <2>2. CASE at'[g] = at[g] + 1
    BY <2>1, <2>2
  <2>3. CASE at'[g] = at[g]
    BY <2>1, <2>3 DEF Advances
  <2> QED
    BY <2>2, <2>3 DEF Advances
<1>2. Fresh(program[g][i].s)
  BY <1>1 DEF FreshUntilOpened
<1> QED
  BY <1>2

LEMMA SessionOfOp ==
  ASSUME Types, NEW g \in Goroutines, NEW i \in 1..Len(program[g]),
         program[g][i].op \in StreamOps
  PROVE  program[g][i].s \in Sessions
<1>1. program[g] \in Seq(Operations)
  BY ClientAssumption DEF Types
<1> QED
  BY <1>1, ElementOfSeq, OpFacts DEF StreamOps

\* No handler that drains sees its mailbox change.
MailboxKept ==
  \/ mailbox' = mailbox
  \/ /\ srvLock = NoOne
     /\ \A id \in DOMAIN mailbox' : mailbox'[id] \in Seq(Messages)

\* Goroutine g takes a step by itself that its stream does not notice.
LEMMA LocalFrame ==
  ASSUME ClientInv, NEW g \in Goroutines, program' = program,
         started' \subseteq Goroutines, started \subseteq started',
         in' \in [Goroutines -> Places],
         at' \in [Goroutines -> Nat \ {0}],
         result' \in [Goroutines -> {"none", "ok", "error"}],
         inflight' \subseteq Goroutines \X Nat,
         \A h \in Goroutines \ {g} : Stays(h) /\ at'[h] = at[h],
         Advances(g), PlaceMatches(g)', Streams(g)' => Knows(g)',
         MailboxKept,
         UNCHANGED <<hs, left, q, srvLock, up, down, eof,
                     taken, handled, popped, got, heard>>
  PROVE  ClientInv'
<1>1. \A s \in Sessions : SessionSame(s)
  BY DEF SessionSame
<1>2. Types'
  BY DEF ClientInv, Types, MailboxKept
<1>3. HandlersMatch' /\ StreamInv'
  <2>1. \A s \in Sessions : hs[s] = "send" => mailbox' = mailbox
    BY ClientAssumption DEF MailboxKept, ClientInv, HandlersMatch
  <2> QED
    BY <1>1, <2>1, SessionFrame DEF ClientInv, HandlersMatch, StreamInv
<1>4. FreshUntilOpened'
  <2>1. \A h \in Goroutines : Advances(h)
    BY DEF Advances, Stays
  <2> QED
    BY <1>1, <2>1, FreshFrame, SessionFrame, SessionOfOp DEF ClientInv
<1>5. PlacesMatch' /\ ProgressInv'
  <2>1. ASSUME NEW h \in Goroutines \ {g}
        PROVE  PlaceMatches(h)' /\ (Streams(h)' => Knows(h)')
    BY <1>1, StaysFrame, StreamFacts
       DEF ClientInv, PlacesMatch, ProgressInv
  <2> QED
    BY <2>1 DEF PlacesMatch, ProgressInv
<1> QED
  BY <1>2, <1>3, <1>4, <1>5 DEF ClientInv

\* The server takes a step for session s.
LEMMA ServerFrame ==
  ASSUME ClientInv, NEW s \in Sessions, hs[s] # "none",
         UNCHANGED <<program, started, at, in, result, taken, got, heard>>,
         Types', HandlersMatch', InOrder(s)',
         \A t \in Sessions \ {s} : SessionSame(t),
         \A g \in Goroutines :
           (Streams(g) /\ Op(g).s = s /\ Knows(g)) => Knows(g)'
  PROVE  ClientInv'
<1>1. StreamInv'
  BY SessionFrame DEF ClientInv, StreamInv
<1>2. FreshUntilOpened'
  <2>1. \A g \in Goroutines : Advances(g)
    BY DEF Advances
  <2>2. ~Fresh(s)
    BY DEF Fresh
  <2> QED
    BY <2>1, <2>2, FreshFrame, SessionFrame, SessionOfOp DEF ClientInv
<1>3. \A g \in Goroutines : Op(g)' = Op(g)
  BY DEF Op
<1>4. PlacesMatch'
  BY <1>3 DEF ClientInv, PlacesMatch, PlaceMatches, Streams
<1>5. ProgressInv'
  <2> SUFFICES ASSUME NEW g \in Goroutines, Streams(g)'
               PROVE  Knows(g)'
    BY DEF ProgressInv
  <2>1. Streams(g) /\ Knows(g) /\ PlaceMatches(g)
    BY <1>3 DEF ClientInv, PlacesMatch, ProgressInv, Streams
  <2>2. CASE Op(g).s # s
    BY <2>1, <2>2, StaysFrame, StreamFacts DEF ClientInv, Stays
  <2> QED
    BY <2>1, <2>2
<1> QED
  BY <1>1, <1>2, <1>4, <1>5 DEF ClientInv

\* Goroutine g goes on in its stream, and may meet another one.
LEMMA TalkFrame ==
  ASSUME ClientInv, NEW g \in Goroutines, Streams(g),
         NEW s \in Sessions, s = Op(g).s,
         UNCHANGED <<program, started>>,
         Types', HandlersMatch', InOrder(s)',
         \A t \in Sessions \ {s} : SessionSame(t),
         at'[g] = at[g], in'[g] \notin {"caller", "open"},
         \A h \in Goroutines \ {g} : Stays(h) /\ Advances(h),
         PlaceMatches(g)', Knows(g)'
  PROVE  ClientInv'
<1>1. StreamInv'
  BY SessionFrame DEF ClientInv, StreamInv
<1>2. FreshUntilOpened'
  <2>1. \A h \in Goroutines : Advances(h)
    BY DEF Advances
  <2>2. ASSUME NEW h \in Goroutines, NEW i \in 1..Len(program[h]),
               program[h][i].op \in StreamOps,
               Fresh(program[h][i].s),
               \/ at'[h] < i
               \/ at'[h] = i /\ in'[h] \in {"caller", "open"}
        PROVE  Fresh(program[h][i].s)'
    <3>1. at[g] \in Nat
      BY DEF ClientInv, Types
    <3>2. ~(h = g /\ i = at[g])
      BY <2>2, <3>1
    <3>3. program[h][i].s # s
      BY <2>2, <3>2, OneRun DEF ClientInv
    <3> QED
      BY <2>2, <3>3, SessionFrame, SessionOfOp DEF ClientInv
  <2> QED
    BY <2>1, <2>2, FreshFrame DEF ClientInv
<1>3. PlacesMatch' /\ ProgressInv'
  <2>1. ASSUME NEW h \in Goroutines \ {g}
        PROVE  PlaceMatches(h)' /\ (Streams(h)' => Knows(h)')
    <3>1. Streams(h) => SessionSame(Op(h).s)
      BY OneRunner, StreamFacts DEF ClientInv
    <3> QED
      BY <3>1, StaysFrame DEF ClientInv, PlacesMatch, ProgressInv
  <2> QED
    BY <2>1 DEF PlacesMatch, ProgressInv
<1> QED
  BY <1>1, <1>2, <1>3 DEF ClientInv
-----------------------------------------------------------------------------
(* Steps of one goroutine *)

\* A goroutine's step in its own code: to its next operation.
LEMMA OwnCode ==
  ASSUME ClientInv, NEW g \in Goroutines,
         Go(g) \/ CloseReq(g) \/ RangeDone(g)
  PROVE  ClientInv'
<1>1. /\ in[g] = "caller"
      /\ at' = [at EXCEPT ![g] = @ + 1]
      /\ UNCHANGED <<program, in, result, inflight, hs, left, q, mailbox,
                     srvLock, up, down, eof, taken, handled, popped, got,
                     heard>>
  BY DEF Go, CloseReq, RangeDone, Doing, libVars, streamVars, serverVars,
         history, callHistory, streamHistory, brokerVars
<1>2. started' \subseteq Goroutines /\ started \subseteq started'
  <2>1. CASE started' = started
    BY <2>1 DEF ClientInv, Types
  <2>2. CASE Go(g)
    <3>1. Op(g) \in Operations
      <4>1. program[g] \in Seq(Operations)
        BY ClientAssumption DEF ClientInv, Types
      <4> QED
        BY <2>2, <4>1, ElementOfSeq
           DEF Go, Doing, Op, NoOp, ClientInv, Types
    <3>2. Op(g).g \in Goroutines
      BY <2>2, <3>1 DEF Go, Doing, Operations
    <3> QED
      BY <2>2, <3>2 DEF Go, ClientInv, Types
  <2> QED
    BY <2>1, <2>2 DEF CloseReq, RangeDone
<1>3. PlaceMatches(g)' /\ Knows(g)'
  BY <1>1 DEF PlaceMatches, Knows
<1>4. /\ at' \in [Goroutines -> Nat \ {0}]
      /\ at'[g] = at[g] + 1
      /\ \A h \in Goroutines \ {g} : Stays(h) /\ at'[h] = at[h]
  BY <1>1 DEF ClientInv, Types, Stays
<1> QED
  BY <1>1, <1>2, <1>3, <1>4, LocalFrame
     DEF ClientInv, Types, Advances, MailboxKept

\* A step in the library that leaves the operation as it is.
LEMMA LibraryFrame ==
  ASSUME ClientInv, NEW g \in Goroutines,
         NEW p \in Places \ {"caller", "open"},
         NEW r \in {"none", "ok", "error"},
         in' = [in EXCEPT ![g] = p],
         result' = [result EXCEPT ![g] = r],
         inflight' \subseteq Goroutines \X Nat,
         UNCHANGED <<callerVars, hs, left, q, mailbox, srvLock, up, down, eof,
                     taken, handled, popped, got, heard>>,
         Op(g)' = Op(g) => PlaceMatches(g)' /\ (Streams(g)' => Knows(g)')
  PROVE  ClientInv'
<1>1. /\ in' \in [Goroutines -> Places] /\ in'[g] = p
      /\ result' \in [Goroutines -> {"none", "ok", "error"}]
      /\ UNCHANGED <<program, started, at>>
      /\ \A h \in Goroutines \ {g} : Stays(h) /\ at'[h] = at[h]
  BY DEF ClientInv, Types, Stays, callerVars
<1>2. Op(g)' = Op(g)
  BY <1>1 DEF Op
<1> QED
  BY <1>1, <1>2, LocalFrame
     DEF ClientInv, Types, Advances, MailboxKept

\* lock.Lock(), and the deferred calls.
LEMMA EntryAndExit ==
  ASSUME ClientInv, NEW g \in Goroutines,
         Enter(g) \/ CloseOut(g) \/ Return(g)
  PROVE  ClientInv'
<1>1. CASE Enter(g)
  <2>1. /\ in' \in [Goroutines -> Places] /\ in'[g] = "open"
        /\ in[g] = "caller"
        /\ Op(g).op \in {"call", "publish", "consume"}
        /\ result' \in [Goroutines -> {"none", "ok", "error"}]
        /\ UNCHANGED <<program, started, at>>
        /\ \A h \in Goroutines \ {g} : Stays(h) /\ at'[h] = at[h]
    BY <1>1 DEF Enter, ClientInv, Types, Places, Stays, callerVars
  <2>2. Op(g)' = Op(g)
    BY <2>1 DEF Op
  <2>3. PlaceMatches(g)' /\ Knows(g)'
    BY <2>1, <2>2 DEF PlaceMatches, Knows
  <2> QED
    BY <1>1, <2>1, <2>3, LocalFrame
       DEF Enter, ClientInv, Types, Advances, MailboxKept, streamVars,
           serverVars, history, callHistory, streamHistory, brokerVars
<1>2. CASE CloseOut(g)
  <2>1. /\ in' = [in EXCEPT ![g] = "return"] /\ in[g] = "close"
        /\ in'[g] = "return"
        /\ result' = result
        /\ UNCHANGED <<callerVars, inflight, hs, left, q, mailbox, srvLock, up,
                       down, eof, taken, handled, popped, got, heard>>
    BY <1>2 DEF CloseOut, Inside, ClientInv, Types, streamVars, serverVars,
                history, callHistory, streamHistory, brokerVars
  <2>2. PlaceMatches(g) /\ (Streams(g) => Knows(g))
    BY DEF ClientInv, PlacesMatch, ProgressInv
  <2>3. ASSUME Op(g)' = Op(g)
        PROVE  PlaceMatches(g)' /\ (Streams(g)' => Knows(g)')
    BY <2>1, <2>2, <2>3
       DEF PlaceMatches, Knows, Streams, Settled, Quiet
  <2>4. result' = [result EXCEPT ![g] = result[g]]
    BY <2>1 DEF ClientInv, Types
  <2> QED
    BY <2>1, <2>3, <2>4, LibraryFrame DEF ClientInv, Types, Places
<1>3. CASE Return(g)
  <2>1. /\ in' \in [Goroutines -> Places] /\ in'[g] = "caller"
        /\ at' \in [Goroutines -> Nat \ {0}] /\ at'[g] = at[g] + 1
        /\ UNCHANGED <<program, started, result>>
        /\ \A h \in Goroutines \ {g} : Stays(h) /\ at'[h] = at[h]
    BY <1>3 DEF Return, ClientInv, Types, Places, Stays
  <2>2. PlaceMatches(g)' /\ Knows(g)'
    BY <2>1 DEF PlaceMatches, Knows
  <2> QED
    BY <1>3, <2>1, <2>2, LocalFrame
       DEF Return, ClientInv, Types, Advances, MailboxKept, streamVars,
           serverVars, history, callHistory, streamHistory, brokerVars
<1> QED
  BY <1>1, <1>2, <1>3

\* The steps of a unary call, and the end of a stream.
LEMMA UnarySteps ==
  ASSUME ClientInv, NEW g \in Goroutines,
         Invokes(g) \/ CallReturns(g) \/ CallFails(g)
  PROVE  ClientInv'
<1>1. PlaceMatches(g)
  BY DEF ClientInv, PlacesMatch
<1>2. Op(g).op = "call"
  BY <1>1 DEF Invokes, CallReturns, CallFails, Inside, PlaceMatches
<1>3. PICK p \in {"invoke", "return"}, r \in {"none", "ok", "error"} :
        /\ in' = [in EXCEPT ![g] = p]
        /\ result' = [result EXCEPT ![g] = r]
        /\ in'[g] = p
  <2>1. CASE Invokes(g)
    BY <2>1 DEF Invokes, ClientInv, Types
  <2>2. CASE CallReturns(g) \/ CallFails(g)
    BY <1>2, <2>2 DEF CallReturns, CallFails, Leaves, ClientInv, Types
  <2> QED
    BY <2>1, <2>2
<1>4. /\ UNCHANGED <<callerVars, hs, left, q, mailbox, srvLock, up, down, eof,
                     taken, handled, popped, got, heard>>
      /\ inflight' \subseteq Goroutines \X Nat
  BY DEF Invokes, CallReturns, CallFails, streamVars, serverVars, history,
         callHistory, streamHistory, brokerVars, ClientInv, Types
<1>5. ASSUME Op(g)' = Op(g)
      PROVE  PlaceMatches(g)' /\ (Streams(g)' => Knows(g)')
  BY <1>2, <1>3, <1>5 DEF PlaceMatches, Streams
<1> QED
  BY <1>3, <1>4, <1>5, LibraryFrame DEF Places

LEMMA StreamEnds ==
  ASSUME ClientInv, NEW g \in Goroutines,
         OpenFails(g) \/ RecvEOF(g) \/ RecvFails(g)
  PROVE  ClientInv'
<1>1. PlaceMatches(g) /\ (Streams(g) => Knows(g))
  BY DEF ClientInv, PlacesMatch, ProgressInv
<1>2. Streams(g)
  BY <1>1 DEF OpenFails, RecvEOF, RecvFails, Inside, PlaceMatches, Streams
<1>3. PICK p \in {"close", "return"}, r \in {"ok", "error"} :
        /\ in' = [in EXCEPT ![g] = p] /\ in'[g] = p
        /\ result' = [result EXCEPT ![g] = r] /\ result'[g] = r
        /\ p = "close" => Op(g).op = "consume"
        /\ r = "ok" => RecvEOF(g)
  BY DEF OpenFails, RecvEOF, RecvFails, Leaves, ClientInv, Types
<1>4. UNCHANGED <<callerVars, inflight, hs, left, q, mailbox, srvLock, up,
                  down, eof, taken, handled, popped, got, heard>>
  BY DEF OpenFails, RecvEOF, RecvFails, streamVars, serverVars, history,
         callHistory, streamHistory, brokerVars
<1>5. RecvEOF(g) => Settled(g)
  BY <1>1, <1>2 DEF RecvEOF, Settled, Knows, PlaceMatches, Streams
<1>6. ASSUME Op(g)' = Op(g)
      PROVE  PlaceMatches(g)' /\ Knows(g)'
  BY <1>2, <1>3, <1>4, <1>5, <1>6
     DEF PlaceMatches, Streams, Knows, Settled, Quiet
<1> QED
  BY <1>3, <1>4, <1>6, LibraryFrame DEF ClientInv, Types, Places

LEMMA RangeEnds ==
  ASSUME ClientInv, NEW g \in Goroutines, RangeEnd(g)
  PROVE  ClientInv'
<1>1. PlaceMatches(g) /\ (Streams(g) => Knows(g))
  BY DEF ClientInv, PlacesMatch, ProgressInv
<1>2. /\ in' = [in EXCEPT ![g] = "flush"] /\ in'[g] = "flush"
      /\ in[g] = "next"
      /\ result' = [result EXCEPT ![g] = result[g]]
      /\ UNCHANGED <<callerVars, inflight, hs, left, q, mailbox, srvLock, up,
                     down, eof, taken, handled, popped, got, heard>>
  BY DEF RangeEnd, Inside, ClientInv, Types, serverVars, history, callHistory,
         streamHistory, brokerVars
<1>3. ASSUME Op(g)' = Op(g)
      PROVE  PlaceMatches(g)' /\ (Streams(g)' => Knows(g)')
  BY <1>1, <1>2, <1>3 DEF PlaceMatches, Streams, Knows, Quiet
<1> QED
  BY <1>2, <1>3, LibraryFrame DEF ClientInv, Types, Places

LEMMA MethodMailboxes ==
  ASSUME Types, NEW m, NEW id, NEW answer, ServerMethod(m, id, answer)
  PROVE  MailboxKept
<1>1. <<>> \in Seq(Messages)
  BY EmptySeq
<1> QED
  BY <1>1 DEF ServerMethod, MailboxKept, Types, brokerVars

\* The handler of a unary call may run when its caller no longer waits.
LEMMA HandlerRuns ==
  ASSUME ClientInv, NEW call \in inflight, ServerRuns(call[1], call[2])
  PROVE  ClientInv'
<1> PICK g \in Goroutines, i \in Nat : ServerRuns(g, i)
  BY DEF ClientInv, Types
<1>1. PICK p \in {"reply", "refused", in[g]} :
        /\ in' = [in EXCEPT ![g] = p] /\ in'[g] = p
        /\ p # in[g] => in[g] = "invoke"
  BY DEF ServerRuns, Inside, ClientInv, Types
<1>2. /\ UNCHANGED <<callerVars, result, hs, left, q, srvLock, up, down,
                     eof, taken, handled, popped, got, heard>>
      /\ inflight' \subseteq inflight
  BY DEF ServerRuns, streamVars, streamHistory
<1>2a. MailboxKept
  BY MethodMailboxes DEF ServerRuns, ClientInv
<1>3. /\ in' \in [Goroutines -> Places]
      /\ UNCHANGED <<program, started, at>>
      /\ \A h \in Goroutines \ {g} : Stays(h) /\ at'[h] = at[h]
  BY <1>1, <1>2 DEF ClientInv, Types, Places, Stays, callerVars
<1>4. Op(g)' = Op(g)
  BY <1>3 DEF Op
<1>5. PlaceMatches(g) /\ (Streams(g) => Knows(g))
  BY DEF ClientInv, PlacesMatch, ProgressInv
<1>6. PlaceMatches(g)' /\ (Streams(g)' => Knows(g)')
  BY <1>1, <1>2, <1>4, <1>5
     DEF PlaceMatches, Streams, Knows, Settled, Quiet
<1> QED
  BY <1>1, <1>2, <1>2a, <1>3, <1>6, LocalFrame
     DEF ClientInv, Types, Advances
-----------------------------------------------------------------------------
(* Steps of the server *)

\* What a goroutine knows of its stream, the server does not take away.
LEMMA KnowsFrame ==
  ASSUME Types, NEW s \in Sessions,
         UNCHANGED <<program, started, at, in, result, got, heard>>,
         Publishes(s) /\ Quiet(s) => Quiet(s)',
         (~Publishes(s) /\ s \in eof /\ down[s] = <<>>)
           => s \in eof' /\ down'[s] = <<>>
  PROVE  \A g \in Goroutines :
           (Streams(g) /\ Op(g).s = s /\ Knows(g)) => Knows(g)'
<1> SUFFICES ASSUME NEW g \in Goroutines, Streams(g), Op(g).s = s, Knows(g)
             PROVE  Knows(g)'
  OBVIOUS
<1>1. Op(g)' = Op(g)
  BY DEF Op
<1>2. Publishes(s) <=> Op(g).op = "publish"
  BY KindOfSession
<1>3. Op(g).op = "publish" => (Quiet(s) => Quiet(s)')
  BY <1>2
<1>4. Settled(g) => Settled(g)'
  BY <1>1, <1>2, <1>3 DEF Settled
<1> QED
  BY <1>1, <1>3, <1>4 DEF Knows

\* A step without a lock: q, mailbox, left and the handler that drains stay.
LEMMA MatchFrame ==
  ASSUME ClientInv, NEW s \in Sessions, program' = program,
         UNCHANGED <<left, q, mailbox, srvLock>>,
         \A t \in Sessions \ {s} : SessionSame(t),
         hs'[s] # "send",
         hs'[s] \in {"Publish", "ack"} => Publishes(s),
         hs'[s] = "Consume" => ~Publishes(s),
         s \in eof' => hs'[s] = "done"
  PROVE  HandlersMatch'
<1>1. \A t \in Sessions : Publishes(t)' <=> Publishes(t)
  BY DEF Publishes
<1> QED
  BY <1>1 DEF ClientInv, HandlersMatch, SessionSame

LEMMA ServerPublishInv ==
  ASSUME ClientInv, NEW s \in Sessions, ServerPublish(s)
  PROVE  ClientInv'
<1>1. Publishes(s) /\ s \notin eof
  BY DEF ServerPublish, ClientInv, HandlersMatch
<1>2. PICK v \in Messages :
        /\ taken[s] = Append(got[s], v) /\ up[s] = <<v>>
        /\ down[s] = <<>> /\ handled[s] = got[s]
  BY <1>1 DEF ServerPublish, ClientInv, StreamInv, InOrder, Quiet, InDoubt
<1>3. Head(<<v>>) = v /\ Tail(<<v>>) = <<>> /\ <<v>> # <<>>
  OBVIOUS
<1>4. /\ hs' = [hs EXCEPT ![s] = "ack"]
      /\ up' = [up EXCEPT ![s] = <<>>]
      /\ handled' = [handled EXCEPT ![s] = Append(got[s], v)]
      /\ mailbox' = [id \in DOMAIN mailbox |-> Append(mailbox[id], v)]
      /\ srvLock = NoOne
      /\ UNCHANGED <<program, started, at, in, result, inflight, down, eof,
                     srvLock, left, q, taken, popped, got, heard>>
  BY <1>2, <1>3 DEF ServerPublish, callerVars, libVars
<1>5. Types'
  <2>1. \A id \in DOMAIN mailbox' : mailbox'[id] \in Seq(Messages)
    BY <1>4, AppendFacts DEF ClientInv, Types
  <2> QED
    BY <1>4, <2>1, AppendFacts, EmptySeq DEF ClientInv, Types
<1>6. /\ hs'[s] = "ack" /\ up'[s] = <<>> /\ handled'[s] = Append(got[s], v)
      /\ \A t \in Sessions \ {s} : SessionSame(t)
  BY <1>4 DEF ClientInv, Types, SessionSame
<1>7. InOrder(s)'
  BY <1>1, <1>2, <1>4, <1>6 DEF InOrder, InDoubt, Publishes
<1>8. HandlersMatch'
  <2>1. \A t \in Sessions : Publishes(t)' <=> Publishes(t)
    BY <1>4 DEF Publishes
  <2>2. \A t \in Sessions : hs[t] # "send"
    BY <1>4, ClientAssumption DEF ClientInv, HandlersMatch
  <2> QED
    BY <1>1, <1>4, <1>6, <2>1, <2>2
       DEF ClientInv, HandlersMatch, SessionSame
<1>9. ~Quiet(s)
  BY <1>2, <1>3 DEF Quiet
<1>10. \A g \in Goroutines :
         (Streams(g) /\ Op(g).s = s /\ Knows(g)) => Knows(g)'
  BY <1>1, <1>4, <1>9, KnowsFrame DEF ClientInv
<1>11. hs[s] # "none"
  BY DEF ServerPublish
<1> QED
  BY <1>4, <1>5, <1>6, <1>7, <1>8, <1>10, <1>11, ServerFrame

LEMMA ServerAckInv ==
  ASSUME ClientInv, NEW s \in Sessions, ServerAck(s)
  PROVE  ClientInv'
<1>1. Publishes(s) /\ s \notin eof /\ hs[s] = "ack"
  BY DEF ServerAck, ClientInv, HandlersMatch
<1>2. PICK v \in Messages :
        /\ taken[s] = Append(got[s], v) /\ handled[s] = taken[s]
        /\ up[s] = <<>> /\ down[s] = <<>>
  BY <1>1 DEF ClientInv, StreamInv, InOrder, Quiet, InDoubt
<1>3. Last(handled[s]) = v /\ Append(<<>>, v) = <<v>> /\ taken[s] # got[s]
  BY <1>2, AppendFacts DEF ClientInv, Types
<1>4. PICK d \in {<<>>, <<v>>}, p \in {"Publish", "done"} :
        /\ hs' = [hs EXCEPT ![s] = p]
        /\ down' = [down EXCEPT ![s] = d]
        /\ d = <<v>> \/ p = "done"
  <2>1. CASE s \in cut
    <3>1. down' = [down EXCEPT ![s] = <<>>]
      BY <1>2, <2>1 DEF ServerAck, ClientInv, Types
    <3> QED
      BY <2>1, <3>1 DEF ServerAck
  <2>2. CASE s \notin cut
    BY <1>2, <1>3, <2>2 DEF ServerAck
  <2> QED
    BY <2>1, <2>2
<1>5. UNCHANGED <<program, started, at, in, result, inflight, up, eof,
                  q, mailbox, srvLock, left, taken, handled, popped,
                  got, heard>>
  BY DEF ServerAck, callerVars, libVars, history, callHistory, streamHistory,
         brokerVars
<1>6. <<>> \in Seq(Messages) /\ <<v>> \in Seq(Messages)
  BY EmptySeq
<1>7. Types'
  BY <1>4, <1>5, <1>6 DEF ClientInv, Types
<1>8. /\ hs'[s] = p /\ down'[s] = d
      /\ \A t \in Sessions \ {s} : SessionSame(t)
  BY <1>4, <1>5 DEF ClientInv, Types, SessionSame
<1>9. InOrder(s)'
  BY <1>1, <1>2, <1>4, <1>5, <1>8 DEF InOrder, InDoubt, Publishes
<1>10. HandlersMatch'
  BY <1>1, <1>4, <1>5, <1>8, MatchFrame
<1>11. ~Quiet(s)
  BY <1>1 DEF Quiet
<1>12. \A g \in Goroutines :
         (Streams(g) /\ Op(g).s = s /\ Knows(g)) => Knows(g)'
  BY <1>1, <1>5, <1>11, KnowsFrame DEF ClientInv
<1> QED
  BY <1>1, <1>5, <1>7, <1>8, <1>9, <1>10, <1>12, ServerFrame

\* The handler ends, and what is under way stays as it is.
LEMMA ServerEndsInv ==
  ASSUME ClientInv, NEW s \in Sessions, ServerEOF(s) \/ ServerRecvFails(s)
  PROVE  ClientInv'
<1>1. /\ hs[s] \in {"Publish", "Consume"} /\ s \notin eof
      /\ hs[s] = "Consume" => ~Publishes(s)
      /\ hs[s] = "Publish" => Publishes(s)
      /\ ServerEOF(s) => hs[s] = "Publish"
  BY DEF ServerEOF, ServerRecvFails, ClientInv, HandlersMatch
<1>2. /\ hs' = [hs EXCEPT ![s] = "done"]
      /\ eof' \in {eof, eof \cup {s}}
      /\ eof' # eof => Publishes(s)
      /\ UNCHANGED <<program, started, at, in, result, inflight, up, down,
                     q, mailbox, srvLock, left, taken, handled, popped,
                     got, heard>>
  BY <1>1 DEF ServerEOF, ServerRecvFails, callerVars, libVars, streamVars,
              history, callHistory, streamHistory, brokerVars
<1>3. Types'
  BY <1>2 DEF ClientInv, Types
<1>4. /\ hs'[s] = "done"
      /\ \A t \in Sessions \ {s} : SessionSame(t)
  BY <1>2 DEF ClientInv, Types, SessionSame
<1>5. InOrder(s)'
  <2>1. CASE Publishes(s)
    <3>1. Quiet(s) => Quiet(s)'
      BY <1>2, <1>4 DEF Quiet
    <3>2. InDoubt(s) => InDoubt(s)'
      BY <1>1, <1>2, <1>4, <2>1 DEF InDoubt
    <3> QED
      BY <1>2, <2>1, <3>1, <3>2
         DEF ClientInv, StreamInv, InOrder, Publishes
  <2>2. CASE ~Publishes(s)
    BY <1>1, <1>2, <1>4, <2>2 DEF InOrder, InTransit, Publishes
  <2> QED
    BY <2>1, <2>2
<1>6. HandlersMatch'
  BY <1>2, <1>4, MatchFrame
<1>7. Quiet(s) => Quiet(s)'
  BY <1>2, <1>4 DEF Quiet
<1>8. \A g \in Goroutines :
         (Streams(g) /\ Op(g).s = s /\ Knows(g)) => Knows(g)'
  BY <1>1, <1>2, <1>7, KnowsFrame DEF ClientInv
<1> QED
  BY <1>1, <1>2, <1>3, <1>4, <1>5, <1>6, <1>8, ServerFrame

\* The steps of Consume's handler, with the lock.
LEMMA ConsumerFrame ==
  ASSUME ClientInv, NEW s \in Sessions, hs[s] \in {"Consume", "send"},
         UNCHANGED <<program, started, at, in, result, taken, got, heard>>,
         Types', InTransit(s)', srvLock \in {NoOne, s},
         \A t \in Sessions \ {s} : SessionSame(t),
         hs'[s] \in {"send", "done"},
         hs'[s] = "send" => /\ srvLock' = s
                            /\ q'[s] \in DOMAIN mailbox'
                            /\ left'[s] = Len(mailbox'[q'[s]]),
         s \in eof' => hs'[s] = "done"
  PROVE  ClientInv'
<1>1. ~Publishes(s) /\ s \notin eof
  BY DEF ClientInv, HandlersMatch
<1>2. \A t \in Sessions : Publishes(t)' <=> Publishes(t)
  BY DEF Publishes
<1>3. \A t \in Sessions \ {s} : hs[t] # "send"
  BY ClientAssumption DEF ClientInv, HandlersMatch
<1>4. HandlersMatch'
  BY <1>1, <1>2, <1>3 DEF ClientInv, HandlersMatch, SessionSame
<1>5. InOrder(s)'
  BY <1>1, <1>2 DEF InOrder
<1>6. \A g \in Goroutines :
         (Streams(g) /\ Op(g).s = s /\ Knows(g)) => Knows(g)'
  BY <1>1, KnowsFrame DEF ClientInv
<1> QED
  BY <1>4, <1>5, <1>6, ServerFrame

LEMMA ServerCountInv ==
  ASSUME ClientInv, NEW s \in Sessions, ServerCount(s)
  PROVE  ClientInv'
<1>1. PICK id \in DOMAIN mailbox :
        /\ hs' = [hs EXCEPT ![s] = "send"]
        /\ up' = [up EXCEPT ![s] = Tail(up[s])]
        /\ q' = [q EXCEPT ![s] = id]
        /\ left' = [left EXCEPT ![s] = Len(mailbox[id])]
        /\ srvLock' = s /\ srvLock = NoOne
        /\ hs[s] = "Consume" /\ up[s] # <<>>
        /\ UNCHANGED <<program, started, at, in, result, inflight, down, eof,
                       mailbox, taken, handled, popped, got, heard>>
  BY DEF ServerCount, Asks, callerVars, libVars, history, callHistory,
         streamHistory, brokerVars
<1>2. Tail(up[s]) \in Seq(Messages) /\ Len(mailbox[id]) \in Nat
  BY <1>1, HeadTailProperties, LenProperties
     DEF ClientInv, Types
<1>3. q'[s] = id /\ q' = [t \in Sessions |-> q'[t]]
  BY <1>1 DEF ClientInv, Types
<1>4. Types'
  BY <1>1, <1>2, <1>3 DEF ClientInv, Types
<1>5. /\ hs'[s] = "send" /\ left'[s] = Len(mailbox'[q'[s]])
      /\ q'[s] \in DOMAIN mailbox'
      /\ \A t \in Sessions \ {s} : SessionSame(t)
  BY <1>1, <1>3 DEF ClientInv, Types, SessionSame
<1>6. InTransit(s)' /\ s \notin eof'
  BY <1>1
     DEF ClientInv, HandlersMatch, StreamInv, InOrder, InTransit
<1> QED
  BY <1>1, <1>4, <1>5, <1>6, ConsumerFrame

\* The value a Consume that drains takes next.
LEMMA NextValue ==
  ASSUME Types, HandlersMatch, NEW s \in Sessions, ServerSend(s)
  PROVE  /\ q[s] \in DOMAIN mailbox
         /\ mailbox[q[s]] \in Seq(Messages) /\ mailbox[q[s]] # <<>>
         /\ Head(mailbox[q[s]]) \in Messages
         /\ Tail(mailbox[q[s]]) \in Seq(Messages)
         /\ Len(Tail(mailbox[q[s]])) = left[s] - 1
<1>1. /\ q[s] \in DOMAIN mailbox
      /\ left[s] = Len(mailbox[q[s]]) /\ left[s] > 0
  BY DEF ServerSend, HandlersMatch
<1>2. mailbox[q[s]] \in Seq(Messages)
  BY <1>1 DEF Types
<1>3. mailbox[q[s]] # <<>>
  BY <1>1, EmptySeq
<1> QED
  BY <1>1, <1>2, <1>3, HeadTailProperties

LEMMA ServerSendInv ==
  ASSUME ClientInv, NEW s \in Sessions, ServerSend(s)
  PROVE  ClientInv'
<1>1. hs[s] = "send" /\ s \notin eof /\ srvLock = s /\ ~Publishes(s)
  BY DEF ServerSend, ClientInv, HandlersMatch
<1>2. PICK x \in Messages, r \in Seq(Messages) :
        /\ q[s] \in DOMAIN mailbox
        /\ x = Head(mailbox[q[s]])
        /\ r = Tail(mailbox[q[s]]) /\ Len(r) = left[s] - 1
  BY NextValue DEF ClientInv
<1>3. left[s] \in Nat /\ left[s] > 0
  BY DEF ServerSend, ClientInv, Types
<1>4. /\ mailbox' = [mailbox EXCEPT ![q[s]] = r]
      /\ popped' = [popped EXCEPT ![s] = Append(popped[s], x)]
      /\ UNCHANGED <<program, started, at, in, result, inflight, up, eof,
                     q, srvLock, taken, handled, got, heard>>
  BY <1>2 DEF ServerSend, callerVars, libVars
<1>5. /\ \A id \in DOMAIN mailbox' : mailbox'[id] \in Seq(Messages)
      /\ q'[s] \in DOMAIN mailbox'
      /\ Len(mailbox'[q'[s]]) = left[s] - 1
  BY <1>2, <1>4 DEF ClientInv, Types
<1>6. CASE s \in cut
  <2>1. hs' = [hs EXCEPT ![s] = "done"] /\ UNCHANGED <<down, left>>
    BY <1>6 DEF ServerSend
  <2>2. Types'
    BY <1>4, <1>5, <2>1, AppendFacts DEF ClientInv, Types
  <2>3. /\ hs'[s] = "done" /\ s \notin eof'
        /\ \A t \in Sessions \ {s} : SessionSame(t)
    BY <1>1, <1>4, <2>1 DEF ClientInv, Types, SessionSame
  <2>4. InTransit(s)'
    BY <2>3 DEF InTransit
  <2> QED
    BY <1>1, <1>4, <2>2, <2>3, <2>4, ConsumerFrame
<1>7. CASE s \notin cut
  <2>1. /\ down' = [down EXCEPT ![s] = Append(down[s], x)]
        /\ left' = [left EXCEPT ![s] = left[s] - 1]
        /\ hs' = hs
    BY <1>2, <1>7 DEF ServerSend
  <2>2. left[s] - 1 \in Nat
    BY <1>3
  <2>3. Types'
    BY <1>4, <1>5, <2>1, <2>2, AppendFacts DEF ClientInv, Types
  <2>4. /\ hs'[s] = "send" /\ s \notin eof'
        /\ down'[s] = Append(down[s], x) /\ popped'[s] = Append(popped[s], x)
        /\ left'[s] = Len(mailbox'[q'[s]])
        /\ \A t \in Sessions \ {s} : SessionSame(t)
    BY <1>1, <1>4, <1>5, <2>1 DEF ClientInv, Types, SessionSame
  <2>5. popped[s] = got[s] \o down[s]
    BY <1>1 DEF ClientInv, StreamInv, InOrder, InTransit
  <2>6. got[s] \o Append(down[s], x) = Append(got[s] \o down[s], x)
    BY ConcatAppend DEF ClientInv, Types
  <2>7. InTransit(s)'
    BY <1>4, <2>4, <2>5, <2>6 DEF InTransit
  <2> QED
    BY <1>1, <1>4, <1>5, <2>3, <2>4, <2>7, ConsumerFrame
<1> QED
  BY <1>6, <1>7

LEMMA ServerFinishInv ==
  ASSUME ClientInv, NEW s \in Sessions, ServerFinish(s)
  PROVE  ClientInv'
<1>1. /\ hs' = [hs EXCEPT ![s] = "done"] /\ hs[s] = "send"
      /\ eof' = eof \cup {s}
      /\ UNCHANGED <<program, started, at, in, result, inflight, up, down,
                     left, q, mailbox, taken, handled, popped, got, heard>>
  BY DEF ServerFinish, callerVars, libVars, history, callHistory,
         streamHistory, brokerVars
<1>2. Types'
  BY <1>1 DEF ClientInv, Types
<1>3. /\ hs'[s] = "done"
      /\ \A t \in Sessions \ {s} : SessionSame(t)
  BY <1>1 DEF ClientInv, Types, SessionSame
<1>4. InTransit(s)' /\ srvLock = s
  BY <1>1
     DEF ClientInv, HandlersMatch, StreamInv, InOrder, InTransit
<1> QED
  BY <1>1, <1>2, <1>3, <1>4, ConsumerFrame
-----------------------------------------------------------------------------
(* Steps of a goroutine in its stream *)

LEMMA OpTypes ==
  ASSUME Types, NEW g \in Goroutines, Op(g).op # "none"
  PROVE  Op(g) \in Operations
<1>1. program[g] \in Seq(Operations)
  BY ClientAssumption DEF Types
<1>2. at[g] \in 1..Len(program[g]) /\ Op(g) = program[g][at[g]]
  BY <1>1 DEF Types, Op, NoOp
<1> QED
  BY <1>1, <1>2, ElementOfSeq

\* A stream is untouched when its operation opens it.
LEMMA OpenFacts ==
  ASSUME ClientInv, NEW g \in Goroutines, in[g] = "open", Streams(g)
  PROVE  Fresh(Op(g).s) /\ Op(g).s \notin eof
<1>1. Fresh(Op(g).s)
  BY StreamFacts DEF ClientInv, FreshUntilOpened, Streams, StreamOps
<1> QED
  BY <1>1, StreamFacts DEF ClientInv, HandlersMatch, Fresh

LEMMA PublishOpenInv ==
  ASSUME ClientInv, NEW g \in Goroutines, PublishOpen(g)
  PROVE  ClientInv'
<1>1. Op(g).op = "publish" /\ Streams(g) /\ in[g] = "open"
  BY DEF PublishOpen, Inside, Streams
<1>2. PICK s \in Sessions : s = Op(g).s
  BY <1>1, StreamFacts DEF ClientInv
<1>3. Fresh(s) /\ s \notin eof /\ Publishes(s)
  BY <1>1, <1>2, OpenFacts, KindOfSession DEF ClientInv
<1>4. /\ hs' = [hs EXCEPT ![s] = "Publish"]
      /\ in' = [in EXCEPT ![g] = "next"]
      /\ UNCHANGED <<program, started, at, result, inflight, up, down, eof,
                     srvLock, left, q, mailbox, taken, handled, popped,
                     got, heard>>
  BY <1>2, StreamsAreDispatched
     DEF PublishOpen, callerVars, streamVars, history, callHistory,
         streamHistory, brokerVars
<1>5. Types'
  BY <1>4 DEF ClientInv, Types, Places
<1>6. /\ hs'[s] = "Publish" /\ in'[g] = "next"
      /\ \A t \in Sessions \ {s} : SessionSame(t)
      /\ \A h \in Goroutines \ {g} : Stays(h) /\ Advances(h)
      /\ Op(g)' = Op(g)
  BY <1>4 DEF ClientInv, Types, SessionSame, Stays, Advances, Op
<1>7. HandlersMatch'
  BY <1>3, <1>4, <1>6, MatchFrame
<1>8. Quiet(s)' /\ InOrder(s)'
  BY <1>3, <1>4, <1>6 DEF Quiet, InOrder, Fresh, Publishes
<1>9. PlaceMatches(g)' /\ Knows(g)'
  BY <1>1, <1>2, <1>3, <1>4, <1>6, <1>8 DEF PlaceMatches, Knows, Fresh
<1> QED
  BY <1>1, <1>2, <1>4, <1>5, <1>6, <1>7, <1>8, <1>9, TalkFrame

LEMMA ConsumeOpenInv ==
  ASSUME ClientInv, NEW g \in Goroutines, ConsumeOpen(g)
  PROVE  ClientInv'
<1>1. Op(g).op = "consume" /\ Streams(g) /\ in[g] = "open"
  BY DEF ConsumeOpen, Inside, Streams
<1>2. PICK s \in Sessions : s = Op(g).s
  BY <1>1, StreamFacts DEF ClientInv
<1>3. Fresh(s) /\ s \notin eof /\ ~Publishes(s)
  BY <1>1, <1>2, OpenFacts, KindOfSession DEF ClientInv
<1>4. /\ hs' = [hs EXCEPT ![s] = "Consume"]
      /\ up' = [up EXCEPT ![s] = <<Op(g).id>>]
      /\ in' = [in EXCEPT ![g] = "recv"]
      /\ UNCHANGED <<program, started, at, result, inflight, down, eof,
                     srvLock, left, q, mailbox, taken, handled, popped,
                     got, heard>>
  BY <1>2, StreamsAreDispatched DEF ConsumeOpen, callerVars, history,
                                    callHistory, streamHistory, brokerVars
<1>5. <<Op(g).id>> \in Seq(Messages)
  <2>1. Op(g).id \in Messages
    BY <1>1, StreamFacts, OpFacts DEF ClientInv, Messages
  <2> QED
    BY <2>1
<1>6. Types'
  BY <1>4, <1>5 DEF ClientInv, Types, Places
<1>7. /\ hs'[s] = "Consume" /\ in'[g] = "recv"
      /\ \A t \in Sessions \ {s} : SessionSame(t)
      /\ \A h \in Goroutines \ {g} : Stays(h) /\ Advances(h)
      /\ Op(g)' = Op(g)
  BY <1>4 DEF ClientInv, Types, SessionSame, Stays, Advances, Op
<1>8. HandlersMatch'
  BY <1>3, <1>4, <1>7, MatchFrame
<1>9. InOrder(s)'
  <2>1. <<>> \o <<>> = <<>>
    OBVIOUS
  <2> QED
    BY <1>3, <1>4, <2>1 DEF InOrder, InTransit, Fresh, Publishes
<1>10. PlaceMatches(g)' /\ Knows(g)'
  BY <1>1, <1>2, <1>3, <1>4, <1>7 DEF PlaceMatches, Knows, Fresh
<1> QED
  BY <1>1, <1>2, <1>4, <1>6, <1>7, <1>8, <1>9, <1>10, TalkFrame

LEMMA TakeInv ==
  ASSUME ClientInv, NEW g \in Goroutines, NEW h \in Goroutines, Take(g, h)
  PROVE  ClientInv'
<1>1. /\ in[g] = "next" /\ in[h] = "caller" /\ h # g
      /\ Op(h).op = "send" /\ Op(h).s = Op(g).s
  BY DEF Take, Hands, Doing, Inside
<1>2. Op(g).op = "publish" /\ Streams(g)
  BY <1>1 DEF ClientInv, PlacesMatch, PlaceMatches, Streams
<1>3. PICK s \in Sessions : s = Op(g).s
  BY <1>2, StreamFacts DEF ClientInv
<1>4. PICK v \in Messages : v = Op(h).v
  BY <1>1, OpTypes, OpFacts DEF ClientInv, Messages
<1>5. Publishes(s) /\ Quiet(s) /\ Knows(g)
  BY <1>1, <1>2, <1>3, KindOfSession DEF ClientInv, ProgressInv, Knows
<1>6. PICK p \in {"ack", "return"}, r \in {result[g], "error"},
           u \in {<<>>, <<v>>} :
        /\ in' = [in EXCEPT ![g] = p]
        /\ result' = [result EXCEPT ![g] = r]
        /\ up' = [up EXCEPT ![s] = u]
        /\ p = "return" => r = "error"
  <2>1. CASE s \in cut
    <3>1. up' = [up EXCEPT ![s] = <<>>]
      BY <1>3, <1>5, <2>1 DEF Take, Quiet, ClientInv, Types
    <3> QED
      BY <1>2, <1>3, <2>1, <3>1 DEF Take, Leaves
  <2>2. CASE s \notin cut
    <3>1. Append(<<>>, v) = <<v>>
      OBVIOUS
    <3> QED
      BY <1>3, <1>4, <1>5, <2>2, <3>1
         DEF Take, Quiet, ClientInv, Types
  <2> QED
    BY <2>1, <2>2
<1>7. /\ taken' = [taken EXCEPT ![s] = Append(taken[s], v)]
      /\ at' = [at EXCEPT ![h] = at[h] + 1]
      /\ UNCHANGED <<program, started, inflight, hs, down, eof, srvLock, left,
                     q, mailbox, handled, popped, got, heard>>
  BY <1>3, <1>4 DEF Take, serverVars, brokerVars
<1>8. Types'
  <2>1. up' \in [Sessions -> Seq(Messages)]
    <3>1. <<>> \in Seq(Messages) /\ <<v>> \in Seq(Messages)
      BY EmptySeq
    <3> QED
      BY <1>6, <3>1 DEF ClientInv, Types
  <2>2. taken' \in [Sessions -> Seq(Messages)]
    <3>1. taken[s] \in Seq(Messages)
      BY DEF ClientInv, Types
    <3>2. Append(taken[s], v) \in Seq(Messages)
      BY <3>1, AppendFacts
    <3> QED
      BY <1>7, <3>2 DEF ClientInv, Types
  <2>3. at' \in [Goroutines -> Nat \ {0}]
    BY <1>7 DEF ClientInv, Types
  <2>4. in' \in [Goroutines -> Places]
    BY <1>6 DEF ClientInv, Types, Places
  <2>5. result' \in [Goroutines -> {"none", "ok", "error"}]
    BY <1>6 DEF ClientInv, Types
  <2> QED
    BY <1>7, <2>1, <2>2, <2>3, <2>4, <2>5 DEF ClientInv, Types
<1>9. /\ in'[g] = p /\ result'[g] = r /\ up'[s] = u /\ at'[g] = at[g]
      /\ taken'[s] = Append(taken[s], v)
      /\ \A t \in Sessions \ {s} : SessionSame(t)
      /\ \A k \in Goroutines \ {g} : Stays(k) /\ Advances(k)
  BY <1>1, <1>6, <1>7 DEF ClientInv, Types, SessionSame, Stays, Advances
<1>10. Op(g)' = Op(g)
  BY <1>7, <1>9 DEF Op
<1>11. HandlersMatch'
  <2>1. /\ hs'[s] \notin {"send", "ack", "Consume"}
        /\ s \in eof' => hs'[s] = "done"
    BY <1>5, <1>7 DEF Quiet, ClientInv, HandlersMatch
  <2> QED
    BY <1>5, <1>7, <1>9, <2>1, MatchFrame
<1>12. InOrder(s)'
  BY <1>5, <1>7, <1>9 DEF Quiet, InOrder, InDoubt, Publishes
<1>13. PlaceMatches(g)' /\ Knows(g)'
  BY <1>1, <1>2, <1>3, <1>5, <1>6, <1>7, <1>9, <1>10
     DEF PlaceMatches, Knows
<1> QED
  BY <1>2, <1>3, <1>6, <1>7, <1>8, <1>9, <1>11, <1>12, <1>13, TalkFrame

LEMMA RecvInv ==
  ASSUME ClientInv, NEW g \in Goroutines, Recv(g)
  PROVE  ClientInv'
<1>1. /\ in[g] \in {"ack", "recv"}
      /\ in[g] = "ack" => Op(g).op = "publish"
      /\ in[g] = "recv" => Op(g).op = "consume"
      /\ Streams(g)
  BY DEF Recv, ClientInv, PlacesMatch, PlaceMatches, Streams
<1>2. PICK s \in Sessions : s = Op(g).s
  BY <1>1, StreamFacts DEF ClientInv
<1>3. Knows(g) /\ down[s] # <<>>
  BY <1>1, <1>2 DEF ClientInv, ProgressInv, Recv
<1>4. PICK x \in Messages : x = Head(down[s])
  BY <1>3, HeadTailProperties DEF ClientInv, Types
<1>5. PICK p \in {"forward", "next", "recv"} :
        /\ in' = [in EXCEPT ![g] = p]
        /\ p = "forward" => Op(g).out
        /\ p = "next" => Op(g).op = "publish" /\ ~Op(g).out
        /\ p = "recv" => Op(g).op = "consume" /\ ~Op(g).out
  BY <1>1 DEF Recv, Loop
<1>6. /\ down' = [down EXCEPT ![s] = Tail(down[s])]
      /\ got' = [got EXCEPT ![s] = Append(got[s], x)]
      /\ UNCHANGED <<program, started, at, result, inflight, hs, up, eof,
                     srvLock, left, q, mailbox, taken, handled, popped, heard>>
  BY <1>2, <1>4 DEF Recv, callerVars, serverVars, brokerVars
<1>7. Types'
  <2>1. Tail(down[s]) \in Seq(Messages)
    BY <1>3, HeadTailProperties DEF ClientInv, Types
  <2> QED
    BY <1>5, <1>6, <2>1, AppendFacts DEF ClientInv, Types, Places
<1>8. /\ in'[g] = p /\ down'[s] = Tail(down[s]) /\ got'[s] = Append(got[s], x)
      /\ \A t \in Sessions \ {s} : SessionSame(t)
      /\ \A h \in Goroutines \ {g} : Stays(h) /\ Advances(h)
      /\ Op(g)' = Op(g)
  BY <1>5, <1>6 DEF ClientInv, Types, SessionSame, Stays, Advances, Op
<1>9. HandlersMatch'
  <2>1. \A t \in Sessions : Publishes(t)' <=> Publishes(t)
    BY <1>6 DEF Publishes
  <2> QED
    BY <1>6, <2>1 DEF ClientInv, HandlersMatch
<1>10. InOrder(s)' /\ (Op(g).op = "publish" => Quiet(s)')
  <2>1. CASE Op(g).op = "publish"
    <3>1. Publishes(s)
      BY <1>1, <1>2, <2>1, KindOfSession DEF ClientInv
    <3>2. PICK v \in Messages :
            /\ taken[s] = Append(got[s], v) /\ handled[s] = taken[s]
            /\ down[s] = <<v>> /\ up[s] = <<>>
            /\ hs[s] \in {"Publish", "done"}
      BY <1>3, <3>1 DEF ClientInv, StreamInv, InOrder, Quiet, InDoubt
    <3>3. Head(<<v>>) = v /\ Tail(<<v>>) = <<>>
      OBVIOUS
    <3>4. Quiet(s)'
      BY <1>4, <1>6, <1>8, <3>2, <3>3 DEF Quiet
    <3> QED
      BY <1>6, <3>1, <3>4 DEF InOrder, Publishes
  <2>2. CASE Op(g).op = "consume"
    <3>1. ~Publishes(s)
      BY <1>1, <1>2, <2>2, KindOfSession DEF ClientInv
    <3>2. got'[s] \o down'[s] = got[s] \o down[s]
      <4>1. got[s] \in Seq(Messages) /\ down[s] \in Seq(Messages)
        BY DEF ClientInv, Types
      <4>2. Append(got[s], Head(down[s])) \o Tail(down[s])
              = got[s] \o down[s]
        BY <1>3, <4>1, ConcatHead
      <4> QED
        BY <1>4, <1>8, <4>2
    <3>3. InTransit(s)'
      BY <1>6, <3>1, <3>2 DEF ClientInv, StreamInv, InOrder, InTransit
    <3> QED
      BY <1>6, <2>2, <3>1, <3>3 DEF InOrder, Publishes
  <2> QED
    BY <1>1, <2>1, <2>2
<1>11. PlaceMatches(g)'
  BY <1>1, <1>5, <1>8 DEF PlaceMatches, Streams
<1>12. Knows(g)'
  <2>1. /\ Last(got'[s]) = x /\ got'[s] # <<>>
    <3>1. got[s] \in Seq(Messages)
      BY DEF ClientInv, Types
    <3>2. Last(Append(got[s], x)) = x /\ Append(got[s], x) # <<>>
      BY <3>1, AppendFacts
    <3> QED
      BY <1>8, <3>2
  <2>2. Op(g).out => heard[s] = got[s]
    BY <1>1, <1>2, <1>3 DEF Knows
  <2> QED
    BY <1>2, <1>5, <1>6, <1>8, <1>10, <2>1, <2>2 DEF Knows
<1> QED
  BY <1>1, <1>2, <1>5, <1>6, <1>7, <1>8, <1>9, <1>10, <1>11, <1>12, TalkFrame

LEMMA ForwardInv ==
  ASSUME ClientInv, NEW g \in Goroutines, NEW h \in Goroutines, Forward(g, h)
  PROVE  ClientInv'
<1>1. in[g] = "forward" /\ in[h] = "caller" /\ h # g
  BY DEF Forward, Hears, Doing, Inside
<1>2. Streams(g) /\ Op(g).out
  BY <1>1 DEF ClientInv, PlacesMatch, PlaceMatches
<1>3. PICK s \in Sessions : s = Op(g).s
  BY <1>2, StreamFacts DEF ClientInv
<1>4. Knows(g)
  BY <1>2 DEF ClientInv, ProgressInv
<1>5. got[s] # <<>> /\ got[s] = Append(heard[s], Last(got[s]))
  BY <1>1, <1>3, <1>4 DEF Knows
<1>6. /\ heard' = [heard EXCEPT ![s] = got[s]]
      /\ in' = [in EXCEPT ![g] = Loop(g)]
      /\ at' \in {at, [at EXCEPT ![h] = at[h] + 1]}
      /\ UNCHANGED <<program, started, result, inflight, hs, up, down, eof,
                     srvLock, left, q, mailbox, taken, handled, popped, got>>
  BY <1>3, <1>5 DEF Forward, streamVars, serverVars, brokerVars
<1>7. /\ Loop(g) \in {"next", "recv"}
      /\ Loop(g) = "next" => Op(g).op = "publish"
      /\ Loop(g) = "recv" => Op(g).op = "consume"
  BY <1>2 DEF Loop, Streams
<1>8. Types'
  <2>1. heard' \in [Sessions -> Seq(Messages)]
    <3>1. got[s] \in Seq(Messages)
      BY DEF ClientInv, Types
    <3> QED
      BY <1>6, <3>1 DEF ClientInv, Types
  <2>2. at' \in [Goroutines -> Nat \ {0}]
    <3>1. at \in [Goroutines -> Nat \ {0}] /\ at[h] + 1 \in Nat \ {0}
      BY DEF ClientInv, Types
    <3>2. CASE at' = at
      BY <3>1, <3>2
    <3>3. CASE at' = [at EXCEPT ![h] = at[h] + 1]
      BY <3>1, <3>3
    <3> QED
      BY <1>6, <3>2, <3>3
  <2>3. in' \in [Goroutines -> Places]
    BY <1>6, <1>7 DEF ClientInv, Types, Places
  <2> QED
    BY <1>6, <2>1, <2>2, <2>3 DEF ClientInv, Types
<1>9. /\ in'[g] = Loop(g) /\ heard'[s] = got[s] /\ at'[g] = at[g]
      /\ \A t \in Sessions \ {s} : SessionSame(t)
      /\ \A k \in Goroutines \ {g} : Stays(k) /\ Advances(k)
  BY <1>1, <1>6 DEF ClientInv, Types, SessionSame, Stays, Advances
<1>10. Op(g)' = Op(g)
  BY <1>6, <1>9 DEF Op
<1>11. HandlersMatch' /\ InOrder(s)'
  <2>1. \A t \in Sessions : Publishes(t)' <=> Publishes(t)
    BY <1>6 DEF Publishes
  <2>2. HandlersMatch'
    BY <1>6, <2>1 DEF ClientInv, HandlersMatch
  <2>3. /\ Quiet(s) => Quiet(s)'
        /\ InDoubt(s) => InDoubt(s)'
        /\ InTransit(s) => InTransit(s)'
    BY <1>6 DEF Quiet, InDoubt, InTransit
  <2>4. InOrder(s)
    BY DEF ClientInv, StreamInv
  <2>5. InOrder(s)'
    BY <2>1, <2>3, <2>4 DEF InOrder
  <2> QED
    BY <2>2, <2>5
<1>12. PlaceMatches(g)'
  BY <1>7, <1>9, <1>10, <1>2 DEF PlaceMatches
<1>13. Knows(g)'
  <2>1. Quiet(s) => Quiet(s)'
    BY <1>6 DEF Quiet
  <2> QED
    BY <1>1, <1>3, <1>4, <1>6, <1>7, <1>9, <1>10, <2>1 DEF Knows
<1> QED
  BY <1>2, <1>3, <1>6, <1>7, <1>8, <1>9, <1>11, <1>12, <1>13, TalkFrame
-----------------------------------------------------------------------------

LEMMA ClientInductive == ClientInv /\ [Next]_vars => ClientInv'
<1> SUFFICES ASSUME ClientInv, [Next]_vars PROVE ClientInv'
  OBVIOUS
<1>0. ASSUME \/ \E s \in Sessions : Break(s) \/ ServerDies(s)
             \/ UNCHANGED vars
      PROVE  ClientInv'
  <2>1. UNCHANGED <<program, started, at, in, result, inflight, up, down, eof,
                    hs, left, q, mailbox, srvLock, taken, handled, popped, got,
                    heard>>
    BY <1>0
       DEF Break, ServerDies, vars, callerVars, libVars, streamVars,
           serverVars, history, callHistory, streamHistory, brokerVars
  <2>2. \A g \in Goroutines : Op(g)' = Op(g)
    BY <2>1 DEF Op
  <2>3. \A s \in Sessions : SessionSame(s)
    BY <2>1 DEF SessionSame
  <2>4. Types' /\ HandlersMatch' /\ StreamInv'
    BY <2>1, <2>3, SessionFrame
       DEF ClientInv, Types, HandlersMatch, StreamInv
  <2>5. FreshUntilOpened'
    BY <2>1 DEF ClientInv, FreshUntilOpened, Fresh
  <2>6. PlacesMatch' /\ ProgressInv'
    <3>1. \A g \in Goroutines : Stays(g)
      BY <2>1 DEF Stays
    <3> QED
      BY <2>1, <2>3, <3>1, StaysFrame, StreamFacts
         DEF ClientInv, PlacesMatch, ProgressInv
  <2> QED
    BY <2>4, <2>5, <2>6 DEF ClientInv
<1>1. ASSUME NEW g \in Goroutines, GoroutineStep(g) PROVE ClientInv'
  BY <1>1, OwnCode, EntryAndExit, UnarySteps, StreamEnds, RangeEnds,
     PublishOpenInv, ConsumeOpenInv, RecvInv DEF GoroutineStep
<1>2. ASSUME NEW g \in Goroutines, NEW h \in Goroutines, Meet(g, h)
      PROVE  ClientInv'
  BY <1>2, TakeInv, ForwardInv DEF Meet
<1>3. ASSUME NEW call \in inflight, ServerRuns(call[1], call[2])
      PROVE  ClientInv'
  BY <1>3, HandlerRuns
<1>4. ASSUME NEW s \in Sessions, ServerStep(s) PROVE ClientInv'
  BY <1>4, ServerPublishInv, ServerAckInv, ServerEndsInv, ServerCountInv,
     ServerSendInv, ServerFinishInv, <1>0 DEF ServerStep
<1>5. ASSUME NEW g \in Goroutines, CallFails(g) PROVE ClientInv'
  BY <1>5, UnarySteps
<1> QED
  BY <1>0, <1>1, <1>2, <1>3, <1>4, <1>5 DEF Next, Progress, Fault

THEOREM StreamInvariance == Spec => []ClientInv
BY InitInv, ClientInductive, PTL DEF Spec

\* client.go:138-152.  At most one value that Publish took is in doubt: the
\* server has handled all that it acknowledged, whoever subscribed to them, and
\* however topics and subscriptions come and go meanwhile.
THEOREM OneValueInDoubt == Spec => []AtMostOneInDoubt
<1>1. ClientInv => AtMostOneInDoubt
  <2> SUFFICES ASSUME ClientInv, NEW s \in Sessions, Publishes(s)
               PROVE  /\ IsPrefix(got[s], handled[s])
                      /\ IsPrefix(handled[s], taken[s])
                      /\ Len(taken[s]) <= Len(got[s]) + 1
    BY DEF AtMostOneInDoubt
  <2>1. got[s] \in Seq(Messages) /\ Len(got[s]) \in Nat
    BY LenProperties DEF ClientInv, Types
  <2>2. CASE Quiet(s)
    <3>1. IsPrefix(got[s], got[s])
      BY <2>1, SubSeqFull DEF IsPrefix
    <3>2. taken[s] = got[s] /\ handled[s] = got[s]
      BY <2>2 DEF Quiet
    <3>3. Len(got[s]) <= Len(got[s]) + 1
      BY <2>1
    <3> QED
      BY <3>1, <3>2, <3>3
  <2>3. CASE InDoubt(s)
    <3>1. PICK v \in Messages :
            /\ taken[s] = Append(got[s], v)
            /\ handled[s] \in {got[s], taken[s]}
      BY <2>3 DEF InDoubt
    <3>2. /\ IsPrefix(got[s], taken[s]) /\ IsPrefix(got[s], got[s])
          /\ Len(taken[s]) = Len(got[s]) + 1
      BY <2>1, <3>1, AppendFacts, PrefixFacts
    <3>3. IsPrefix(taken[s], taken[s])
      BY SubSeqFull DEF IsPrefix, ClientInv, Types
    <3>4. Len(taken[s]) <= Len(got[s]) + 1
      BY <2>1, <3>2
    <3>5. CASE handled[s] = got[s]
      BY <3>2, <3>4, <3>5
    <3>6. CASE handled[s] = taken[s]
      BY <3>2, <3>3, <3>4, <3>6
    <3> QED
      BY <3>1, <3>5, <3>6
  <2> QED
    BY <2>2, <2>3 DEF ClientInv, StreamInv, InOrder
<1> QED
  BY <1>1, StreamInvariance, PTL

\* client.go:160 and :202.  A nil error means that the server has handled all
\* that Publish took, and that all that left the mailbox reached the caller.
THEOREM NilMeansDelivered == Spec => []SuccessMeansDelivered
<1>1. ClientInv => SuccessMeansDelivered
  <2> SUFFICES ASSUME ClientInv, NEW g \in Goroutines,
                      in[g] = "return", Streams(g), result[g] = "ok"
               PROVE  LET s == Op(g).s IN
                      /\ Publishes(s) => handled[s] = taken[s]
                      /\ ~Publishes(s) => got[s] = popped[s]
                      /\ Op(g).out => heard[s] = got[s]
    BY DEF SuccessMeansDelivered, Inside
  <2>1. PICK s \in Sessions : s = Op(g).s
    BY StreamFacts DEF ClientInv
  <2>2. Settled(g) /\ (Publishes(s) <=> Op(g).op = "publish")
    BY <2>1, KindOfSession DEF ClientInv, ProgressInv, Knows
  <2>3. CASE Publishes(s)
    BY <2>1, <2>2, <2>3 DEF Settled, Quiet
  <2>4. CASE ~Publishes(s)
    <3>1. s \in eof /\ down[s] = <<>>
      BY <2>1, <2>2, <2>4 DEF Settled, Streams
    <3>2. popped[s] = got[s] \o <<>>
      BY <2>4, <3>1 DEF ClientInv, StreamInv, InOrder, InTransit
    <3>3. got[s] \o <<>> = got[s]
      BY ConcatEmptySeq DEF ClientInv, Types
    <3> QED
      BY <2>1, <2>2, <2>4, <3>2, <3>3 DEF Settled
  <2> QED
    BY <2>3, <2>4
<1> QED
  BY <1>1, StreamInvariance, PTL
-----------------------------------------------------------------------------
(* Calls.  Of the calls that have had a reply, the one that waits to return *)
(* ran after all that returned: the mutex keeps others from replying first. *)

IsCall(g, i) == i \in 1..Len(program[g]) /\ program[g][i].op = "call"

UnderWay ==
  \A g \in Goroutines, i \in Nat : <<g, i>> \in inflight => IsCall(g, i)

OneInside == \A g \in Goroutines : in[g] # "caller" => lock = g

\* The call is among the first n of r.
RanBy(r, call, n) == \E j \in 1..n : r[j] = call

AllRan == \A m \in 1..Len(answered) : RanBy(ran, answered[m], Len(ran))

RanInOrder ==
  \A m, n \in 1..Len(answered) : m < n =>
    \E k \in 1..Len(ran) :
      ran[k] = answered[n] /\ RanBy(ran, answered[m], k - 1)

ReplyIsLast ==
  \A g \in Goroutines : in[g] = "reply" =>
    \E k \in 1..Len(ran) :
      /\ ran[k] = <<g, at[g]>>
      /\ \A m \in 1..Len(answered) : RanBy(ran, answered[m], k - 1)

CallInv ==
  /\ ran \in Seq(Goroutines \X Nat)
  /\ answered \in Seq(Goroutines \X Nat)
  /\ UnderWay /\ OneInside
  /\ AllRan /\ RanInOrder /\ ReplyIsLast

\* A step that runs no call and returns none.
LEMMA CallFrame ==
  ASSUME CallInv, UNCHANGED <<program, ran, answered>>,
         inflight' \subseteq inflight,
         \A g \in Goroutines : in'[g] # "caller" => lock' = g,
         \A g \in Goroutines :
           in'[g] = "reply" => in[g] = "reply" /\ at'[g] = at[g]
  PROVE  CallInv'
<1>1. UnderWay'
  BY DEF CallInv, UnderWay, IsCall
<1>2. OneInside'
  BY DEF OneInside
<1>3. AllRan'
  BY DEF CallInv, AllRan
<1>4. RanInOrder'
  BY DEF CallInv, RanInOrder
<1>5. ReplyIsLast'
  BY DEF CallInv, ReplyIsLast
<1> QED
  BY <1>1, <1>2, <1>3, <1>4, <1>5 DEF CallInv

LEMMA InvokesCall ==
  ASSUME ClientInv, CallInv, NEW g \in Goroutines, Invokes(g)
  PROVE  CallInv'
<1> DEFINE calls == inflight \cup {<<g, at[g]>>}
<1>1. /\ in[g] = "open" /\ in' = [in EXCEPT ![g] = "invoke"]
      /\ inflight' = calls
      /\ UNCHANGED <<program, started, at, lock, ran, answered>>
      /\ Op(g).op = "call"
  BY DEF Invokes, Inside, callerVars, history, callHistory
<1>2. IsCall(g, at[g])
  BY <1>1 DEF Op, NoOp, IsCall, ClientInv, Types
<1>3. UnderWay'
  BY <1>1, <1>2 DEF CallInv, UnderWay, IsCall
<1>4. OneInside'
  BY <1>1 DEF CallInv, OneInside, ClientInv, Types
<1>5. AllRan' /\ RanInOrder'
  BY <1>1 DEF CallInv, AllRan, RanInOrder, RanBy
<1>6. ReplyIsLast'
  <2>1. \A h \in Goroutines : in'[h] = "reply" => in[h] = "reply"
    BY <1>1 DEF ClientInv, Types
  <2> QED
    BY <1>1, <2>1 DEF CallInv, ReplyIsLast
<1> QED
  BY <1>1, <1>3, <1>4, <1>5, <1>6 DEF CallInv

\* A handler that runs is the last that ran.
LEMMA ServerRunsCall ==
  ASSUME ClientInv, CallInv, NEW call \in inflight,
         ServerRuns(call[1], call[2])
  PROVE  CallInv'
<1> PICK g \in Goroutines, i \in Nat : ServerRuns(g, i)
  BY DEF ClientInv, Types
<1> DEFINE n == Len(ran)
<1>1. /\ inflight' \subseteq inflight
      /\ ran' = Append(ran, <<g, i>>)
      /\ UNCHANGED <<program, at, lock, answered>>
  BY DEF ServerRuns, callerVars, libVars
<1>2. PICK p \in {"reply", "refused", in[g]} :
        /\ in' = [in EXCEPT ![g] = p] /\ in'[g] = p
        /\ p # in[g] => in[g] = "invoke" /\ at[g] = i
  BY DEF ServerRuns, Inside, ClientInv, Types
<1>3. /\ ran' \in Seq(Goroutines \X Nat)
      /\ n \in Nat /\ Len(ran') = n + 1
      /\ \A j \in 1..n : ran'[j] = ran[j]
      /\ ran'[n + 1] = <<g, i>>
  BY <1>1, AppendFacts DEF CallInv
<1>4. \A k \in 0..n : \A c : RanBy(ran, c, k) => RanBy(ran', c, k)
  <2> SUFFICES ASSUME NEW k \in 0..n, NEW c,
                      NEW j \in 1..k, ran[j] = c
               PROVE  ran'[j] = c
    BY DEF RanBy
  <2>1. j \in 1..n
    BY <1>3
  <2> QED
    BY <1>3, <2>1
<1>5. \A m \in 1..Len(answered) : RanBy(ran', answered[m], n)
  <2>1. n \in 0..n
    BY <1>3
  <2> QED
    BY <1>4, <2>1 DEF CallInv, AllRan
<1>6. AllRan'
  BY <1>1, <1>3, <1>5 DEF AllRan, RanBy
<1>7. RanInOrder'
  <2> SUFFICES ASSUME NEW a \in 1..Len(answered), NEW b \in 1..Len(answered),
                      a < b
               PROVE  \E k \in 1..n + 1 :
                        /\ ran'[k] = answered[b]
                        /\ RanBy(ran', answered[a], k - 1)
    BY <1>1, <1>3 DEF RanInOrder
  <2>1. PICK k \in 1..n :
          ran[k] = answered[b] /\ RanBy(ran, answered[a], k - 1)
    BY DEF CallInv, RanInOrder
  <2>2. k - 1 \in 0..n /\ k \in 1..n + 1 /\ ran'[k] = answered[b]
    BY <1>3, <2>1
  <2> QED
    BY <1>4, <2>1, <2>2
<1>8. ReplyIsLast'
  <2> SUFFICES ASSUME NEW h \in Goroutines, in'[h] = "reply"
               PROVE  \E k \in 1..n + 1 :
                        /\ ran'[k] = <<h, at[h]>>
                        /\ \A m \in 1..Len(answered) :
                             RanBy(ran', answered[m], k - 1)
    BY <1>1, <1>3 DEF ReplyIsLast
  <2>1. CASE in[h] = "reply"
    <3>1. PICK k \in 1..n :
            /\ ran[k] = <<h, at[h]>>
            /\ \A m \in 1..Len(answered) : RanBy(ran, answered[m], k - 1)
      BY <2>1 DEF CallInv, ReplyIsLast
    <3>2. k - 1 \in 0..n /\ k \in 1..n + 1 /\ ran'[k] = <<h, at[h]>>
      BY <1>3, <3>1
    <3> QED
      BY <1>4, <3>1, <3>2
  <2>2. CASE in[h] # "reply"
    <3>1. h = g /\ at[h] = i
      BY <1>2, <2>2 DEF ClientInv, Types
    <3>2. (n + 1) - 1 = n /\ n + 1 \in 1..n + 1
      BY <1>3
    <3>3. ran'[n + 1] = <<h, at[h]>>
      BY <1>3, <3>1
    <3> QED
      BY <1>5, <3>2, <3>3
  <2> QED
    BY <2>1, <2>2
<1>9. UnderWay' /\ OneInside'
  BY <1>1, <1>2
     DEF CallInv, UnderWay, IsCall, OneInside, ClientInv, Types
<1> QED
  BY <1>1, <1>3, <1>6, <1>7, <1>8, <1>9 DEF CallInv

\* A call that returns ran after those that returned before it.
LEMMA ReturnsCall ==
  ASSUME ClientInv, CallInv, NEW g \in Goroutines, in[g] = "reply",
         answered' = Append(answered, <<g, at[g]>>),
         UNCHANGED <<program, at, lock, ran, inflight>>,
         NEW p \in {"close", "return"}, in' = [in EXCEPT ![g] = p]
  PROVE  CallInv'
<1> DEFINE n == Len(answered)
<1>1. /\ answered' \in Seq(Goroutines \X Nat)
      /\ n \in Nat /\ Len(answered') = n + 1
      /\ \A m \in 1..n : answered'[m] = answered[m]
      /\ answered'[n + 1] = <<g, at[g]>>
  BY AppendFacts DEF CallInv, ClientInv, Types
<1>2. PICK k \in 1..Len(ran) :
        /\ ran[k] = <<g, at[g]>>
        /\ \A m \in 1..n : RanBy(ran, answered[m], k - 1)
  BY DEF CallInv, ReplyIsLast
<1>3. 1..n + 1 = 1..n \cup {n + 1}
  BY <1>1
<1>4. AllRan'
  <2>1. \A m \in 1..n : RanBy(ran, answered[m], Len(ran))
    BY DEF CallInv, AllRan
  <2>2. RanBy(ran, <<g, at[g]>>, Len(ran))
    BY <1>2 DEF RanBy
  <2> QED
    BY <1>1, <1>3, <2>1, <2>2 DEF AllRan, RanBy
<1>5. RanInOrder'
  <2> SUFFICES ASSUME NEW a \in 1..n + 1, NEW b \in 1..n + 1, a < b
               PROVE  \E j \in 1..Len(ran) :
                        /\ ran[j] = answered'[b]
                        /\ RanBy(ran, answered'[a], j - 1)
    BY <1>1 DEF RanInOrder
  <2>1. a \in 1..n /\ answered'[a] = answered[a]
    BY <1>1
  <2>2. CASE b = n + 1
    BY <1>1, <1>2, <2>1, <2>2
  <2>3. CASE b \in 1..n
    BY <1>1, <2>1, <2>3 DEF CallInv, RanInOrder
  <2> QED
    BY <1>3, <2>2, <2>3
<1>6. OneInside'
  BY DEF CallInv, OneInside, ClientInv, Types
<1>7. ReplyIsLast'
  <2>1. \A h \in Goroutines : in'[h] # "reply"
    BY DEF CallInv, OneInside, ClientInv, Types
  <2> QED
    BY <2>1 DEF ReplyIsLast
<1>8. UnderWay'
  BY DEF CallInv, UnderWay, IsCall
<1> QED
  BY <1>1, <1>4, <1>5, <1>6, <1>7, <1>8 DEF CallInv

\* A goroutine's other steps; entering takes the mutex, returning frees it.
LEMMA GoroutineCalls ==
  ASSUME ClientInv, CallInv, NEW g \in Goroutines,
         GoroutineStep(g) \/ CallFails(g)
  PROVE  CallInv'
<1> USE DEF ClientInv, Types
<1>1. CASE Invokes(g)
  BY <1>1, InvokesCall
<1>2. CASE CallReturns(g)
  <2>1. PICK p \in {"close", "return"} : in' = [in EXCEPT ![g] = p]
    BY <1>2 DEF CallReturns, Leaves
  <2>2. UNCHANGED <<program, at, lock, ran, inflight>>
    BY <1>2 DEF CallReturns, callerVars
  <2>3. CASE in[g] = "reply"
    BY <1>2, <2>1, <2>2, <2>3, ReturnsCall DEF CallReturns, Inside
  <2>4. CASE in[g] = "refused"
    <3>1. answered' = answered
      BY <1>2, <2>4 DEF CallReturns, Inside
    <3> QED
      BY <2>1, <2>2, <2>4, <3>1, CallFrame DEF CallInv, OneInside
  <2> QED
    BY <1>2, <2>3, <2>4 DEF CallReturns
<1>3. CASE Enter(g)
  <2>1. /\ lock = NoOne /\ lock' = g /\ in' = [in EXCEPT ![g] = "open"]
        /\ UNCHANGED <<program, at, ran, answered, inflight>>
    BY <1>3 DEF Enter, callerVars, history, callHistory
  <2>2. \A h \in Goroutines : in[h] = "caller"
    BY <2>1, ClientAssumption DEF CallInv, OneInside
  <2> QED
    BY <2>1, <2>2, CallFrame
<1>4. CASE Return(g)
  <2>1. /\ in[g] = "return" /\ in' = [in EXCEPT ![g] = "caller"]
        /\ at' = [at EXCEPT ![g] = @ + 1]
        /\ UNCHANGED <<program, ran, answered, inflight>>
    BY <1>4 DEF Return, Inside, history, callHistory
  <2>2. \A h \in Goroutines \ {g} : in[h] = "caller"
    BY <2>1 DEF CallInv, OneInside
  <2> QED
    BY <2>1, <2>2, CallFrame
<1>5. CASE Go(g) \/ CloseReq(g) \/ RangeDone(g)
  <2>1. /\ in[g] = "caller" /\ at' = [at EXCEPT ![g] = @ + 1]
        /\ UNCHANGED <<program, in, lock, ran, answered, inflight>>
    BY <1>5 DEF Go, CloseReq, RangeDone, Doing, libVars, history, callHistory
  <2> QED
    BY <2>1, CallFrame DEF CallInv, OneInside
<1>6. CASE \/ CloseOut(g) \/ CallFails(g) \/ PublishOpen(g) \/ ConsumeOpen(g)
           \/ OpenFails(g) \/ RangeEnd(g) \/ Recv(g) \/ RecvEOF(g)
           \/ RecvFails(g)
  <2>1. UNCHANGED <<program, at, lock, ran, answered, inflight>>
    BY <1>6
       DEF CloseOut, CallFails, PublishOpen, ConsumeOpen, OpenFails, RangeEnd,
           Recv, RecvEOF, RecvFails, callerVars, history, callHistory
  <2>2. PICK p \in Places \ {"caller", "reply"} : in' = [in EXCEPT ![g] = p]
    BY <1>6
       DEF CloseOut, CallFails, PublishOpen, ConsumeOpen, OpenFails, RangeEnd,
           Recv, RecvEOF, RecvFails, Leaves, Loop, Places
  <2>3. in[g] # "caller"
    BY <1>6
       DEF CloseOut, CallFails, PublishOpen, ConsumeOpen, OpenFails, RangeEnd,
           Recv, RecvEOF, RecvFails, Inside
  <2> QED
    BY <2>1, <2>2, <2>3, CallFrame DEF CallInv, OneInside
<1> QED
  BY <1>1, <1>2, <1>3, <1>4, <1>5, <1>6 DEF GoroutineStep

LEMMA CallInductive ==
  ClientInv /\ CallInv /\ [Next]_vars => CallInv'
<1> SUFFICES ASSUME ClientInv, CallInv, [Next]_vars PROVE CallInv'
  OBVIOUS
<1> USE DEF ClientInv, Types
<1>1. ASSUME NEW g \in Goroutines, NEW h \in Goroutines, Meet(g, h)
      PROVE  CallInv'
  <2>1. /\ in[g] \in {"next", "forward"} /\ in[h] = "caller" /\ g # h
        /\ UNCHANGED <<program, lock, ran, answered, inflight>>
    BY <1>1
       DEF Meet, Take, Forward, Hands, Hears, Doing, Inside, callHistory
  <2>2. at' \in {at, [at EXCEPT ![h] = @ + 1]}
    BY <1>1 DEF Meet, Take, Forward
  <2>3. PICK p \in Places \ {"caller", "reply"} : in' = [in EXCEPT ![g] = p]
    BY <1>1 DEF Meet, Take, Forward, Leaves, Loop, Places
  <2> QED
    BY <2>1, <2>2, <2>3, CallFrame DEF CallInv, OneInside
<1>2. ASSUME \/ \E s \in Sessions : ServerStep(s) \/ Break(s)
             \/ UNCHANGED vars
      PROVE  CallInv'
  <2>1. UNCHANGED <<program, at, in, lock, ran, answered, inflight>>
    BY <1>2
       DEF ServerStep, ServerPublish, ServerAck, ServerEOF, ServerRecvFails,
           ServerCount, ServerDies, ServerSend, ServerFinish, Break, vars,
           callerVars, libVars, history, callHistory
  <2> QED
    BY <2>1, CallFrame DEF CallInv, OneInside
<1> QED
  BY <1>1, <1>2, GoroutineCalls, ServerRunsCall DEF Next, Progress, Fault

THEOREM CallInvariance == Spec => []CallInv
<1>1. Init => CallInv
  <2> SUFFICES ASSUME Init PROVE CallInv
    OBVIOUS
  <2>1. <<>> \in Seq(Goroutines \X Nat) /\ Len(<<>>) = 0
    BY EmptySeq
  <2> QED
    BY <2>1
       DEF Init, CallInv, UnderWay, OneInside, AllRan, RanInOrder, ReplyIsLast
<1> QED
  BY <1>1, CallInductive, StreamInvariance, PTL DEF Spec

\* client.go:14-28.  Whatever goroutines call, and whatever calls fail and run
\* late, those that return no error took effect in the order they returned.
THEOREM CallsTakeEffectInOrder == Spec => []TakeEffectInOrder
<1>1. CallInv => TakeEffectInOrder
  <2> SUFFICES ASSUME CallInv PROVE TakeEffectInOrder
    OBVIOUS
  <2>1. Len(ran) \in Nat /\ Len(answered) \in Nat
    BY LenProperties DEF CallInv
  <2>2. DOMAIN ran = 1..Len(ran) /\ DOMAIN answered = 1..Len(answered)
    BY DEF CallInv
  <2>3. Range(answered) \subseteq Range(ran)
    BY <2>2 DEF CallInv, AllRan, RanBy, Range
  <2>4. ASSUME NEW m \in 1..Len(answered), NEW n \in 1..Len(answered), m < n
        PROVE  \E j, k \in 1..Len(ran) :
                 j < k /\ ran[j] = answered[m] /\ ran[k] = answered[n]
    <3>1. PICK k \in 1..Len(ran) :
            ran[k] = answered[n] /\ RanBy(ran, answered[m], k - 1)
      BY <2>4 DEF CallInv, RanInOrder
    <3>2. PICK j \in 1..(k - 1) : ran[j] = answered[m]
      BY <3>1 DEF RanBy
    <3>3. j \in 1..Len(ran) /\ j < k
      BY <2>1
    <3> QED
      BY <3>1, <3>2, <3>3
  <2> QED
    BY <2>3, <2>4 DEF TakeEffectInOrder
<1> QED
  BY <1>1, CallInvariance, PTL
-----------------------------------------------------------------------------
(* Types.  ClientInv needs of a stream's messages only that they are        *)
(* messages: that the client and the mailbox get values, and no request, is *)
(* a consequence of it.                                                     *)

PlaceTypes ==
  \A g \in Goroutines : at[g] \in 1..Len(program[g]) + 1

Holders ==
  /\ lock \in Goroutines \cup {NoOne}
  /\ srvLock \in Sessions \cup {NoOne}
  /\ closed \subseteq Sessions /\ ended \subseteq Sessions
  /\ half \subseteq Sessions /\ cut \subseteq Sessions

BrokerTypes ==
  /\ alive \in BOOLEAN /\ topic \in BOOLEAN
  /\ q \in [Sessions -> Ids \cup {NoOne}]
  /\ DOMAIN mailbox \subseteq Ids
  /\ \A id \in DOMAIN mailbox : topic /\ mailbox[id] \in Seq(Values)

ValueTypes ==
  /\ down \in [Sessions -> Seq(Values)]
  /\ taken \in [Sessions -> Seq(Values)]
  /\ handled \in [Sessions -> Seq(Values)]
  /\ popped \in [Sessions -> Seq(Values)]
  /\ got \in [Sessions -> Seq(Values)]
  /\ heard \in [Sessions -> Seq(Values)]

TypeInv == PlaceTypes /\ Holders /\ BrokerTypes /\ ValueTypes

\* Goroutine g leaves an operation only if it is at one.
LEMMA AtFrame ==
  ASSUME Types, PlaceTypes, program' = program,
         \A g \in Goroutines :
           at'[g] = at[g] \/ (at'[g] = at[g] + 1 /\ Op(g).op # "none")
  PROVE  PlaceTypes'
<1> SUFFICES ASSUME NEW g \in Goroutines
             PROVE  at'[g] \in 1..Len(program[g]) + 1
  BY DEF PlaceTypes
<1>1. program[g] \in Seq(Operations)
  BY ClientAssumption DEF Types
<1>2. Op(g).op # "none" => at[g] <= Len(program[g])
  BY DEF Op, NoOp
<1> QED
  BY <1>1, <1>2 DEF PlaceTypes

LEMMA StepAt ==
  ASSUME ClientInv, PlaceTypes, [Next]_vars
  PROVE  PlaceTypes'
<1> USE DEF ClientInv, Types, PlacesMatch
<1>1. ASSUME NEW g \in Goroutines, GoroutineStep(g) \/ CallFails(g)
      PROVE  PlaceTypes'
  <2>1. CASE Go(g) \/ CloseReq(g) \/ RangeDone(g)
    BY <2>1, AtFrame DEF Go, CloseReq, RangeDone, Doing
  <2>2. CASE Return(g)
    <3>1. Op(g).op # "none"
      BY <2>2 DEF Return, Inside, PlaceMatches
    <3> QED
      BY <2>2, <3>1, AtFrame DEF Return
  <2>3. CASE UNCHANGED <<program, at>>
    BY <2>3 DEF PlaceTypes
  <2> QED
    BY <1>1, <2>1, <2>2, <2>3
       DEF GoroutineStep, Enter, CloseOut, Invokes, CallReturns, CallFails,
           PublishOpen, ConsumeOpen, OpenFails, RangeEnd, Recv, RecvEOF,
           RecvFails, callerVars
<1>2. ASSUME NEW g \in Goroutines, NEW h \in Goroutines, Meet(g, h)
      PROVE  PlaceTypes'
  <2>1. /\ at' \in {at, [at EXCEPT ![h] = @ + 1]} /\ Op(h).op # "none"
        /\ program' = program
    BY <1>2 DEF Meet, Take, Forward, Hands, Hears, Doing
  <2> QED
    BY <2>1, AtFrame
<1>3. CASE UNCHANGED <<program, at>>
  BY <1>3 DEF PlaceTypes
<1> QED
  BY <1>1, <1>2, <1>3
     DEF Next, Progress, Fault, ServerRuns, ServerStep, ServerPublish,
         ServerAck, ServerEOF, ServerRecvFails, ServerCount, ServerDies,
         ServerSend, ServerFinish, Break, vars, callerVars

LEMMA StepHolders ==
  ASSUME ClientInv, Holders, [Next]_vars
  PROVE  Holders'
<1> USE DEF Holders
<1>1. ASSUME NEW g \in Goroutines, GoroutineStep(g) \/ CallFails(g)
      PROVE  Holders'
  <2>1. CASE CloseReq(g)
    <3>1. Op(g).s \in Sessions
      BY <2>1, OpTypes, OpFacts DEF CloseReq, Doing, ClientInv
    <3> QED
      BY <2>1, <3>1 DEF CloseReq, libVars, streamVars, serverVars
  <2>2. CASE Enter(g) \/ Return(g)
    BY <2>2 DEF Enter, Return, channelVars, streamVars, serverVars
  <2>3. CASE CloseOut(g) \/ ConsumeOpen(g) \/ RangeEnd(g)
    <3>1. PlaceMatches(g)
      BY DEF ClientInv, PlacesMatch
    <3>2. Streams(g)
      BY <2>3, <3>1
         DEF CloseOut, ConsumeOpen, RangeEnd, Inside, PlaceMatches, Streams
    <3>3. Op(g).s \in Sessions
      BY <3>2, StreamFacts DEF ClientInv
    <3> QED
      BY <2>3, <3>3
         DEF CloseOut, ConsumeOpen, RangeEnd, channelVars, streamVars,
             serverVars
  <2>4. CASE UNCHANGED <<lock, srvLock, closed, ended, half, cut>>
    BY <2>4
  <2> QED
    BY <1>1, <2>1, <2>2, <2>3, <2>4
       DEF GoroutineStep, Go, RangeDone, Invokes, CallReturns, CallFails,
           PublishOpen, OpenFails, Recv, RecvEOF, RecvFails, libVars,
           channelVars, streamVars, serverVars
<1>2. ASSUME NEW s \in Sessions, ServerStep(s) \/ Break(s)
      PROVE  Holders'
  BY <1>2
     DEF ServerStep, ServerPublish, ServerAck, ServerEOF, ServerRecvFails,
         ServerCount, ServerDies, ServerSend, ServerFinish, Break, libVars,
         channelVars, streamVars, serverVars
<1>3. ASSUME UNCHANGED <<lock, srvLock, channelVars, half, cut>>
      PROVE  Holders'
  BY <1>3 DEF channelVars
<1> QED
  BY <1>1, <1>2, <1>3
     DEF Next, Progress, Fault, Meet, Take, Forward, ServerRuns, libVars,
         channelVars, streamVars, serverVars, vars

\* What reaches the mailbox, and what is acknowledged, is what was taken.
LEMMA PublishedValues ==
  ASSUME ClientInv, ValueTypes, NEW s \in Sessions
  PROVE  /\ (hs[s] = "Publish" /\ up[s] # <<>>) => Head(up[s]) \in Values
         /\ hs[s] = "ack" => handled[s] # <<>>
<1>1. hs[s] \in {"Publish", "ack"} => Quiet(s) \/ InDoubt(s)
  BY DEF ClientInv, HandlersMatch, StreamInv, InOrder
<1>2. CASE Quiet(s)
  BY <1>2 DEF Quiet
<1>3. CASE InDoubt(s)
  <2>1. PICK v \in Messages :
          /\ taken[s] = Append(got[s], v)
          /\ hs[s] = "Publish" => up[s] \in {<<>>, <<v>>}
          /\ hs[s] = "ack" => handled[s] = taken[s]
    BY <1>3 DEF InDoubt
  <2>2. got[s] \in Seq(Messages) /\ taken[s] \in Seq(Values)
    BY DEF ClientInv, Types, ValueTypes
  <2>3. /\ Len(taken[s]) \in 1..Len(taken[s]) /\ taken[s] # <<>>
        /\ taken[s][Len(taken[s])] = v
    BY <2>1, <2>2, AppendFacts
  <2>4. v \in Values
    BY <2>2, <2>3, ElementOfSeq
  <2> QED
    BY <2>1, <2>3, <2>4
<1> QED
  BY <1>1, <1>2, <1>3

\* One history, streamHistory, or the stream back, grows by a value at s.
LEMMA GrowsByValue ==
  ASSUME NEW f \in [Sessions -> Seq(Values)], NEW s \in Sessions,
         NEW v \in Values
  PROVE  [f EXCEPT ![s] = Append(@, v)] \in [Sessions -> Seq(Values)]
<1>1. Append(f[s], v) \in Seq(Values)
  BY AppendFacts
<1> QED
  BY <1>1

\* So does what a Consume takes out of it.
LEMMA MailboxHead ==
  ASSUME Types, HandlersMatch, BrokerTypes, NEW s \in Sessions, ServerSend(s)
  PROVE  /\ Head(mailbox[q[s]]) \in Values
         /\ Tail(mailbox[q[s]]) \in Seq(Values)
<1>1. mailbox[q[s]] # <<>> /\ mailbox[q[s]] \in Seq(Values)
  BY NextValue DEF BrokerTypes
<1> QED
  BY <1>1, HeadTailProperties

LEMMA StepValues ==
  ASSUME ClientInv, BrokerTypes, ValueTypes, [Next]_vars
  PROVE  ValueTypes'
<1>1. ASSUME NEW g \in Goroutines, NEW h \in Goroutines, Take(g, h)
      PROVE  ValueTypes'
  <2>1. PlaceMatches(g)
    BY DEF ClientInv, PlacesMatch
  <2>2. Op(g).s \in Sessions
    BY <1>1, <2>1, StreamFacts
       DEF Take, Hands, Inside, PlaceMatches, Streams, ClientInv
  <2>3. Op(h).v \in Values
    BY <1>1, OpTypes, OpFacts DEF Take, Hands, Doing, ClientInv
  <2>4. /\ taken' = [taken EXCEPT ![Op(g).s] = Append(@, Op(h).v)]
        /\ UNCHANGED <<down, handled, popped, got, heard>>
    BY <1>1 DEF Take, serverVars
  <2> QED
    BY <2>2, <2>3, <2>4, GrowsByValue DEF ValueTypes
<1>2. ASSUME NEW g \in Goroutines, NEW h \in Goroutines, Forward(g, h)
      PROVE  ValueTypes'
  <2>1. PlaceMatches(g) /\ (Streams(g) => Knows(g))
    BY DEF ClientInv, PlacesMatch, ProgressInv
  <2>2. Streams(g) /\ in[g] = "forward"
    BY <1>2, <2>1 DEF Forward, Hears, Inside, PlaceMatches
  <2>3. PICK s \in Sessions : s = Op(g).s
    BY <2>2, StreamFacts DEF ClientInv
  <2>4. got[s] \in Seq(Values) /\ got[s] # <<>>
    BY <2>1, <2>2, <2>3 DEF Knows, ValueTypes
  <2>5. Last(got[s]) \in Values
    <3>1. Len(got[s]) \in 1..Len(got[s])
      BY <2>4, EmptySeq, LenProperties
    <3> QED
      BY <2>4, <3>1, ElementOfSeq DEF Last
  <2>6. /\ heard' = [heard EXCEPT ![s] = Append(@, Last(got[s]))]
        /\ UNCHANGED <<down, handled, popped, got, taken>>
    BY <1>2, <2>3 DEF Forward, streamVars, serverVars
  <2> QED
    BY <2>5, <2>6, GrowsByValue DEF ValueTypes
<1>3. ASSUME NEW g \in Goroutines, Recv(g)
      PROVE  ValueTypes'
  <2>1. PlaceMatches(g)
    BY DEF ClientInv, PlacesMatch
  <2>2. PICK s \in Sessions : s = Op(g).s
    BY <1>3, <2>1, StreamFacts DEF Recv, PlaceMatches, Streams, ClientInv
  <2>3. /\ down[s] # <<>>
        /\ down' = [down EXCEPT ![s] = Tail(@)]
        /\ got' = [got EXCEPT ![s] = Append(@, Head(down[s]))]
        /\ UNCHANGED <<handled, popped, taken, heard>>
    BY <1>3, <2>2 DEF Recv, serverVars
  <2>4. down[s] \in Seq(Values)
    BY DEF ValueTypes
  <2>5. Head(down[s]) \in Values /\ Tail(down[s]) \in Seq(Values)
    BY <2>3, <2>4, HeadTailProperties
  <2>6. down' \in [Sessions -> Seq(Values)]
    BY <2>3, <2>5 DEF ValueTypes
  <2>7. got' \in [Sessions -> Seq(Values)]
    BY <2>3, <2>5, GrowsByValue DEF ValueTypes
  <2> QED
    BY <2>3, <2>6, <2>7 DEF ValueTypes
<1>4. ASSUME NEW s \in Sessions, ServerPublish(s)
      PROVE  ValueTypes'
  <2>1. Head(up[s]) \in Values
    BY <1>4, PublishedValues DEF ServerPublish
  <2>2. /\ handled' = [handled EXCEPT ![s] = Append(@, Head(up[s]))]
        /\ UNCHANGED <<down, popped, got, taken, heard>>
    BY <1>4 DEF ServerPublish
  <2>3. handled' \in [Sessions -> Seq(Values)]
    BY <2>1, <2>2, GrowsByValue DEF ValueTypes
  <2> QED
    BY <2>2, <2>3 DEF ValueTypes
<1>5. ASSUME NEW s \in Sessions, ServerAck(s)
      PROVE  ValueTypes'
  <2>1. handled[s] \in Seq(Values) /\ handled[s] # <<>>
    BY <1>5, PublishedValues DEF ServerAck, ValueTypes
  <2>2. Last(handled[s]) \in Values
    <3>1. Len(handled[s]) \in 1..Len(handled[s])
      BY <2>1, EmptySeq, LenProperties
    <3> QED
      BY <2>1, <3>1, ElementOfSeq DEF Last
  <2>3. /\ down' \in {down, [down EXCEPT ![s] = Append(@, Last(handled[s]))]}
        /\ UNCHANGED <<handled, popped, got, taken, heard>>
    BY <1>5 DEF ServerAck, history, streamHistory
  <2>4. [down EXCEPT ![s] = Append(@, Last(handled[s]))]
          \in [Sessions -> Seq(Values)]
    BY <2>2, GrowsByValue DEF ValueTypes
  <2> QED
    BY <2>3, <2>4 DEF ValueTypes
<1>6. ASSUME NEW s \in Sessions, ServerSend(s)
      PROVE  ValueTypes'
  <2>1. PICK x \in Values : x = Head(mailbox[q[s]])
    BY <1>6, MailboxHead DEF ClientInv
  <2>2. /\ popped' = [popped EXCEPT ![s] = Append(@, x)]
        /\ down' \in {down, [down EXCEPT ![s] = Append(@, x)]}
        /\ UNCHANGED <<handled, got, taken, heard>>
    BY <1>6, <2>1 DEF ServerSend
  <2>3. popped' \in [Sessions -> Seq(Values)]
    BY <2>2, GrowsByValue DEF ValueTypes
  <2>4. [down EXCEPT ![s] = Append(@, x)] \in [Sessions -> Seq(Values)]
    BY GrowsByValue DEF ValueTypes
  <2> QED
    BY <2>2, <2>3, <2>4 DEF ValueTypes
<1>7. ASSUME UNCHANGED <<down, taken, handled, popped, got, heard>>
      PROVE  ValueTypes'
  BY <1>7 DEF ValueTypes
<1>8. ASSUME NEW g \in Goroutines, GoroutineStep(g) \/ CallFails(g), ~Recv(g)
      PROVE  ValueTypes'
  BY <1>7, <1>8
     DEF GoroutineStep, Go, CloseReq, RangeDone, Enter, CloseOut, Return,
         Invokes, CallReturns, CallFails, PublishOpen, ConsumeOpen, OpenFails,
         RangeEnd, RecvEOF, RecvFails, streamVars, serverVars, history,
         streamHistory
<1>9. ASSUME NEW s \in Sessions,
             \/ ServerEOF(s) \/ ServerRecvFails(s) \/ ServerCount(s)
             \/ ServerDies(s) \/ ServerFinish(s) \/ Break(s)
      PROVE  ValueTypes'
  BY <1>7, <1>9
     DEF ServerEOF, ServerRecvFails, ServerCount, ServerDies,
         ServerFinish, Break,
         streamVars, serverVars, history, streamHistory
<1>10. ASSUME \/ \E call \in inflight : ServerRuns(call[1], call[2])
              \/ UNCHANGED vars
       PROVE  ValueTypes'
  BY <1>7, <1>10 DEF ServerRuns, vars, streamVars, serverVars, history,
                     streamHistory
<1> QED
  BY <1>1, <1>2, <1>3, <1>4, <1>5, <1>6, <1>8, <1>9, <1>10
     DEF Next, Progress, Fault, Meet, ServerStep

\* The subscriber a call adds has an id.
LEMMA AddsId ==
  ASSUME ClientInv, CallInv, NEW g \in Goroutines, NEW i \in Nat,
         <<g, i>> \in inflight,
         Dispatch(Invoke[Stub(program[g][i].fn)].name).runs = "AddSubscriber"
  PROVE  program[g][i].id \in Ids
<1>1. program[g] \in Seq(Operations) /\ IsCall(g, i)
  BY ClientAssumption DEF ClientInv, Types, CallInv, UnderWay
<1>2. program[g][i] \in Operations /\ program[g][i].op = "call"
  BY <1>1, ElementOfSeq DEF IsCall
<1>3. program[g][i].fn \in Unaries
  BY <1>2 DEF Operations, Unaries, Subscriptions
<1>4. Stub(program[g][i].fn) \in Unary
  BY <1>3 DEF Stub, Unaries, Unary
<1>5. \A m \in Unary : Dispatch(Invoke[m].name).runs = m
  BY DispatchFacts DEF Invoke, Methods
<1>6. program[g][i].fn = "AddSubscriber"
  BY <1>3, <1>4, <1>5 DEF Stub, Unaries
<1> QED
  BY <1>2, <1>6 DEF Operations, Subscriptions

LEMMA MethodBroker ==
  ASSUME BrokerTypes, NEW m, NEW id, NEW answer, ServerMethod(m, id, answer),
         m = "AddSubscriber" => id \in Ids, UNCHANGED q
  PROVE  BrokerTypes'
<1>1. <<>> \in Seq(Values)
  BY EmptySeq
<1> QED
  BY <1>1 DEF ServerMethod, BrokerTypes, brokerVars

LEMMA StepBroker ==
  ASSUME ClientInv, CallInv, BrokerTypes, ValueTypes, [Next]_vars
  PROVE  BrokerTypes'
<1>1. ASSUME UNCHANGED <<brokerVars, q>> PROVE BrokerTypes'
  BY <1>1 DEF BrokerTypes, brokerVars
<1>2. ASSUME NEW call \in inflight, ServerRuns(call[1], call[2])
      PROVE  BrokerTypes'
  <2>1. PICK g \in Goroutines, i \in Nat : ServerRuns(g, i)
    BY <1>2 DEF ClientInv, Types
  <2>2. PICK answer \in {"reply", "refused"} :
          ServerMethod(Dispatch(Invoke[Stub(program[g][i].fn)].name).runs,
                       program[g][i].id, answer)
    BY <2>1 DEF ServerRuns
  <2>3. <<g, i>> \in inflight /\ UNCHANGED q
    BY <2>1 DEF ServerRuns
  <2> QED
    BY <2>2, <2>3, AddsId, MethodBroker
<1>3. ASSUME NEW s \in Sessions, ServerPublish(s)
      PROVE  BrokerTypes'
  <2>1. PICK v \in Values : v = Head(up[s])
    BY <1>3, PublishedValues DEF ServerPublish
  <2>2. /\ mailbox' = [id \in DOMAIN mailbox |-> Append(mailbox[id], v)]
        /\ UNCHANGED <<alive, topic, q>>
    BY <1>3, <2>1 DEF ServerPublish
  <2> QED
    BY <2>2, AppendFacts DEF BrokerTypes
<1>4. ASSUME NEW s \in Sessions, ServerSend(s)
      PROVE  BrokerTypes'
  <2>1. PICK w \in Seq(Values) : w = Tail(mailbox[q[s]])
    BY <1>4, MailboxHead DEF ClientInv
  <2>2. /\ mailbox' = [mailbox EXCEPT ![q[s]] = w]
        /\ UNCHANGED <<alive, topic, q>>
    BY <1>4, <2>1 DEF ServerSend
  <2> QED
    BY <2>2 DEF BrokerTypes
<1>5. ASSUME NEW s \in Sessions, ServerCount(s)
      PROVE  BrokerTypes'
  <2>1. PICK id \in DOMAIN mailbox :
          q' = [q EXCEPT ![s] = id] /\ UNCHANGED brokerVars
    BY <1>5 DEF ServerCount
  <2> QED
    BY <2>1 DEF BrokerTypes, brokerVars
<1>6. ASSUME NEW s \in Sessions, ServerDies(s)
      PROVE  BrokerTypes'
  BY <1>6 DEF ServerDies, BrokerTypes
<1>7. ASSUME NEW s \in Sessions,
             \/ ServerAck(s) \/ ServerEOF(s) \/ ServerRecvFails(s)
             \/ ServerFinish(s) \/ Break(s)
      PROVE  BrokerTypes'
  BY <1>1, <1>7
     DEF ServerAck, ServerEOF, ServerRecvFails, ServerFinish, Break,
         serverVars
<1>8. ASSUME NEW g \in Goroutines, GoroutineStep(g) \/ CallFails(g)
      PROVE  BrokerTypes'
  BY <1>1, <1>8
     DEF GoroutineStep, Go, CloseReq, RangeDone, Enter, CloseOut, Return,
         Invokes, CallReturns, CallFails, PublishOpen, ConsumeOpen, OpenFails,
         RangeEnd, Recv, RecvEOF, RecvFails, serverVars
<1>9. ASSUME \/ \E g, h \in Goroutines : Meet(g, h)
             \/ UNCHANGED vars
      PROVE  BrokerTypes'
  BY <1>1, <1>9 DEF Meet, Take, Forward, serverVars, vars
<1> QED
  BY <1>2, <1>3, <1>4, <1>5, <1>6, <1>7, <1>8, <1>9
     DEF Next, Progress, Fault, ServerStep

THEOREM TypeInvariance == Spec => []TypeInv
<1>1. Init => TypeInv
  <2> SUFFICES ASSUME Init PROVE TypeInv
    OBVIOUS
  <2>1. <<>> \in Seq(Values)
    BY EmptySeq
  <2>2. \A g \in Goroutines : 1 \in 1..Len(program[g]) + 1
    <3>1. \A g \in Goroutines : program[g] \in Seq(Operations)
      BY ClientAssumption DEF Init
    <3>2. \A g \in Goroutines : Len(program[g]) \in Nat
      BY <3>1, LenProperties
    <3> QED
      BY <3>2
  <2> QED
    BY <2>1, <2>2, ClientAssumption
       DEF Init, TypeInv, PlaceTypes, Holders, BrokerTypes, ValueTypes
<1>2. ClientInv /\ CallInv /\ TypeInv /\ [Next]_vars => TypeInv'
  BY StepAt, StepHolders, StepBroker, StepValues DEF TypeInv
<1> QED
  BY <1>1, <1>2, StreamInvariance, CallInvariance, PTL DEF Spec

\* Every variable has its type; in particular, whatever connections fail and
\* whoever gives up, only values reach the mailbox and the callers.
THEOREM ClientTypeCorrect == Spec => []TypeOK
<1>1. ClientInv /\ CallInv /\ TypeInv => TypeOK
  BY DEF ClientInv, CallInv, TypeInv, Types, PlaceTypes, Holders, BrokerTypes,
         ValueTypes, Messages, TypeOK
<1> QED
  BY <1>1, StreamInvariance, CallInvariance, TypeInvariance, PTL
-----------------------------------------------------------------------------
(* Sends.  Whoever closed a request channel is past it, and a Publish is    *)
(* over, or about to be, only when its channel is closed or its connection  *)
(* failed.                                                                  *)

ClosedIsPast ==
  \A s \in closed : \E g \in Goroutines : \E i \in 1..(at[g] - 1) :
    program[g][i].op = "close" /\ program[g][i].s = s

FeedEnds(g) ==
  (in[g] \in {"flush", "close", "return"} /\ Op(g).op = "publish")
    => Op(g).s \in cut \cup closed

FeedEnded(g) ==
  \A i \in 1..(at[g] - 1) :
    program[g][i].op = "publish" => program[g][i].s \in cut \cup closed

FeedInv ==
  ClosedIsPast /\ \A g \in Goroutines : FeedEnds(g) /\ FeedEnded(g)

\* A step of goroutine g: to its next operation, no step at all, or in the
\* library.
Goes(g) ==
  \/ /\ at'[g] = at[g] + 1 /\ in'[g] = "caller"
     /\ Op(g).op # "none"
     /\ Op(g).op = "publish" => in[g] = "return"
  \/ at'[g] = at[g] /\ in'[g] = in[g]
  \/ /\ at'[g] = at[g] /\ Op(g).op # "none"
     /\ (in'[g] \in {"flush", "close", "return"} /\ Op(g).op = "publish")
          => Op(g).s \in cut \cup closed

LEMMA FeedFrame ==
  ASSUME Types, PlacesMatch, FeedInv, program' = program,
         started \subseteq started', cut \subseteq cut',
         closed \subseteq closed',
         NEW g \in Goroutines, Goes(g)
  PROVE  FeedEnds(g)' /\ FeedEnded(g)'
<1>0. at[g] \in Nat \ {0}
  BY DEF Types
<1>1. FeedEnds(g) /\ FeedEnded(g) /\ PlaceMatches(g)
  BY DEF FeedInv, PlacesMatch
<1>2. CASE /\ at'[g] = at[g] + 1 /\ in'[g] = "caller"
           /\ Op(g).op # "none"
           /\ Op(g).op = "publish" => in[g] = "return"
  <2>1. Op(g) = program[g][at[g]]
    BY <1>2 DEF Op, NoOp
  <2>2. ASSUME NEW i \in 1..(at'[g] - 1), program[g][i].op = "publish"
        PROVE  program[g][i].s \in cut' \cup closed'
    <3>1. CASE i = at[g]
      BY <1>1, <1>2, <2>1, <2>2, <3>1 DEF FeedEnds
    <3>2. CASE i \in 1..(at[g] - 1)
      BY <1>1, <2>2, <3>2 DEF FeedEnded
    <3> QED
      BY <1>0, <1>2, <3>1, <3>2
  <2> QED
    BY <1>2, <2>2 DEF FeedEnds, FeedEnded
<1>3. CASE at'[g] = at[g] /\ in'[g] = in[g]
  <2>1. in[g] # "caller" => Op(g)' = Op(g)
    BY <1>1, <1>3 DEF PlaceMatches, Op, NoOp
  <2> QED
    BY <1>1, <1>3, <2>1 DEF FeedEnds, FeedEnded
<1>4. CASE /\ at'[g] = at[g] /\ Op(g).op # "none"
           /\ (in'[g] \in {"flush", "close", "return"}
                 /\ Op(g).op = "publish") => Op(g).s \in cut \cup closed
  <2>1. Op(g)' = Op(g)
    BY <1>4 DEF Op, NoOp
  <2> QED
    BY <1>1, <1>4, <2>1 DEF FeedEnds, FeedEnded
<1> QED
  BY <1>2, <1>3, <1>4 DEF Goes

LEMMA ClosedFrame ==
  ASSUME Types, ClosedIsPast, program' = program, closed' = closed,
         \A g \in Goroutines : at'[g] \in {at[g], at[g] + 1}
  PROVE  ClosedIsPast'
<1> SUFFICES ASSUME NEW s \in closed
             PROVE  \E g \in Goroutines : \E i \in 1..(at'[g] - 1) :
                      program[g][i].op = "close" /\ program[g][i].s = s
  BY DEF ClosedIsPast
<1>0. PICK g \in Goroutines : \E i \in 1..(at[g] - 1) :
        program[g][i].op = "close" /\ program[g][i].s = s
  BY DEF ClosedIsPast
<1>1. PICK i \in 1..(at[g] - 1) :
        program[g][i].op = "close" /\ program[g][i].s = s
  BY <1>0
<1>2. at[g] \in Nat /\ at'[g] \in {at[g], at[g] + 1}
  BY DEF Types
<1>3. i \in 1..(at'[g] - 1)
  BY <1>2
<1> QED
  BY <1>1, <1>3

LEMMA CloseReqFeeds ==
  ASSUME Types, ClosedIsPast, NEW g \in Goroutines, CloseReq(g)
  PROVE  ClosedIsPast'
<1>1. /\ Op(g).op = "close" /\ program' = program
      /\ closed' = closed \cup {Op(g).s}
      /\ at' = [at EXCEPT ![g] = @ + 1]
  BY DEF CloseReq, Doing
<1>2. Op(g) = program[g][at[g]] /\ at[g] \in 1..(at'[g] - 1)
  BY <1>1 DEF Op, NoOp, Types
<1>3. ASSUME NEW s \in closed'
      PROVE  \E h \in Goroutines : \E i \in 1..(at'[h] - 1) :
               program[h][i].op = "close" /\ program[h][i].s = s
  <2>1. CASE s = Op(g).s
    BY <1>1, <1>2, <2>1
  <2>2. CASE s \in closed
    <3>0. PICK h \in Goroutines : \E i \in 1..(at[h] - 1) :
            program[h][i].op = "close" /\ program[h][i].s = s
      BY <2>2 DEF ClosedIsPast
    <3>1. PICK i \in 1..(at[h] - 1) :
            program[h][i].op = "close" /\ program[h][i].s = s
      BY <3>0
    <3>2. i \in 1..(at'[h] - 1)
      BY <1>1 DEF Types
    <3> QED
      BY <3>1, <3>2
  <2> QED
    BY <1>1, <2>1, <2>2
<1> QED
  BY <1>1, <1>3 DEF ClosedIsPast

LEMMA GoroutineFeeds ==
  ASSUME ClientInv, FeedInv, NEW g \in Goroutines,
         GoroutineStep(g) \/ CallFails(g)
  PROVE  FeedInv'
<1> USE DEF ClientInv, Types
<1>0. PlaceMatches(g) /\ FeedEnds(g)
  BY DEF PlacesMatch, FeedInv
<1>1. /\ program' = program /\ started \subseteq started'
      /\ cut' = cut /\ closed \subseteq closed'
      /\ closed' = closed \/ CloseReq(g)
  BY DEF GoroutineStep, Go, CloseReq, RangeDone, Enter, CloseOut, Return,
         Invokes, CallReturns, CallFails, PublishOpen, ConsumeOpen, OpenFails,
         RangeEnd, Recv, RecvEOF, RecvFails, callerVars, channelVars,
         streamVars
<1>2. \A h \in Goroutines \ {g} : at'[h] = at[h] /\ in'[h] = in[h]
  BY DEF GoroutineStep, Go, CloseReq, RangeDone, Enter, CloseOut, Return,
         Invokes, CallReturns, CallFails, PublishOpen, ConsumeOpen, OpenFails,
         RangeEnd, Recv, RecvEOF, RecvFails, Leaves, callerVars, libVars
<1>3. Goes(g)
  <2>1. CASE Go(g) \/ CloseReq(g) \/ RangeDone(g)
    BY <2>1 DEF Go, CloseReq, RangeDone, Doing, libVars, Goes
  <2>2. CASE Return(g)
    BY <1>0, <2>2 DEF Return, Inside, PlaceMatches, Goes
  <2>3. CASE Enter(g)
    BY <2>3 DEF Enter, callerVars, Goes
  <2>4. CASE CloseOut(g) \/ Invokes(g) \/ CallReturns(g) \/ CallFails(g)
    <3>1. Op(g).op \in {"call", "consume"} /\ at' = at
      BY <1>0, <2>4
         DEF CloseOut, Invokes, CallReturns, CallFails, Inside, PlaceMatches,
             callerVars
    <3> QED
      BY <3>1 DEF Goes
  <2>5. CASE OpenFails(g) \/ RecvFails(g)
    BY <1>0, <2>5
       DEF OpenFails, RecvFails, Inside, PlaceMatches, Streams, callerVars,
           Goes
  <2>6. CASE PublishOpen(g) \/ ConsumeOpen(g) \/ Recv(g)
    BY <1>0, <2>6
       DEF PublishOpen, ConsumeOpen, Recv, Loop, Inside, PlaceMatches,
           callerVars, Goes
  <2>7. CASE RangeEnd(g)
    BY <1>0, <2>7 DEF RangeEnd, Inside, PlaceMatches, callerVars, Goes
  <2>8. CASE RecvEOF(g)
    BY <1>0, <2>8 DEF RecvEOF, PlaceMatches, FeedEnds, callerVars, Goes
  <2> QED
    BY <2>1, <2>2, <2>3, <2>4, <2>5, <2>6, <2>7, <2>8 DEF GoroutineStep
<1>4. \A h \in Goroutines : Goes(h)
  BY <1>2, <1>3 DEF Goes
<1>5. ClosedIsPast'
  <2>1. CASE CloseReq(g)
    BY <2>1, CloseReqFeeds DEF FeedInv
  <2>2. CASE closed' = closed
    BY <1>1, <1>4, <2>2, ClosedFrame DEF FeedInv, Goes
  <2> QED
    BY <1>1, <2>1, <2>2
<1> QED
  BY <1>1, <1>4, <1>5, FeedFrame DEF FeedInv

LEMMA MeetFeeds ==
  ASSUME ClientInv, FeedInv, NEW g \in Goroutines, NEW h \in Goroutines,
         Meet(g, h)
  PROVE  FeedInv'
<1> USE DEF ClientInv, Types
<1>1. /\ in[g] \in {"next", "forward"} /\ in[h] = "caller" /\ g # h
      /\ Op(h).op \in {"send", "receive", "range"}
  BY DEF Meet, Take, Forward, Hands, Hears, Doing, Inside
<1>2. Streams(g)
  BY <1>1 DEF PlacesMatch, PlaceMatches, Streams
<1>3. /\ UNCHANGED <<program, started, cut, closed>>
      /\ at' \in {at, [at EXCEPT ![h] = @ + 1]}
  BY DEF Meet, Take, Forward, channelVars, streamVars
<1>4. PICK p \in Places : /\ in' = [in EXCEPT ![g] = p]
                          /\ p \in {"flush", "close", "return"}
                               => Op(g).s \in cut
  BY DEF Meet, Take, Forward, Leaves, Loop, Places
<1>5. Goes(g) /\ Goes(h)
  BY <1>1, <1>2, <1>3, <1>4 DEF Goes, Streams
<1>6. \A k \in Goroutines \ {g, h} : Goes(k)
  BY <1>3, <1>4 DEF Goes
<1>7. \A k \in Goroutines : Goes(k)
  BY <1>5, <1>6
<1>8. ClosedIsPast'
  BY <1>3, <1>7, ClosedFrame DEF FeedInv, Goes
<1> QED
  BY <1>3, <1>7, <1>8, FeedFrame DEF FeedInv

LEMMA FeedInductive ==
  ClientInv /\ TypeInv /\ FeedInv /\ [Next]_vars => FeedInv'
<1> SUFFICES ASSUME ClientInv, TypeInv, FeedInv, [Next]_vars
             PROVE  FeedInv'
  OBVIOUS
<1>1. ASSUME UNCHANGED <<program, started, closed, at>>, cut \subseteq cut',
             \A g \in Goroutines : Goes(g)
      PROVE  FeedInv'
  <2>1. ClosedIsPast'
    BY <1>1 DEF FeedInv, ClosedIsPast
  <2> QED
    BY <1>1, <2>1, FeedFrame DEF FeedInv, ClientInv
<1>2. ASSUME \/ \E s \in Sessions : ServerStep(s) \/ Break(s)
             \/ UNCHANGED vars
      PROVE  FeedInv'
  <2>1. UNCHANGED <<program, started, closed, at, in>>
    BY <1>2
       DEF ServerStep, ServerPublish, ServerAck, ServerEOF, ServerRecvFails,
           ServerCount, ServerDies, ServerSend, ServerFinish, Break, vars,
           callerVars, libVars, channelVars, streamVars
  <2>2. cut \subseteq cut'
    BY <1>2
       DEF ServerStep, ServerPublish, ServerAck, ServerEOF, ServerRecvFails,
           ServerCount, ServerDies, ServerSend, ServerFinish, Break, vars,
           callerVars, streamVars, TypeInv, Holders
  <2> QED
    BY <1>1, <2>1, <2>2 DEF Goes
<1>3. ASSUME NEW call \in inflight, ServerRuns(call[1], call[2])
      PROVE  FeedInv'
  <2>1. PICK g \in Goroutines, i \in Nat : ServerRuns(g, i)
    BY <1>3 DEF ClientInv, Types
  <2>2. UNCHANGED <<program, started, closed, at, cut>>
    BY <2>1 DEF ServerRuns, callerVars, channelVars, streamVars
  <2>3. \/ in' = in
        \/ /\ in[g] = "invoke"
           /\ \E answer \in {"reply", "refused"} :
                in' = [in EXCEPT ![g] = answer]
    BY <2>1 DEF ServerRuns, Inside
  <2>4. in[g] = "invoke" => Op(g).op = "call"
    BY DEF ClientInv, PlacesMatch, PlaceMatches
  <2>5. \A h \in Goroutines : Goes(h)
    BY <2>2, <2>3, <2>4 DEF Goes, ClientInv, Types
  <2> QED
    BY <1>1, <2>2, <2>5
<1> QED
  BY <1>2, <1>3, GoroutineFeeds, MeetFeeds DEF Next, Progress, Fault

THEOREM FeedInvariance == Spec => []FeedInv
<1>1. Init => FeedInv
  <2> SUFFICES ASSUME Init PROVE FeedInv
    OBVIOUS
  <2>1. \A g \in Goroutines : 1..(at[g] - 1) = {}
    BY DEF Init
  <2> QED
    BY <2>1 DEF Init, FeedInv, ClosedIsPast, FeedEnds, FeedEnded
<1> QED
  BY <1>1, FeedInductive, StreamInvariance, TypeInvariance, PTL DEF Spec

\* client.go:143-149.  In a program that closes a request channel after its
\* last value, a caller is left alone with its send only by a Publish whose
\* connection failed.
THEOREM SendsAreTaken ==
  ASSUME ProperSends
  PROVE  Spec => []AbandonedOnlyOnFailure
<1>1. ClientInv /\ TypeInv /\ FeedInv => AbandonedOnlyOnFailure
  <2> SUFFICES ASSUME ClientInv, TypeInv, FeedInv,
                      NEW g \in Goroutines, Doing(g, "send"), Over(Op(g).s)
               PROVE  Op(g).s \in cut
    BY DEF AbandonedOnlyOnFailure
  <2> DEFINE s == Op(g).s
  <2>1. /\ at[g] \in 1..Len(program[g]) /\ Op(g) = program[g][at[g]]
        /\ Op(g).op = "send"
    BY DEF Doing, Op, NoOp, TypeInv, PlaceTypes
  <2>2. \A h \in Goroutines : \A i \in 1..(at[h] - 1) :
          i \in 1..Len(program[h])
    <3>1. \A h \in Goroutines : Len(program[h]) \in Nat
      BY ClientAssumption DEF ClientInv, Types
    <3> QED
      BY <3>1 DEF TypeInv, PlaceTypes
  <2>3. ASSUME NEW h \in Goroutines, NEW i \in 1..(at[h] - 1),
               program[h][i].op \in {"close", "consume"}, program[h][i].s = s
        PROVE  program[h][i].op = "close" /\ h = g /\ at[g] < i
    <3>1. i \in 1..Len(program[h]) /\ program \in Programs
      BY <2>2 DEF ClientInv, Types
    <3> QED
      BY <2>1, <2>3, <3>1 DEF ProperSends
  <2>4. s \notin closed
    <3> SUFFICES ASSUME s \in closed PROVE FALSE
      OBVIOUS
    <3>0. PICK h \in Goroutines : \E i \in 1..(at[h] - 1) :
            program[h][i].op = "close" /\ program[h][i].s = s
      BY DEF FeedInv, ClosedIsPast
    <3>1. PICK i \in 1..(at[h] - 1) :
            program[h][i].op = "close" /\ program[h][i].s = s
      BY <3>0
    <3>2. h = g /\ at[g] < i
      BY <2>3, <3>1
    <3> QED
      BY <2>1, <3>1, <3>2
  <2>4a. PICK h \in Goroutines : \E i \in 1..(at[h] - 1) :
           program[h][i].op \in {"publish", "consume"} /\ program[h][i].s = s
    BY DEF Over
  <2>5. PICK i \in 1..(at[h] - 1) :
          program[h][i].op \in {"publish", "consume"} /\ program[h][i].s = s
    BY <2>4a
  <2>6. program[h][i].op = "publish"
    BY <2>3, <2>5
  <2> QED
    BY <2>4, <2>5, <2>6 DEF FeedInv, FeedEnded
<1> QED
  BY <1>1, StreamInvariance, TypeInvariance, FeedInvariance, PTL
-----------------------------------------------------------------------------
(* Drains.  InTransit says where the values of a Consume are as long as no  *)
(* Send failed; after a failed one the handler is done, and takes no more.  *)

Drained(s) ==
  ~Publishes(s) =>
    \/ popped[s] = got[s] \o down[s]
    \/ /\ hs[s] = "done"
       /\ \E v \in Messages : popped[s] = Append(got[s] \o down[s], v)

DrainInv == \A s \in Sessions : Drained(s)

LEMMA DrainedFrame ==
  ASSUME NEW s \in Sessions, Drained(s), program' = program,
         hs[s] = "done" => hs'[s] = "done",
         popped'[s] = popped[s], got'[s] = got[s], down'[s] = down[s]
  PROVE  Drained(s)'
BY DEF Drained, Publishes

LEMMA ServerSendDrains ==
  ASSUME ClientInv, DrainInv, NEW s \in Sessions, ServerSend(s)
  PROVE  DrainInv'
<1> USE DEF ClientInv, Types
<1>1. hs[s] = "send" /\ s \notin eof /\ ~Publishes(s)
  BY DEF ServerSend, HandlersMatch
<1>2. PICK x \in Messages : x = Head(mailbox[q[s]])
  BY NextValue
<1>3. /\ popped' = [popped EXCEPT ![s] = Append(popped[s], x)]
      /\ UNCHANGED <<program, got>>
  BY <1>2 DEF ServerSend, callerVars
<1>4. popped[s] = got[s] \o down[s]
  BY <1>1 DEF StreamInv, InOrder, InTransit
<1>5. \/ hs' = [hs EXCEPT ![s] = "done"] /\ down' = down
      \/ hs' = hs /\ down' = [down EXCEPT ![s] = Append(down[s], x)]
  BY <1>2 DEF ServerSend
<1>6. Drained(s)'
  <2>1. CASE hs' = [hs EXCEPT ![s] = "done"] /\ down' = down
    BY <1>3, <1>4, <2>1 DEF Drained
  <2>2. CASE hs' = hs /\ down' = [down EXCEPT ![s] = Append(down[s], x)]
    <3>1. got[s] \o Append(down[s], x) = Append(got[s] \o down[s], x)
      BY ConcatAppend
    <3> QED
      BY <1>3, <1>4, <2>2, <3>1 DEF Drained
  <2> QED
    BY <1>5, <2>1, <2>2
<1>7. ASSUME NEW t \in Sessions \ {s} PROVE Drained(t)'
  BY <1>3, <1>5, DrainedFrame DEF DrainInv
<1> QED
  BY <1>6, <1>7 DEF DrainInv

LEMMA RecvDrains ==
  ASSUME ClientInv, DrainInv, NEW g \in Goroutines, Recv(g)
  PROVE  DrainInv'
<1> USE DEF ClientInv, Types
<1>1. Streams(g)
  BY DEF Recv, PlacesMatch, PlaceMatches, Streams
<1>2. PICK s \in Sessions : s = Op(g).s
  BY <1>1, StreamFacts
<1>3. /\ down[s] # <<>>
      /\ down' = [down EXCEPT ![s] = Tail(down[s])]
      /\ got' = [got EXCEPT ![s] = Append(got[s], Head(down[s]))]
      /\ UNCHANGED <<program, hs, popped>>
  <2>1. /\ down[s] # <<>>
        /\ down' = [down EXCEPT ![s] = Tail(@)]
        /\ got' = [got EXCEPT ![s] = Append(@, Head(down[s]))]
    BY <1>2 DEF Recv
  <2>2. UNCHANGED <<program, hs, popped>>
    BY DEF Recv, callerVars, serverVars
  <2> QED
    BY <2>1, <2>2
<1>4. got'[s] \o down'[s] = got[s] \o down[s]
  <2>1. got[s] \in Seq(Messages) /\ down[s] \in Seq(Messages)
    OBVIOUS
  <2>2. Append(got[s], Head(down[s])) \o Tail(down[s]) = got[s] \o down[s]
    BY <1>3, <2>1, ConcatHead
  <2> QED
    BY <1>3, <2>2
<1>5. Drained(s)'
  BY <1>3, <1>4 DEF DrainInv, Drained, Publishes
<1>6. ASSUME NEW t \in Sessions \ {s} PROVE Drained(t)'
  BY <1>3, DrainedFrame DEF DrainInv
<1> QED
  BY <1>5, <1>6 DEF DrainInv

LEMMA OpenDrains ==
  ASSUME ClientInv, DrainInv, NEW g \in Goroutines,
         PublishOpen(g) \/ ConsumeOpen(g)
  PROVE  DrainInv'
<1> USE DEF ClientInv, Types
<1>1. Streams(g) /\ in[g] = "open"
  BY DEF PublishOpen, ConsumeOpen, Inside, Streams
<1>2. PICK s \in Sessions : s = Op(g).s
  BY <1>1, StreamFacts
<1>3. /\ \A t \in Sessions \ {s} : hs'[t] = hs[t]
      /\ UNCHANGED <<program, popped, got, down>>
  BY <1>2
     DEF PublishOpen, ConsumeOpen, callerVars, streamVars, history,
         streamHistory
<1>4. hs[s] # "done"
  BY <1>1, <1>2, OpenFacts DEF Fresh
<1> QED
  BY <1>3, <1>4, DrainedFrame DEF DrainInv

LEMMA ServerDrains ==
  ASSUME ClientInv, DrainInv, NEW s \in Sessions, ServerStep(s)
  PROVE  DrainInv'
<1> USE DEF ClientInv, Types
<1>1. CASE ServerSend(s)
  BY <1>1, ServerSendDrains
<1>2. CASE ServerPublish(s) \/ ServerAck(s)
  <2>1. Publishes(s)
    BY <1>2 DEF ServerPublish, ServerAck, HandlersMatch
  <2>2. /\ UNCHANGED <<program, popped, got>>
        /\ \A t \in Sessions \ {s} : hs'[t] = hs[t] /\ down'[t] = down[t]
    BY <1>2 DEF ServerPublish, ServerAck, callerVars, history,
           streamHistory
  <2>3. Drained(s)'
    BY <2>1, <2>2 DEF Drained, Publishes
  <2>4. ASSUME NEW t \in Sessions \ {s} PROVE Drained(t)'
    BY <2>2, DrainedFrame DEF DrainInv
  <2> QED
    BY <2>3, <2>4 DEF DrainInv
<1>3. CASE \/ ServerEOF(s) \/ ServerRecvFails(s)
           \/ ServerCount(s) \/ ServerDies(s) \/ ServerFinish(s)
  <2>1. /\ UNCHANGED <<program, popped, got, down>>
        /\ hs[s] # "done"
        /\ \A t \in Sessions \ {s} : hs'[t] = hs[t]
    BY <1>3
       DEF ServerEOF, ServerRecvFails, ServerCount, ServerDies, ServerFinish,
           Asks, callerVars, streamVars, history, streamHistory
  <2> QED
    BY <2>1, DrainedFrame DEF DrainInv
<1> QED
  BY <1>1, <1>2, <1>3 DEF ServerStep

LEMMA DrainInductive == ClientInv /\ DrainInv /\ [Next]_vars => DrainInv'
<1> SUFFICES ASSUME ClientInv, DrainInv, [Next]_vars PROVE DrainInv'
  OBVIOUS
<1>1. ASSUME UNCHANGED <<program, hs, popped, got, down>> PROVE DrainInv'
  BY <1>1, DrainedFrame DEF DrainInv
<1>2. ASSUME NEW g \in Goroutines, GoroutineStep(g) \/ CallFails(g)
      PROVE  DrainInv'
  <2>1. CASE Recv(g) \/ PublishOpen(g) \/ ConsumeOpen(g)
    BY <2>1, RecvDrains, OpenDrains
  <2>2. CASE ~(Recv(g) \/ PublishOpen(g) \/ ConsumeOpen(g))
    <3>1. UNCHANGED <<program, hs, popped, got, down>>
      BY <1>2, <2>2
         DEF GoroutineStep, Go, CloseReq, RangeDone, Enter, CloseOut, Return,
             Invokes, CallReturns, CallFails, OpenFails, RangeEnd, RecvEOF,
             RecvFails, callerVars, streamVars, serverVars, history,
             streamHistory
    <3> QED
      BY <1>1, <3>1
  <2> QED
    BY <2>1, <2>2
<1>3. ASSUME NEW g \in Goroutines, NEW h \in Goroutines, Meet(g, h)
      PROVE  DrainInv'
  BY <1>1, <1>3
     DEF Meet, Take, Forward, streamVars, serverVars
<1>4. ASSUME NEW call \in inflight, ServerRuns(call[1], call[2])
      PROVE  DrainInv'
  BY <1>1, <1>4 DEF ServerRuns, callerVars, streamVars, streamHistory
<1>5. ASSUME \/ \E s \in Sessions : Break(s)
             \/ UNCHANGED vars
      PROVE  DrainInv'
  BY <1>1, <1>5
     DEF Break, vars, callerVars, streamVars, serverVars, history,
         streamHistory
<1> QED
  BY <1>2, <1>3, <1>4, <1>5, ServerDrains DEF Next, Progress, Fault

THEOREM DrainInvariance == Spec => []DrainInv
<1>1. Init => DrainInv
  <2> SUFFICES ASSUME Init, NEW s \in Sessions
               PROVE  popped[s] = got[s] \o down[s]
    BY DEF DrainInv, Drained
  <2>1. popped[s] = <<>> /\ got[s] = <<>> /\ down[s] = <<>>
    BY DEF Init
  <2> QED
    BY <2>1
<1> QED
  BY <1>1, DrainInductive, StreamInvariance, PTL DEF Spec

\* quashserver.go:178-186.  Of what a Consume took out of the mailbox, all but
\* one value at most reached its client or is on its way, in order.
THEOREM OneValueUnsent == Spec => []AtMostOneUnsent
<1>1. ClientInv /\ DrainInv => AtMostOneUnsent
  <2> SUFFICES ASSUME ClientInv, DrainInv, NEW s \in Sessions, ~Publishes(s)
               PROVE  /\ IsPrefix(got[s] \o down[s], popped[s])
                      /\ Len(popped[s]) <= Len(got[s] \o down[s]) + 1
    BY DEF AtMostOneUnsent
  <2>1. PICK w \in Seq(Messages) : w = got[s] \o down[s]
    BY ConcatProperties DEF ClientInv, Types
  <2>2. \/ popped[s] = w
        \/ \E v \in Messages : popped[s] = Append(w, v)
    BY <2>1 DEF DrainInv, Drained
  <2>3. CASE popped[s] = w
    <3>1. IsPrefix(w, w) /\ Len(w) \in Nat
      BY SubSeqFull, LenProperties DEF IsPrefix
    <3>2. Len(w) <= Len(w) + 1
      BY <3>1
    <3> QED
      BY <2>1, <2>3, <3>1, <3>2
  <2>4. ASSUME NEW v \in Messages, popped[s] = Append(w, v)
        PROVE  /\ IsPrefix(w, popped[s])
               /\ Len(popped[s]) <= Len(w) + 1
    <3>1. IsPrefix(w, Append(w, v)) /\ Len(Append(w, v)) = Len(w) + 1
      BY PrefixFacts, AppendFacts
    <3>2. Len(w) + 1 <= Len(w) + 1
      BY LenProperties
    <3> QED
      BY <2>4, <3>1, <3>2
  <2> QED
    BY <2>1, <2>2, <2>3, <2>4
<1> QED
  BY <1>1, StreamInvariance, DrainInvariance, PTL
=============================================================================
