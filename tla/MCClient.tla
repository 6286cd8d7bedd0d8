------------------------------ MODULE MCClient ------------------------------
(* Client with small programs, for TLC. *)
EXTENDS Client

CONSTANTS main, a, b, p1, p2, c1, v1, v2, k1, k2

callFor(fn, id) == [op |-> "call", fn |-> fn, id |-> id]
call(fn) == callFor(fn, NoOne)
go(g) == [op |-> "go", g |-> g]
publish(s, out) == [op |-> "publish", s |-> s, out |-> out]
consume(s, out, id) == [op |-> "consume", s |-> s, out |-> out, id |-> id]
send(s, v) == [op |-> "send", s |-> s, v |-> v]
receive(s) == [op |-> "receive", s |-> s]
range(s) == [op |-> "range", s |-> s]
close(s) == [op |-> "close", s |-> s]

Gs == {main, a, b}
Is(m, x, y) == [g \in Gs |-> IF g = main THEN m ELSE IF g = a THEN x ELSE y]

\* README.md:141-180.
Example ==
  Is(<<call("SetKV"), call("CreateTopic"), callFor("AddSubscriber", k2),
       go(a), send(p1, v1), receive(p1), close(p1),
       consume(c1, TRUE, k2), range(c1)>>,
     <<publish(p1, TRUE)>>,
     <<>>)

\* A goroutine for each session, which is what the channels ask for.
Orderly ==
  Is(<<go(a), send(p1, v1), receive(p1), send(p1, v2), receive(p1), close(p1),
       go(b), range(c1), call("DeleteTopic")>>,
     <<publish(p1, TRUE), call("GetKV")>>,
     <<consume(c1, TRUE, k1), callFor("RemoveSubscriber", k1)>>)

\* No response channels; the consumer races with the publisher, and with the
\* end of the topic.
Silent ==
  Is(<<go(a), go(b), send(p1, v1), send(p1, v2), close(p1)>>,
     <<publish(p1, FALSE), call("DeleteTopic")>>,
     <<consume(c1, FALSE, k1), call("DeleteKV")>>)

\* Two sessions fed in turn: the mutex lets one of them in at a time.
TwoFeeds ==
  Is(<<go(a), go(b), send(p1, v1), close(p1), send(p2, v2), close(p2)>>,
     <<publish(p1, FALSE)>>,
     <<publish(p2, FALSE)>>)

AllPrograms == {Example, Orderly, Silent, TwoFeeds}
ExampleOnly == {Example}

\* The programs close a request channel after its last value.
ASSUME ProgramsAreProper == ProperSends
=============================================================================
