---------------------------- MODULE QueueProofs -----------------------------
(***************************************************************************)
(* Proofs about Queue for any set of addresses and any values.             *)
(*                                                                         *)
(* ListIsChain is not inductive by itself: Pop relies on the counter to    *)
(* tell that there is a root, and the walk on the node it stands on being  *)
(* one of the list.  ListInv adds the types, the counter during a Push and *)
(* that the nodes of the list hold values.                                 *)
(***************************************************************************)
EXTENDS Queue, TLAPS

\* Two facts about the sequence operations that chain goes through.
LEMMA TailFacts ==
  ASSUME NEW S, NEW s \in Seq(S), s # <<>>
  PROVE  /\ Tail(s) \in Seq(S)
         /\ Len(Tail(s)) = Len(s) - 1
         /\ \A i \in 1..Len(Tail(s)) : Tail(s)[i] = s[i + 1]
OBVIOUS

LEMMA AppendFacts ==
  ASSUME NEW S, NEW s \in Seq(S), NEW x \in S
  PROVE  /\ Append(s, x) \in Seq(S)
         /\ Len(Append(s, x)) = Len(s) + 1
         /\ Append(s, x)[Len(s) + 1] = x
         /\ \A i \in 1..Len(s) : Append(s, x)[i] = s[i]
OBVIOUS

LEMMA RangeFacts ==
  ASSUME NEW S, NEW s \in Seq(S)
  PROVE  \A x : x \in Range(s) <=> \E i \in 1..Len(s) : s[i] = x
BY DEF Range

LEMMA SingletonFacts ==
  ASSUME NEW S, NEW x \in S
  PROVE  <<x>> \in Seq(S) /\ Len(<<x>>) = 1 /\ <<x>>[1] = x /\ <<x>> # <<>>
OBVIOUS

LEMMA LengthFacts ==
  ASSUME NEW S, NEW s \in Seq(S)
  PROVE  Len(s) \in Nat /\ (s = <<>> <=> Len(s) = 0)
OBVIOUS

LEMMA InitList == Init => ListInv
BY QueueAssumption
   DEF Init, ListInv, TypeOK, ListIsChain
-----------------------------------------------------------------------------
(* Every step keeps the list *)

\* The node Push allocates is not in the list, so its fields are free.
LEMMA AllocateFacts ==
  ASSUME ListInv, NEW n \in Nodes, NEW v \in Values, Allocate(n, v)
  PROVE  /\ element' \in [Nodes -> Values \cup {Nil}]
         /\ next' \in [Nodes -> Nodes \cup {Nil}]
         /\ element'[n] = v /\ next'[n] = Nil
         /\ \A i \in 1..Len(chain) :
              /\ chain[i] \in Nodes
              /\ chain[i] # n
              /\ element'[chain[i]] = element[chain[i]]
              /\ next'[chain[i]] = next[chain[i]]
<1>1. \A i \in 1..Len(chain) : chain[i] \in Nodes /\ chain[i] # n
  BY RangeFacts DEF ListInv, TypeOK, Allocate
<1> QED
  BY <1>1 DEF ListInv, TypeOK, Allocate

LEMMA PushList ==
  ASSUME ListInv, NEW v \in Values, Push(v)
  PROVE  ListInv'
<1>1. PICK n \in Nodes : Allocate(n, v) /\
        IF root = Nil
        THEN /\ root' = n
             /\ chain' = <<n>>
             /\ UNCHANGED <<pc, nd, start>>
        ELSE /\ nd' = n
             /\ start' = root
             /\ pc' = "walk"
             /\ UNCHANGED <<root, chain>>
  BY DEF Push
<1>2. /\ pc = "idle"
      /\ counter' = counter + 1
      /\ out' = out
  BY DEF Push
<1>3. CASE root = Nil
  <2>1. chain = <<>>
    BY <1>3, QueueAssumption, LengthFacts DEF ListInv, ListIsChain, TypeOK
  <2>2. /\ chain' \in Seq(Nodes) /\ Len(chain') = 1 /\ chain'[1] = n
        /\ chain' # <<>>
    BY <1>1, <1>3, SingletonFacts
  <2>3. counter' = 1
    BY <1>2, <2>1 DEF ListInv
  <2>4. TypeOK'
    BY <1>1, <1>2, <1>3, <2>2, <2>3, AllocateFacts DEF ListInv, TypeOK
  <2>5. ListIsChain'
    BY <1>1, <1>2, <1>3, <2>2, AllocateFacts DEF ListIsChain
  <2> QED
    BY <1>1, <1>2, <1>3, <2>2, <2>3, <2>4, <2>5, AllocateFacts DEF ListInv
<1>4. CASE root # Nil
  <2>1. chain # <<>> /\ chain \in Seq(Nodes) /\ root = chain[1]
    BY <1>4 DEF ListInv, ListIsChain, TypeOK
  <2>2. 1 \in 1..Len(chain) /\ root \in Nodes
    BY <2>1, LengthFacts
  <2>3. n \notin Range(chain) /\ root \in Range(chain)
    BY <1>1, <2>1, <2>2, RangeFacts DEF Allocate
  <2>4. TypeOK'
    BY <1>1, <1>2, <1>4, <2>1, <2>2, AllocateFacts DEF ListInv, TypeOK
  <2>5. ListIsChain'
    BY <1>1, <1>2, <1>4, <2>1, <2>3, AllocateFacts DEF ListInv, ListIsChain
  <2> QED
    BY <1>1, <1>2, <1>4, <2>1, <2>4, <2>5, AllocateFacts DEF ListInv, TypeOK
<1> QED
  BY <1>3, <1>4

LEMMA WalkList ==
  ASSUME ListInv, Walk
  PROVE  ListInv'
<1>1. PICK i \in 1..Len(chain) : chain[i] = start
  BY RangeFacts DEF Walk, ListInv, TypeOK, ListIsChain
<1>2. i # Len(chain) /\ next[start] = chain[i + 1]
  BY <1>1 DEF Walk, ListInv, ListIsChain
<1>3. i + 1 \in 1..Len(chain)
  BY <1>1, <1>2, LengthFacts DEF ListInv, TypeOK
<1>4. start' \in Range(chain) /\ start' \in Nodes
  BY <1>2, <1>3, RangeFacts DEF Walk, ListInv, TypeOK
<1>5. TypeOK'
  BY <1>4 DEF Walk, heap, ListInv, TypeOK
<1>6. ListIsChain'
  BY <1>4 DEF Walk, heap, ListInv, ListIsChain
<1> QED
  BY <1>5, <1>6 DEF Walk, heap, ListInv

\* The walk ends on the last node of the list.
LEMMA AtTheEnd ==
  ASSUME ListInv, Link
  PROVE  start = chain[Len(chain)] /\ chain # <<>> /\ Len(chain) \in 1..Len(chain)
<1>1. PICK i \in 1..Len(chain) : chain[i] = start
  BY RangeFacts DEF Link, ListInv, TypeOK, ListIsChain
<1>2. i = Len(chain)
  <2>1. CASE i # Len(chain)
    <3>1. i + 1 \in 1..Len(chain)
      BY <1>1, <2>1, LengthFacts DEF ListInv, TypeOK
    <3>2. chain[i + 1] \in Nodes
      BY <3>1 DEF ListInv, TypeOK
    <3>3. next[start] = chain[i + 1]
      BY <1>1, <2>1 DEF ListInv, ListIsChain
    <3> QED
      BY <3>2, <3>3, QueueAssumption DEF Link
  <2> QED
    BY <2>1
<1> QED
  BY <1>1, <1>2 DEF ListInv, Link

LEMMA LinkList ==
  ASSUME ListInv, Link
  PROVE  ListInv'
<1>1. /\ nd \in Nodes /\ start \in Nodes
      /\ chain \in Seq(Nodes)
      /\ \A i \in 1..Len(chain) : chain[i] # nd
      /\ next[nd] = Nil
      /\ pc = "walk"
  BY RangeFacts DEF Link, ListInv, TypeOK, ListIsChain
<1>2. /\ chain' \in Seq(Nodes)
      /\ Len(chain') = Len(chain) + 1
      /\ chain'[Len(chain) + 1] = nd
      /\ \A i \in 1..Len(chain) : chain'[i] = chain[i]
  BY <1>1, AppendFacts DEF Link
<1>3. TypeOK'
  BY <1>1, <1>2 DEF Link, ListInv, TypeOK
<1>4. /\ chain # <<>> /\ chain' # <<>>
      /\ Len(chain) \in Nat \ {0}
      /\ start = chain[Len(chain)]
      /\ root' = chain'[1]
  BY <1>1, <1>2, AtTheEnd, LengthFacts DEF Link, ListInv, ListIsChain
<1>5. ASSUME NEW i \in 1..Len(chain')
      PROVE  next'[chain'[i]] = IF i = Len(chain') THEN Nil ELSE chain'[i + 1]
  <2>1. CASE i = Len(chain) + 1
    BY <1>1, <1>2, <1>4, <2>1 DEF Link, ListInv, TypeOK
  <2>2. CASE i = Len(chain)
    BY <1>1, <1>2, <1>4, <2>2 DEF Link, ListInv, TypeOK
  <2>3. CASE i < Len(chain)
    <3>1. i \in 1..Len(chain) /\ i + 1 \in 1..Len(chain)
      BY <1>4, <2>3
    <3>2. chain[i] # start
      BY <1>4, <2>3, <3>1 DEF ListInv, ListIsChain
    <3>3. next'[chain[i]] = next[chain[i]] /\ chain[i] \in Nodes
      BY <1>1, <3>1, <3>2 DEF Link, ListInv, TypeOK
    <3> QED
      BY <1>2, <2>3, <3>1, <3>3 DEF ListInv, ListIsChain
  <2> QED
    BY <1>2, <1>4, <2>1, <2>2, <2>3
<1>6. \A i, j \in 1..Len(chain') : chain'[i] = chain'[j] => i = j
  BY <1>1, <1>2, <1>4 DEF ListInv, ListIsChain
<1>7. ListIsChain'
  BY <1>4, <1>5, <1>6 DEF Link, ListIsChain
<1>8. counter' = Len(chain')
  BY <1>1, <1>2 DEF Link, ListInv
<1>9. \A i \in 1..Len(chain') : element'[chain'[i]] \in Values
  BY <1>1, <1>2, <1>4 DEF Link, ListInv
<1> QED
  BY <1>3, <1>7, <1>8, <1>9 DEF Link, ListInv

LEMMA PopList ==
  ASSUME ListInv, Pop
  PROVE  ListInv'
<1>1. /\ pc = "idle"
      /\ chain # <<>> /\ chain \in Seq(Nodes)
      /\ Len(chain) \in Nat \ {0}
      /\ counter = Len(chain)
      /\ root = chain[1]
  BY LengthFacts DEF Pop, Count, ListInv, TypeOK, ListIsChain
<1>2. /\ chain' \in Seq(Nodes)
      /\ Len(chain') = Len(chain) - 1
      /\ \A i \in 1..Len(chain') : /\ chain'[i] = chain[i + 1]
                                   /\ i + 1 \in 1..Len(chain)
  BY <1>1, TailFacts DEF Pop
<1>3. root' = IF Len(chain) = 1 THEN Nil ELSE chain[2]
  BY <1>1 DEF Pop, ListInv, ListIsChain
<1>4. root \in Nodes /\ out' \in Values
  BY <1>1 DEF Pop, ListInv
<1>5. TypeOK'
  BY <1>1, <1>2, <1>4 DEF Pop, heap, ListInv, TypeOK
<1>6. root' = IF chain' = <<>> THEN Nil ELSE chain'[1]
  <2>1. CASE Len(chain) = 1
    BY <1>2, <1>3, <2>1, LengthFacts
  <2>2. CASE Len(chain) # 1
    <3>1. 1 \in 1..Len(chain') /\ chain' # <<>>
      BY <1>1, <1>2, <2>2
    <3> QED
      BY <1>2, <1>3, <2>2, <3>1
  <2> QED
    BY <2>1, <2>2
<1>7. ASSUME NEW i \in 1..Len(chain')
      PROVE  next'[chain'[i]] = IF i = Len(chain') THEN Nil ELSE chain'[i + 1]
  <2>1. next[chain[i + 1]] =
          IF i + 1 = Len(chain) THEN Nil ELSE chain[(i + 1) + 1]
    BY <1>2 DEF ListInv, ListIsChain
  <2>2. CASE i = Len(chain')
    BY <1>1, <1>2, <2>1, <2>2 DEF Pop, heap
  <2>3. CASE i # Len(chain')
    <3>1. i + 1 \in 1..Len(chain')
      BY <1>1, <1>2, <2>3
    <3> QED
      BY <1>1, <1>2, <2>1, <2>3, <3>1 DEF Pop, heap
  <2> QED
    BY <2>2, <2>3
<1>8. \A i, j \in 1..Len(chain') : chain'[i] = chain'[j] => i = j
  BY <1>1, <1>2 DEF ListInv, ListIsChain
<1>9. ListIsChain'
  BY <1>1, <1>6, <1>7, <1>8 DEF Pop, ListIsChain
<1>10. \A i \in 1..Len(chain') : element'[chain'[i]] \in Values
  BY <1>1, <1>2 DEF Pop, heap, ListInv
<1> QED
  BY <1>1, <1>2, <1>5, <1>9, <1>10 DEF Pop, ListInv

LEMMA NextList == ListInv /\ [Next]_vars => ListInv'
<1> SUFFICES ASSUME ListInv, [Next]_vars
             PROVE  ListInv'
  OBVIOUS
<1>1. CASE Walk
  BY <1>1, WalkList
<1>2. CASE Link
  BY <1>2, LinkList
<1>3. CASE Pop
  BY <1>3, PopList
<1>4. ASSUME NEW v \in Values, Push(v)
      PROVE  ListInv'
  BY <1>4, PushList
<1>5. CASE UNCHANGED vars
  BY <1>5 DEF vars, heap, ListInv, TypeOK, ListIsChain
<1> QED
  BY <1>1, <1>2, <1>3, <1>4, <1>5 DEF Next

\* The inductive invariant: types, the shape of the list, the counter.
THEOREM ListInvariance == Spec => []ListInv
BY InitList, NextList, PTL DEF Spec

\* Types, and no walk off the end of the list.
THEOREM TypeCorrect == Spec => []TypeOK
<1>1. ListInv => TypeOK
  BY DEF ListInv
<1> QED
  BY <1>1, ListInvariance, PTL

\* queue.go:21-40: the pointers are a list of distinct nodes that ends.
THEOREM PointersAreAList == Spec => []ListIsChain
<1>1. ListInv => ListIsChain
  BY DEF ListInv
<1> QED
  BY <1>1, ListInvariance, PTL

\* A caller that pops as often as Count said never meets an empty list.
THEOREM CounterIsExact == Spec => []CountIsLength
<1>1. ListInv => CountIsLength
  BY DEF ListInv, TypeOK, CountIsLength, Count
<1> QED
  BY <1>1, ListInvariance, PTL
-----------------------------------------------------------------------------
(* The refinement *)

Contents == [i \in 1..Len(chain) |-> element[chain[i]]]

LEMMA ContentsFacts ==
  ASSUME ListInv
  PROVE  /\ Contents \in Seq(Values)
         /\ Len(Contents) = Len(chain)
         /\ \A i \in 1..Len(chain) : Contents[i] = element[chain[i]]
BY LengthFacts DEF Contents, ListInv, TypeOK

\* A sequence is what its length and its elements are.
LEMMA SameSeq ==
  ASSUME NEW S, NEW s \in Seq(S), NEW t \in Seq(S), Len(s) = Len(t),
         \A i \in 1..Len(s) : s[i] = t[i]
  PROVE  s = t
OBVIOUS

LEMMA InitRefines == Init => Mailbox!Init
BY DEF Init, Mailbox!Init

\* Push to an empty list, and the link at the end of a walk, are the
\* abstract Push; the steps before leave the contents alone.
LEMMA PushRefines ==
  ASSUME ListInv, ListInv', NEW v \in Values, Push(v)
  PROVE  [Mailbox!Next]_(Mailbox!vars)
<1>1. PICK n \in Nodes : Allocate(n, v) /\
        IF root = Nil
        THEN /\ root' = n
             /\ chain' = <<n>>
             /\ UNCHANGED <<pc, nd, start>>
        ELSE /\ nd' = n
             /\ start' = root
             /\ pc' = "walk"
             /\ UNCHANGED <<root, chain>>
  BY DEF Push
<1>2. out' = out
  BY DEF Push
<1>3. CASE root = Nil
  <2>1. chain = <<>> /\ Len(chain) = 0
    BY <1>3, QueueAssumption, LengthFacts DEF ListInv, ListIsChain, TypeOK
  <2>2. Len(chain') = 1 /\ chain'[1] = n
    BY <1>1, <1>3, SingletonFacts
  <2>3. Contents = <<>> /\ Len(Contents') = 1 /\ Contents'[1] = v
    BY <1>1, <2>1, <2>2, AllocateFacts DEF Contents
  <2>4. Contents' \in Seq(Values)
    BY <2>2, <2>3 DEF Contents
  <2>5. /\ Append(Contents, v) \in Seq(Values)
        /\ Len(Append(Contents, v)) = 1
        /\ Append(Contents, v)[1] = v
    BY <2>3, ContentsFacts
  <2>6. Contents' = Append(Contents, v)
    BY <2>3, <2>4, <2>5, SameSeq
  <2> QED
    BY <1>2, <2>6 DEF Mailbox!Next, Mailbox!Push, Contents
<1>4. CASE root # Nil
  <2>1. chain' = chain
    BY <1>1, <1>4
  <2>2. Contents' = Contents
    BY <1>1, <2>1, AllocateFacts DEF Contents
  <2> QED
    BY <1>2, <2>2 DEF Mailbox!vars, Contents
<1> QED
  BY <1>3, <1>4

LEMMA LinkRefines ==
  ASSUME ListInv, ListInv', Link
  PROVE  [Mailbox!Next]_(Mailbox!vars)
<1>1. /\ chain \in Seq(Nodes) /\ nd \in Nodes
      /\ element[nd] \in Values
      /\ UNCHANGED <<element, out>>
  BY DEF Link, heap, ListInv, TypeOK
<1>2. /\ Len(chain') = Len(chain) + 1
      /\ chain'[Len(chain) + 1] = nd
      /\ \A i \in 1..Len(chain) : chain'[i] = chain[i]
  BY <1>1, AppendFacts DEF Link
<1>3. /\ Contents \in Seq(Values) /\ Contents' \in Seq(Values)
      /\ Len(Contents) = Len(chain)
      /\ Len(Contents') = Len(chain) + 1
      /\ \A i \in 1..Len(chain) : Contents'[i] = Contents[i]
      /\ Contents'[Len(chain) + 1] = element[nd]
      /\ Len(chain) \in Nat
  BY <1>1, <1>2, ContentsFacts, LengthFacts DEF Contents
<1>4. Contents' = Append(Contents, element[nd])
  BY <1>1, <1>3, AppendFacts, SameSeq
<1> QED
  BY <1>1, <1>4 DEF Mailbox!Next, Mailbox!Push, Contents

LEMMA PopRefines ==
  ASSUME ListInv, ListInv', Pop
  PROVE  [Mailbox!Next]_(Mailbox!vars)
<1>1. /\ chain \in Seq(Nodes) /\ chain # <<>>
      /\ root = chain[1]
      /\ Len(chain) \in Nat \ {0}
      /\ out' = element[root]
      /\ element' = element
  BY LengthFacts DEF Pop, Count, heap, ListInv, TypeOK, ListIsChain
<1>2. /\ Len(chain') = Len(chain) - 1
      /\ \A i \in 1..Len(chain') : chain'[i] = chain[i + 1]
  BY <1>1, TailFacts DEF Pop
<1>3. /\ Contents \in Seq(Values) /\ Contents' \in Seq(Values)
      /\ Len(Contents) = Len(chain)
      /\ Contents # <<>>
      /\ Len(Contents') = Len(chain) - 1
      /\ \A i \in 1..Len(Contents') : Contents'[i] = Contents[i + 1]
      /\ Contents[1] = element[root]
  BY <1>1, <1>2, ContentsFacts DEF Contents
<1>4. Contents' = Tail(Contents)
  BY <1>3, TailFacts, SameSeq
<1>5. out' = Head(Contents)
  BY <1>1, <1>3
<1> QED
  BY <1>3, <1>4, <1>5 DEF Mailbox!Next, Mailbox!Pop, Contents

LEMMA StepRefines ==
  ListInv /\ ListInv' /\ [Next]_vars => [Mailbox!Next]_(Mailbox!vars)
<1> SUFFICES ASSUME ListInv, ListInv', [Next]_vars
             PROVE  [Mailbox!Next]_(Mailbox!vars)
  OBVIOUS
<1>1. CASE Walk
  BY <1>1 DEF Walk, heap, Mailbox!vars
<1>2. CASE Link
  BY <1>2, LinkRefines
<1>3. CASE Pop
  BY <1>3, PopRefines
<1>4. ASSUME NEW v \in Values, Push(v)
      PROVE  [Mailbox!Next]_(Mailbox!vars)
  BY <1>4, PushRefines
<1>5. CASE UNCHANGED vars
  BY <1>5 DEF vars, heap, Mailbox!vars
<1> QED
  BY <1>1, <1>2, <1>3, <1>4, <1>5 DEF Next

\* The linked list is a queue: for any values, and as many nodes as there is
\* memory for.
THEOREM ListImplementsFIFO == Spec => ImplementsFIFO
<1>1. ListInv /\ ListInv' /\ [Next]_vars => [Mailbox!Next]_(Mailbox!vars)
  BY StepRefines
<1> QED
  BY <1>1, InitRefines, ListInvariance, PTL
     DEF Spec, ImplementsFIFO, Mailbox!Spec
=============================================================================
