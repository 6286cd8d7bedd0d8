------------------------------- MODULE Queue --------------------------------
(***************************************************************************)
(* The linked list of server/queue/queue.go, node by node.  Every call is  *)
(* made with brokersLock held (quashserver.go:150-155, :174-185, :31-39),  *)
(* so calls do not overlap: Push is a step up to its walk, one step per    *)
(* node of the walk, and one to link the new node; Pop is a step.          *)
(*                                                                         *)
(* The heap is two functions on addresses, the fields of a Node.  A node   *)
(* that nothing refers to any more may be allocated again, with whatever   *)
(* address and stale content it had.                                       *)
(***************************************************************************)
EXTENDS Naturals, Sequences, Functions

CONSTANTS
  Nodes,    \* addresses; as many as there is memory for
  Values,   \* what is published
  Nil

ASSUME QueueAssumption == Nil \notin Nodes /\ Nil \notin Values

VARIABLES
  root, counter,   \* Queue.Root, Queue.Counter
  element, next,   \* Node.Element, Node.Next
  pc,              \* "idle", or "walk": Push looks for the last node
  nd, start,       \* Push's local variables
  out,             \* the value Pop returned last
  chain            \* history: the nodes the list is made of, in order

heap == <<element, next>>
vars == <<root, counter, heap, pc, nd, start, out, chain>>

Init ==
  /\ root = Nil
  /\ counter = 0
  /\ element = [n \in Nodes |-> Nil]
  /\ next = [n \in Nodes |-> Nil]
  /\ pc = "idle"
  /\ nd = Nil
  /\ start = Nil
  /\ out = Nil
  /\ chain = <<>>

\* &Node{Element: v, Next: nil} at an address nobody refers to.
Allocate(n, v) ==
  /\ n \in Nodes \ Range(chain)
  /\ element' = [element EXCEPT ![n] = v]
  /\ next' = [next EXCEPT ![n] = Nil]

\* Faulty variant: the count is taken after the early return.
Push_CountsLate(v) ==
  /\ pc = "idle"
  /\ \E n \in Nodes :
       /\ Allocate(n, v)
       /\ IF root = Nil
          THEN /\ root' = n
               /\ chain' = <<n>>
               /\ UNCHANGED <<counter, pc, nd, start>>
          ELSE /\ nd' = n
               /\ start' = root
               /\ pc' = "walk"
               /\ counter' = counter + 1
               /\ UNCHANGED <<root, chain>>
  /\ UNCHANGED out

\* Push up to its loop.  The first node becomes the root, and Push returns.
Push(v) ==
  /\ pc = "idle"
  /\ counter' = counter + 1
  /\ \E n \in Nodes :
       /\ Allocate(n, v)
       /\ IF root = Nil
          THEN /\ root' = n
               /\ chain' = <<n>>
               /\ UNCHANGED <<pc, nd, start>>
          ELSE /\ nd' = n
               /\ start' = root
               /\ pc' = "walk"
               /\ UNCHANGED <<root, chain>>
  /\ UNCHANGED out

\* Faulty variant: the loop tests the node and not its successor.
Walk_PastEnd ==
  /\ pc = "walk"
  /\ start' = next[start]
  /\ UNCHANGED <<root, counter, heap, pc, nd, out, chain>>

\* One turn of the loop.
Walk ==
  /\ pc = "walk"
  /\ next[start] # Nil
  /\ start' = next[start]
  /\ UNCHANGED <<root, counter, heap, pc, nd, out, chain>>

\* Faulty variant: a pushed node is spliced in behind the root.
Link_BehindRoot ==
  /\ pc = "walk"
  /\ next[start] = Nil
  /\ next' = [next EXCEPT ![root] = nd, ![nd] = next[root]]
  /\ chain' = <<Head(chain), nd>> \o Tail(chain)
  /\ pc' = "idle"
  /\ nd' = Nil
  /\ start' = Nil
  /\ UNCHANGED <<root, counter, element, out>>

\* Faulty variant: the new node closes a ring.
Link_Ring ==
  /\ pc = "walk"
  /\ next[start] = Nil
  /\ next' = [next EXCEPT ![start] = nd, ![nd] = root]
  /\ chain' = Append(chain, nd)
  /\ pc' = "idle"
  /\ nd' = Nil
  /\ start' = Nil
  /\ UNCHANGED <<root, counter, element, out>>

\* start.Next = nd, and Push returns.
Link ==
  /\ pc = "walk"
  /\ next[start] = Nil
  /\ next' = [next EXCEPT ![start] = nd]
  /\ chain' = Append(chain, nd)
  /\ pc' = "idle"
  /\ nd' = Nil
  /\ start' = Nil
  /\ UNCHANGED <<root, counter, element, out>>

Count == counter

\* Faulty variant: the last node is popped and stays the root.
Pop_KeepsLast ==
  /\ pc = "idle"
  /\ Count > 0
  /\ out' = element[root]
  /\ root' = IF next[root] = Nil THEN root ELSE next[root]
  /\ counter' = counter - 1
  /\ chain' = Tail(chain)
  /\ UNCHANGED <<heap, pc, nd, start>>

\* The caller is Consume's loop, which pops as often as Count said; on an
\* empty list Pop would dereference nil.
Pop ==
  /\ pc = "idle"
  /\ Count > 0
  /\ out' = element[root]
  /\ root' = next[root]
  /\ counter' = counter - 1
  /\ chain' = Tail(chain)
  /\ UNCHANGED <<heap, pc, nd, start>>

Next == Walk \/ Link \/ Pop \/ \E v \in Values : Push(v)

Spec == Init /\ [][Next]_vars

\* A Push that has begun goes on: it waits for nobody.
FairSpec == Spec /\ WF_vars(Walk \/ Link)
-----------------------------------------------------------------------------
(* Properties *)

\* The local variables of Push are nodes while it runs: its loop does not
\* walk off the end of the list.
TypeOK ==
  /\ root \in Nodes \cup {Nil}
  /\ counter \in Nat
  /\ element \in [Nodes -> Values \cup {Nil}]
  /\ next \in [Nodes -> Nodes \cup {Nil}]
  /\ pc \in {"idle", "walk"}
  /\ IF pc = "walk" THEN nd \in Nodes /\ start \in Nodes
                    ELSE nd = Nil /\ start = Nil
  /\ out \in Values \cup {Nil}
  /\ chain \in Seq(Nodes)

\* queue.go:21-40.  The pointers that start at the root visit the nodes of
\* the list, each once, and end: no node is dropped, shared or reached twice,
\* and the node being pushed is not in the list yet.
ListIsChain ==
  /\ root = IF chain = <<>> THEN Nil ELSE chain[1]
  /\ \A i \in 1..Len(chain) :
       next[chain[i]] = IF i = Len(chain) THEN Nil ELSE chain[i + 1]
  /\ \A i, j \in 1..Len(chain) : chain[i] = chain[j] => i = j
  /\ pc = "walk" => /\ nd \notin Range(chain)
                    /\ next[nd] = Nil
                    /\ start \in Range(chain)

\* quashserver.go:176-178 pops as often as Count said, and queue.go:36
\* dereferences the root: the counter and the list agree whenever a caller
\* can look, at no element and at one element too.
CountIsLength == pc = "idle" => Count = Len(chain)

\* The inductive invariant of QueueProofs.
ListInv ==
  /\ TypeOK
  /\ ListIsChain
  /\ counter = IF pc = "walk" THEN Len(chain) + 1 ELSE Len(chain)
  /\ pc = "walk" => chain # <<>> /\ element[nd] \in Values
  /\ \A i \in 1..Len(chain) : element[chain[i]] \in Values

\* queue.go:29-31.  The walk reaches the end of the list.
PushReturns == pc = "walk" ~> pc = "idle"

\* README.md:41: the mailbox hands out values in the order of publication.
Mailbox ==
  INSTANCE FIFO WITH None <- Nil,
                     items <- [i \in 1..Len(chain) |-> element[chain[i]]]

ImplementsFIFO == Mailbox!Spec
=============================================================================
