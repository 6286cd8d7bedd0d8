-------------------------------- MODULE FIFO --------------------------------
(***************************************************************************)
(* What a mailbox promises its broker: values leave it in the order in     *)
(* which they came, each once.  Broker takes every queue for the sequence  *)
(* of its elements, that is for an instance of this module; Queue shows    *)
(* that the linked list of server/queue/queue.go is one.                   *)
(***************************************************************************)
EXTENDS Sequences

CONSTANTS
  Values,
  None     \* nothing has been popped yet

VARIABLES
  items,   \* the values in the queue, oldest first
  out      \* the value Pop returned last

vars == <<items, out>>

Init == items = <<>> /\ out = None

Push(v) == items' = Append(items, v) /\ UNCHANGED out

Pop ==
  /\ items # <<>>
  /\ out' = Head(items)
  /\ items' = Tail(items)

Next == Pop \/ \E v \in Values : Push(v)

Spec == Init /\ [][Next]_vars
=============================================================================
