-------------------------------- MODULE Fifo --------------------------------
(***************************************************************************)
(* What src/src/queue.c promises: a first-in first-out queue whose enqueue *)
(* may silently lose the element for lack of memory.  LinkedQueue.tla      *)
(* implements this module, and Server.tla uses its queues as sequences.    *)
(***************************************************************************)
EXTENDS Sequences

CONSTANTS Data, NULL

VARIABLES queue,    \* the elements
          deleted,  \* the queue was deleted
          last      \* the last call and what it returned

vars == <<queue, deleted, last>>

Init ==
  /\ queue = <<>> /\ deleted = FALSE
  /\ last = [op |-> "init_queue", rtn |-> NULL]

Enqueue(d) ==
  /\ queue' \in {Append(queue, d), queue}
  /\ last' = [op |-> "enqueue", rtn |-> NULL]
  /\ UNCHANGED deleted

Dequeue ==
  /\ queue' = IF queue = <<>> THEN <<>> ELSE Tail(queue)
  /\ last' = [op |-> "dequeue", rtn |-> IF queue = <<>> THEN NULL ELSE Head(queue)]
  /\ UNCHANGED deleted

GetFront ==
  /\ last' = [op |-> "get_front", rtn |-> IF queue = <<>> THEN NULL ELSE Head(queue)]
  /\ UNCHANGED <<queue, deleted>>

GetRear ==
  /\ last' = [op |-> "get_rear", rtn |-> IF queue = <<>> THEN NULL ELSE queue[Len(queue)]]
  /\ UNCHANGED <<queue, deleted>>

\* Every element left is destroyed, from front to rear.
Delete ==
  /\ queue' = <<>> /\ deleted' = TRUE
  /\ last' = [op |-> "delete_queue", rtn |-> queue]

Next ==
  /\ ~ deleted
  /\ (\E d \in Data : Enqueue(d)) \/ Dequeue \/ GetFront \/ GetRear \/ Delete

Spec == Init /\ [][Next]_vars
=============================================================================
