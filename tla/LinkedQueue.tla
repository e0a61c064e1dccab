---------------------------- MODULE LinkedQueue ----------------------------
(***************************************************************************)
(* The doubly linked list of src/src/queue.c.  A call is one step: the     *)
(* server makes each under the queue's mutex (see Server.tla).  calloc may *)
(* fail at any time.  A freed node's fields keep what they held, so a use  *)
(* of them after the free would show.                                      *)
(***************************************************************************)
EXTENDS Integers, Sequences, FiniteSets

CONSTANTS Data,  \* what is queued
          Node,  \* addresses of list nodes
          NULL

ASSUME NullAssumption == NULL \notin Node \cup Data
ASSUME NodeAssumption == IsFiniteSet(Node)

VARIABLES
  front, rear,       \* the fields of struct Queue
  data, next, prev,  \* the fields of each ListNode
  heap,              \* the allocated nodes
  deleted,           \* delete_queue was called
  last               \* the last call and what it returned

fields == <<data, next, prev>>
vars == <<front, rear, fields, heap, deleted, last>>

\* init_queue.
Init ==
  /\ front = NULL /\ rear = NULL
  /\ data = [n \in Node |-> NULL]
  /\ next = [n \in Node |-> NULL]
  /\ prev = [n \in Node |-> NULL]
  /\ heap = {}
  /\ deleted = FALSE
  /\ last = [op |-> "init_queue", rtn |-> NULL]

-----------------------------------------------------------------------------

\* The first element.
EnqueueFirst(n, d) ==
  /\ front = NULL /\ rear = NULL
  /\ front' = n /\ rear' = n
  /\ next' = [next EXCEPT ![n] = NULL]
  /\ prev' = [prev EXCEPT ![n] = NULL]

EnqueueRear(n, d) ==
  /\ ~ (front = NULL /\ rear = NULL)
  /\ next' = [next EXCEPT ![n] = NULL, ![rear] = n]
  /\ prev' = [prev EXCEPT ![n] = rear]
  /\ rear' = n
  /\ UNCHANGED front

enqueue(d) ==
  /\ last' = [op |-> "enqueue", rtn |-> NULL]
  /\ UNCHANGED deleted
  /\ \/ \E n \in Node \ heap :
          /\ heap' = heap \cup {n}
          /\ data' = [data EXCEPT ![n] = d]
          /\ EnqueueFirst(n, d) \/ EnqueueRear(n, d)
     \/ UNCHANGED <<front, rear, fields, heap>>  \* calloc returned NULL

\* Mutant: rear keeps pointing to the freed node.
DequeueOnly_rear_kept ==
  /\ front # NULL /\ front = rear
  /\ front' = NULL
  /\ UNCHANGED <<rear, next, prev>>

DequeueOnly ==
  /\ front # NULL /\ front = rear
  /\ front' = NULL /\ rear' = NULL
  /\ UNCHANGED <<next, prev>>

\* Mutant: the new front is the node after the next.
DequeueFront_skips ==
  /\ front # NULL /\ front # rear
  /\ front' = next[next[front]]
  /\ next' = [next EXCEPT ![front] = NULL]
  /\ prev' = [prev EXCEPT ![next[front]] = NULL]
  /\ UNCHANGED rear

DequeueFront ==
  /\ front # NULL /\ front # rear
  /\ next' = [next EXCEPT ![front] = NULL]
  /\ prev' = [prev EXCEPT ![next[front]] = NULL]
  /\ front' = next[front]
  /\ UNCHANGED rear

DequeueNothing == front = NULL /\ UNCHANGED <<front, rear, next, prev>>

dequeue ==
  /\ DequeueNothing \/ DequeueOnly \/ DequeueFront
  /\ heap' = heap \ {front}
  /\ last' = [op |-> "dequeue", rtn |-> IF front = NULL THEN NULL ELSE data[front]]
  /\ UNCHANGED <<data, deleted>>

get_front ==
  /\ last' = [op |-> "get_front", rtn |-> IF front = NULL THEN NULL ELSE data[front]]
  /\ UNCHANGED <<front, rear, fields, heap, deleted>>

get_rear ==
  /\ last' = [op |-> "get_rear", rtn |-> IF rear = NULL THEN NULL ELSE data[rear]]
  /\ UNCHANGED <<front, rear, fields, heap, deleted>>

\* The node reached from the front in n steps.
Walk[n \in 0 .. Cardinality(Node)] ==
  IF n = 0 THEN front
  ELSE IF Walk[n - 1] = NULL THEN NULL ELSE next[Walk[n - 1]]
Length == Cardinality({n \in 0 .. Cardinality(Node) - 1 : Walk[n] # NULL})
Chain == [n \in 1 .. Length |-> Walk[n - 1]]
Elements == [n \in 1 .. Length |-> data[Walk[n - 1]]]

\* delete_queue walks along next, destroys the data and frees the nodes.
delete_queue ==
  /\ heap' = heap \ {Chain[m] : m \in 1 .. Length}
  /\ deleted' = TRUE
  /\ last' = [op |-> "delete_queue", rtn |-> Elements]
  /\ UNCHANGED <<front, rear, fields>>

Next ==
  /\ ~ deleted
  /\ (\E d \in Data : enqueue(d)) \/ dequeue \/ get_front \/ get_rear \/ delete_queue

Spec == Init /\ [][Next]_vars

-----------------------------------------------------------------------------
(* Properties.                                                             *)

\* The queue's fields are node addresses or NULL.
TypeOK ==
  /\ {front, rear} \subseteq Node \cup {NULL}
  /\ data \in [Node -> Data \cup {NULL}]
  /\ next \in [Node -> Node \cup {NULL}] /\ prev \in [Node -> Node \cup {NULL}]
  /\ heap \subseteq Node

\* The list can be walked both ways: from front along next to rear, and every
\* node's predecessor points back to it; both ends are NULL for an empty queue.
LinksAgree ==
  ~ deleted =>
    /\ (front = NULL) = (rear = NULL)
    /\ front # NULL => prev[front] = NULL /\ next[rear] = NULL /\ Walk[Length - 1] = rear
    /\ \A n \in 1 .. Length - 1 : prev[Chain[n + 1]] = Chain[n]

\* The allocated nodes are exactly the linked ones, so nothing is lost or freed
\* while it is linked; delete_queue leaves none.
NodesExact ==
  heap = IF deleted THEN {} ELSE {Chain[n] : n \in 1 .. Length}

\* The list is sound after any sequence of calls, whichever calloc failed.
ListOK == TypeOK /\ LinksAgree /\ NodesExact

queue == IF deleted THEN <<>> ELSE Elements
Abstract == INSTANCE Fifo

\* The links behave as a sequence: what Server.tla takes the queues to be.
ImplementsFifo == Abstract!Spec
=============================================================================
