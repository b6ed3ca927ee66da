--------------------------- MODULE WriteQueueSpec ---------------------------
(* The write ring as an abstract state machine over WriteQueue. *)
EXTENDS WriteQueue

CONSTANTS Conns, Codes

VARIABLE queue

Request == [conn : Conns, code : Codes]

Init == queue = <<>>

(* queue_write: refused, and nothing changes, when the ring is full. *)
Enqueue(x) == ~write_ring_full(queue) /\ queue' = Append(queue, x)

DropFor(c) == queue' = drop_writes_for(queue, c)

(* poll_writes: the first entry whose connection is not held back. *)
Poll(held) ==
  \E i \in 1..Len(queue) :
    /\ queue[i].conn \notin held
    /\ \A j \in 1..(i - 1) : queue[j].conn \in held
    /\ queue' = RemoveEntry(queue, i)

Next ==
  \/ \E x \in Request : Enqueue(x)
  \/ \E c \in Conns : DropFor(c)
  \/ \E held \in SUBSET Conns : Poll(held)

Spec == Init /\ [][Next]_queue
=============================================================================
