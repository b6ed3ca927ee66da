--------------------------- MODULE WriteRingArray ---------------------------
(***************************************************************************)
(* The write ring of src/src/gs_server.c as the circular array it is:      *)
(* writes[0..write_ring), w_head and w_count, with the in-place compaction *)
(* of drop_writes_for and the shift of poll_writes.                        *)
(***************************************************************************)
EXTENDS Integers, Sequences

CONSTANTS
  WriteRing,   \* config.write_ring
  Conns,       \* connections a request may name
  Codes,       \* reply codes, the data of a request
  Blank        \* a zeroed array entry

VARIABLES writes, w_head, w_count

vars == <<writes, w_head, w_count>>

Index == 0..(WriteRing - 1)

Request == [conn : Conns, code : Codes]

Init == writes = [k \in Index |-> Blank] /\ w_head = 0 /\ w_count = 0

At(i) == (w_head + i) % WriteRing

(* queue_write: the entry after the last, if there is room. *)
queue_write(x) ==
  /\ w_count < WriteRing
  /\ writes' = [writes EXCEPT ![At(w_count)] = x]
  /\ w_count' = w_count + 1
  /\ UNCHANGED w_head

(* drop_writes_for: loop[i] is the array and `keep` after i passes.  An    *)
(* entry kept is copied down over one already read.                        *)
drop_loop(c) ==
  LET loop[i \in 0..w_count] ==
        IF i = 0 THEN [a |-> writes, keep |-> 0]
        ELSE LET p   == loop[i - 1]
                 src == p.a[At(i - 1)]
             IN  IF src.conn = c THEN p
                 ELSE [a |-> [p.a EXCEPT ![At(p.keep)] = src], keep |-> p.keep + 1]
  IN  loop[w_count]

drop_writes_for(c) ==
  /\ writes' = drop_loop(c).a
  /\ w_count' = drop_loop(c).keep
  /\ UNCHANGED w_head

(* Mutant: the entries move up front first, over ones not yet moved. *)
shift_from_front(i) ==
  LET loop[n \in 0..i] ==
        IF n = 0 THEN writes
        ELSE [loop[n - 1] EXCEPT ![At(n)] = loop[n - 1][At(n - 1)]]
  IN  loop[i]

(* poll_writes removes entry i: the i entries before it move up by one,    *)
(* and the head follows.                                                   *)
shift_loop(i) ==
  LET loop[n \in 0..i] ==
        IF n = 0 THEN writes
        ELSE LET k == i - n + 1
             IN  [loop[n - 1] EXCEPT ![At(k)] = loop[n - 1][At(k - 1)]]
  IN  loop[i]

poll_write(held) ==
  \E i \in 0..(w_count - 1) :
    /\ writes[At(i)].conn \notin held
    /\ \A j \in 0..(i - 1) : writes[At(j)].conn \in held
    /\ writes' = shift_loop(i)
    /\ w_head' = (w_head + 1) % WriteRing
    /\ w_count' = w_count - 1

Next ==
  \/ \E x \in Request : queue_write(x)
  \/ \E c \in Conns : drop_writes_for(c)
  \/ \E held \in SUBSET Conns : poll_write(held)

Spec == Init /\ [][Next]_vars
-----------------------------------------------------------------------------
(* The queue the array represents. *)
Contents == [k \in 1..w_count |-> writes[At(k - 1)]]

Queue == INSTANCE WriteQueueSpec WITH queue <- Contents

(* The array implements the queue: appending, compacting and shifting in   *)
(* place, with the head anywhere and the ring wrapped, lose, duplicate and *)
(* reorder nothing.                                                        *)
ImplementsQueue == Queue!Spec
=============================================================================
