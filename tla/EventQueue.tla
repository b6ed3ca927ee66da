----------------------------- MODULE EventQueue -----------------------------
(***************************************************************************)
(* What the event ring of src/src/gs_server.c promises: a bounded queue    *)
(* that drops its OLDEST entry when full, counts what it dropped and says  *)
(* so once per overflow run.  The queue is a record whose items are a      *)
(* sequence, oldest first; EventRingArray.tla has the circular array and   *)
(* shows that it implements this.                                          *)
(***************************************************************************)
EXTENDS Integers, Sequences

CONSTANTS
  EventRing,       \* config.event_ring: capacity of the ring, never 0 (create())
  CounterModulus   \* 2^32 in the code: event_sequence and dropped_events are uint32_t

ASSUME EventAssumption ==
  /\ EventRing \in Nat \ {0}
  /\ CounterModulus \in Nat \ {0}

(* drop_warned: nothing to say, said, owed but not yet said. *)
Warned == {"no", "said", "owed"}

Counter == 0..(CounterModulus - 1)

Succ(n) == (n + 1) % CounterModulus

(* The gsp_event_type values the server emits. *)
EventTypes ==
  {"CONNECTION_OPENED", "CONNECTION_CLOSED", "CLIENT_IDENTIFIED", "CLIENT_STATE",
   "CLIENT_IDLE", "CLIENT_ACTIVE", "SHOT", "HEARTBEAT", "STATUS", "PLAYER_INFO_SENT",
   "SESSION_STATE_SENT", "PROTOCOL_ERROR", "CLOSE_REQUESTED", "WARNING"}

(* What the rest of a gsp_event says, as far as it is told apart here: the *)
(* warning, the protocol error, a repeated shot, the state reported.       *)
Details ==
  {"none", "EVENTS_DROPPED", "WIRE_DROPPED", "WRITE_RING_FULL", "DEVICE_ID_CHANGED",
   "LEADING_GARBAGE", "TOO_LARGE", "BAD_JSON", "SERVER_CLOSED", "repeated", "ready, ball",
   "ready", "ball"}

Event == [type : EventTypes, conn : Nat, detail : Details,
          sequence : Counter, value : Counter]

(* A queue in good order: never over its capacity. *)
QueueOK(q) ==
  /\ q \in [items : Seq(Event), sequence : Counter, dropped : Counter, drop_warned : Warned]
  /\ Len(q.items) <= EventRing

EmptyQueue == [items |-> <<>>, sequence |-> 0, dropped |-> 0, drop_warned |-> "no"]

(* The warning emit() adds: it belongs to no connection and carries the    *)
(* number of events dropped so far.                                        *)
DropWarning(q) ==
  [type |-> "WARNING", conn |-> 0, detail |-> "EVENTS_DROPPED",
   sequence |-> q.sequence, value |-> q.dropped]

Room(q) == Len(q.items) < EventRing

(* Mutants: a full ring grows; drops uncounted; drops the newest instead. *)
push_grows(q, ev) == [q EXCEPT !.items = Append(q.items, ev)]

push_uncounted(q, ev) ==
  IF Room(q)
  THEN [q EXCEPT !.items = Append(q.items, ev)]
  ELSE [q EXCEPT !.items       = Append(Tail(q.items), ev),
                 !.drop_warned = IF q.drop_warned = "no" THEN "owed" ELSE "said"]

push_drops_newest(q, ev) ==
  IF Room(q)
  THEN [q EXCEPT !.items = Append(q.items, ev)]
  ELSE [q EXCEPT !.dropped     = Succ(q.dropped),
                 !.drop_warned = IF q.drop_warned = "no" THEN "owed" ELSE "said"]

ring_push_event(q, ev) ==
  IF Room(q)
  THEN [q EXCEPT !.items = Append(q.items, ev)]
  ELSE [q EXCEPT !.items       = Append(Tail(q.items), ev),
                 !.dropped     = Succ(q.dropped),
                 !.drop_warned = IF q.drop_warned = "no" THEN "owed" ELSE "said"]

(* Mutant: the number is used and not taken. *)
Renumbered(q) == q

(* The queue with its sequence counter taken by the entry being pushed. *)
Numbered(q) == [q EXCEPT !.sequence = Succ(q.sequence)]

emit(q, type, conn, detail) ==
  LET ev == [type |-> type, conn |-> conn, detail |-> detail,
             sequence |-> q.sequence, value |-> 0]
      p  == ring_push_event(Numbered(q), ev)
  IN  IF p.drop_warned = "owed"
      THEN ring_push_event(Numbered([p EXCEPT !.drop_warned = "said"]), DropWarning(p))
      ELSE p

(* Mutant: emptying the ring does not end the overflow run. *)
poll_event_stays_warned(q) ==
  [q EXCEPT !.items = IF q.items = <<>> THEN <<>> ELSE Tail(q.items)]

(* gsp_server_poll_events with max = 1; a larger max repeats it. *)
poll_event(q) ==
  LET rest == IF q.items = <<>> THEN <<>> ELSE Tail(q.items)
  IN  [q EXCEPT !.items       = rest,
                !.drop_warned = IF rest = <<>> THEN "no" ELSE q.drop_warned]
=============================================================================
