--------------------------- MODULE EventRingArray ---------------------------
(***************************************************************************)
(* The event ring of src/src/gs_server.c as the circular array it is:      *)
(* events[0..event_ring), ev_head and ev_count.  A ring is a record, so    *)
(* that emit() can push twice in one call.                                 *)
(***************************************************************************)
EXTENDS Integers, Sequences

CONSTANTS EventRing, CounterModulus, Blank

VARIABLE ring

Init ==
  ring = [events |-> [k \in 0..(EventRing - 1) |-> Blank], ev_head |-> 0, ev_count |-> 0,
          event_sequence |-> 0, dropped_events |-> 0, drop_warned |-> "no"]

(* The queue the array represents. *)
Contents ==
  [items |-> [k \in 1..ring.ev_count |->
                ring.events[(ring.ev_head + k - 1) % EventRing]],
   sequence |-> ring.event_sequence, dropped |-> ring.dropped_events,
   drop_warned |-> ring.drop_warned]

Succ(n) == (n + 1) % CounterModulus

(* Mutant: the head stays on the entry about to be overwritten. *)
MakeRoomInPlace(r) ==
  IF r.ev_count < EventRing THEN r
  ELSE [r EXCEPT !.ev_count = r.ev_count - 1,
                 !.dropped_events = Succ(r.dropped_events),
                 !.drop_warned = IF r.drop_warned = "no" THEN "owed" ELSE "said"]

(* ring_push_event: a full ring first moves its head past the oldest. *)
MakeRoom(r) ==
  IF r.ev_count < EventRing THEN r
  ELSE [r EXCEPT !.ev_head = (r.ev_head + 1) % EventRing,
                 !.ev_count = r.ev_count - 1,
                 !.dropped_events = Succ(r.dropped_events),
                 !.drop_warned = IF r.drop_warned = "no" THEN "owed" ELSE "said"]

ring_push_event(r, ev) ==
  LET p == MakeRoom(r)
  IN  [p EXCEPT !.events[(p.ev_head + p.ev_count) % EventRing] = ev,
                !.ev_count = p.ev_count + 1]

Numbered(r, ev) ==
  ring_push_event([r EXCEPT !.event_sequence = Succ(r.event_sequence)],
                  [ev EXCEPT !.sequence = r.event_sequence])

emit(r, ev) ==
  LET p == Numbered(r, ev)
  IN  IF p.drop_warned = "owed"
      THEN Numbered([p EXCEPT !.drop_warned = "said"],
                    [type |-> "WARNING", conn |-> 0, detail |-> "EVENTS_DROPPED",
                     sequence |-> 0, value |-> p.dropped_events])
      ELSE p

Emit(type) ==
  ring' = emit(ring, [type |-> type, conn |-> 1, detail |-> "none",
                      sequence |-> 0, value |-> 0])

(* gsp_server_poll_events with max = 1. *)
PollEvent ==
  /\ ring.ev_count > 0
  /\ ring' = [ring EXCEPT !.ev_head = (ring.ev_head + 1) % EventRing,
                          !.ev_count = ring.ev_count - 1,
                          !.drop_warned = IF ring.ev_count = 1 THEN "no" ELSE ring.drop_warned]
=============================================================================
