----------------------------- MODULE RingArrays -----------------------------
(***************************************************************************)
(* The three rings of src/src/gs_server.c: the circular arrays of the      *)
(* event ring (MCEventLog) and of the write ring beside the queues they    *)
(* implement, and the wire log.                                            *)
(***************************************************************************)
EXTENDS MCEventLog, WriteQueue

CONSTANTS
  Conns,       \* the connections a request may name
  Codes,       \* the reply codes
  NoRequest,   \* what an array entry holds before it is first used
  WireRings, ChunkMax, WireModulus, RecordIdentifiers, Objects, Lines \* the wire log's

VARIABLES
  writes, w_head, w_count,
  wire_ring, wire, wire_sequence, dropped_wire, wire_drop_warned, events, job, written,
  gap, joins, wire_polled, wire_warnings

Write == INSTANCE WriteRingArray WITH Blank <- NoRequest

(* The array of the write ring implements the queue (WriteQueueSpec):      *)
(* appending, compacting and shifting in place, with the head anywhere and *)
(* the ring wrapped, lose, duplicate and reorder nothing.                  *)
ImplementsQueue == Write!ImplementsQueue

Wire == INSTANCE WireLog WITH CounterModulus <- WireModulus, polled <- wire_polled,
                              run_warnings <- wire_warnings

ASSUME WireAssumption ==
  /\ WireRings \subseteq Nat \ {0} /\ ChunkMax \in Nat \ {0} /\ WireModulus \in Nat \ {0}
  /\ RecordIdentifiers \in BOOLEAN
  /\ Objects \cup Lines \subseteq Seq(Wire!WireByte)

(* A LOST mark stands exactly where chunks are missing, the numbers        *)
(* account for every chunk, and a reader that joins chunks by CONTINUES    *)
(* never joins pieces of two messages.                                     *)
GapsAreTold == Wire!GapsAreTold

(* Exactly the identifiers are masked, across chunks too, and a chunk says *)
(* whether it was redacted.                                                *)
MaskedAcrossChunks == Wire!MaskedAcrossChunks
=============================================================================
