----------------------------- MODULE WriteQueue -----------------------------
(***************************************************************************)
(* What the write ring of src/src/gs_server.c promises: a bounded queue    *)
(* that REFUSES when it is full.  The queue is a sequence of requests,     *)
(* oldest first; WriteRingArray.tla has the circular array and shows that  *)
(* it implements this.                                                     *)
(***************************************************************************)
EXTENDS Integers, Sequences

CONSTANT WriteRing      \* config.write_ring

ASSUME WriteAssumption == WriteRing \in Nat \ {0}

(* Mutant: the ring is thought full one entry early. *)
full_early(w) == Len(w) + 1 >= WriteRing

write_ring_full(w) == Len(w) >= WriteRing

(* The loop of drop_writes_for: kept[n] is what is kept of the first n     *)
(* entries, which is what is addressed to a connection of C.               *)
kept_writes(w, C) ==
  LET kept[n \in 0..Len(w)] ==
        IF n = 0 THEN <<>>
        ELSE IF w[n].conn \in C THEN Append(kept[n - 1], w[n]) ELSE kept[n - 1]
  IN  kept[Len(w)]

Addressees(w) == {w[k].conn : k \in 1..Len(w)}

(* Mutant: drops nothing. *)
drop_nothing(w, c) == w

drop_writes_for(w, c) == kept_writes(w, Addressees(w) \ {c})

(* Mutant: the count goes down and nothing is shifted. *)
RemoveUnshifted(w, i) == SubSeq(w, 1, Len(w) - 1)

(* poll_writes takes entry i out and keeps the rest in order. *)
RemoveEntry(w, i) == SubSeq(w, 1, i - 1) \o SubSeq(w, i + 1, Len(w))

(* The entries of one connection, in ring order. *)
WritesFor(w, c) == kept_writes(w, {c})
=============================================================================
