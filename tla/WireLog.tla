------------------------------ MODULE WireLog -------------------------------
(***************************************************************************)
(* The wire log of src/src/gs_server.c (design 7): a byte-level record of  *)
(* what clients sent, what was sent to them and when connections came and  *)
(* went, cut into chunks, with identifiers masked, in a ring that drops    *)
(* its oldest chunk.  One pass of wire_push_bytes' loop is one step.       *)
(*                                                                         *)
(* A byte is one of the classes the redactor tells apart; "name" stands    *)
(* for the eight letters of DeviceID in any case.  A chunk in the ring     *)
(* keeps its number, its flags and where in its buffer it began; its bytes *)
(* are in `written`, the history of what was copied for the buffer.        *)
(***************************************************************************)
EXTENDS EventQueue

CONSTANTS
  WireRings,          \* the config.wire_ring values tried, 0 (off) left out
  ChunkMax,           \* GSP_WIRE_CHUNK_MAX
  RecordIdentifiers,  \* policy.record_identifiers
  Objects,            \* what clients send: framed objects and discarded runs
  Lines               \* what is recorded as it is: replies, and META lines

WireByte == {"quote", "name", "colon", "space", "escape", "other"}

(* GS_WIRE_MASK, shortened. *)
Mask == <<"mask 1", "mask 2", "mask 3">>

VARIABLES
  wire_ring,     \* config.wire_ring
  wire,          \* the chunks in the ring, oldest first
  wire_sequence, dropped_wire, wire_drop_warned,
  events,        \* the event ring, which takes the warning
  job,           \* the running wire_push_bytes, or NoJob
  written,       \* history: the bytes copied into the chunks of job
  gap,           \* history: a chunk was dropped since the last one polled
  joins,         \* history: the last chunk polled said that it continues
  polled,        \* history: chunks polled
  run_warnings   \* history: warnings since the ring was last emptied

ringVars == <<wire, wire_sequence, dropped_wire, wire_drop_warned>>
histVars == <<gap, joins, polled, run_warnings>>
vars == <<wire_ring, ringVars, events, job, written, histVars>>
-----------------------------------------------------------------------------
(* The redactor.  Offsets are the code's, from 0. *)

At(buf, k) == buf[k + 1]

InBuf(buf, k, b) == k < Len(buf) /\ At(buf, k) = b

(* The first offset from j on that does not hold white space. *)
SkipSpace(buf, j) ==
  CHOOSE k \in j..Len(buf) :
    /\ k < Len(buf) => At(buf, k) # "space"
    /\ \A i \in j..(k - 1) : At(buf, i) = "space"

KeyAt(buf, i) ==
  InBuf(buf, i, "quote") /\ InBuf(buf, i + 1, "name") /\ InBuf(buf, i + 2, "quote")

ColonFor(buf, i) == SkipSpace(buf, i + 3)

QuoteFor(buf, i) == SkipSpace(buf, ColonFor(buf, i) + 1)

(* A key whose value is a string. *)
Matches(buf, i) ==
  /\ KeyAt(buf, i)
  /\ InBuf(buf, ColonFor(buf, i), "colon")
  /\ InBuf(buf, QuoteFor(buf, i), "quote")

(* Where the string that begins at j ends: its closing quote, or the end   *)
(* of the buffer if it has none.  A backslash hides the byte after it.     *)
value_end(buf, j) ==
  LET hidden[k \in (j - 1)..Len(buf)] ==
        k >= j /\ k > 0 /\ ~hidden[k - 1] /\ k - 1 >= j /\ At(buf, k - 1) = "escape"
  IN  CHOOSE v \in j..Len(buf) :
        /\ v < Len(buf) => At(buf, v) = "quote" /\ ~hidden[v]
        /\ \A k \in j..(v - 1) : At(buf, k) = "quote" => hidden[k]

NewCursor == [next |-> 0, start |-> 0, end |-> 0, have |-> FALSE]

redactor_next(buf, r) ==
  LET found == {i \in r.next..(Len(buf) - 1) : Matches(buf, i)}
      i     == CHOOSE x \in found : \A y \in found : x <= y
      start == QuoteFor(buf, i) + 1
      end   == value_end(buf, start)
  IN  IF found = {} THEN [r EXCEPT !.have = FALSE, !.next = Len(buf)]
      ELSE [start |-> start, end |-> end, have |-> TRUE,
            next |-> IF end < Len(buf) THEN end + 1 ELSE Len(buf)]

(* Mutant: a value that goes on in the next chunk is taken as done with. *)
straddles_never(r, end) == FALSE

straddles(r, end) == r.end > end

(* One pass of redactor_apply's loop over the chunk [off, end): p has the  *)
(* cursor, the offsets to mask with the value each belongs to, and whether *)
(* the loop has returned.                                                  *)
redactor_pass(buf, p, off, end) ==
  LET r == IF p.r.have THEN p.r ELSE redactor_next(buf, p.r)
      a == IF r.start > off THEN r.start ELSE off
      b == IF r.end < end THEN r.end ELSE end
  IN  IF p.done THEN p
      ELSE IF ~r.have THEN [p EXCEPT !.r = r, !.done = TRUE]
      ELSE IF r.end <= off THEN [p EXCEPT !.r = [r EXCEPT !.have = FALSE]]
      ELSE IF r.start >= end THEN [p EXCEPT !.r = r, !.done = TRUE]
      ELSE [r      |-> [r EXCEPT !.have = straddles(r, end)],
            masked |-> p.masked \cup {<<k, r.start>> : k \in a..(b - 1)},
            done   |-> straddles(r, end)]

(* The passes until it returns; each but the last leaves a value behind. *)
redactor_apply(buf, r, off, n) ==
  LET pass[k \in 0..(Len(buf) + 1)] ==
        IF k = 0 THEN [r |-> r, masked |-> {}, done |-> FALSE]
        ELSE redactor_pass(buf, pass[k - 1], off, off + n)
  IN  pass[Len(buf) + 1]

(* The bytes [off, off + n) with the masked ones overwritten. *)
ChunkData(buf, off, n, masked) ==
  [k \in 1..n |->
     LET at == {m \in masked : m[1] = off + k - 1}
     IN  IF at = {} THEN At(buf, off + k - 1)
         ELSE LET m == CHOOSE x \in at : TRUE
              IN  Mask[((m[1] - m[2]) % Len(Mask)) + 1]]
-----------------------------------------------------------------------------
NoJob == [buf |-> <<>>, off |-> 0, redact |-> FALSE, withheld |-> FALSE, r |-> NewCursor]

Init ==
  /\ wire_ring \in WireRings
  /\ wire = <<>> /\ wire_sequence = 0 /\ dropped_wire = 0
  /\ wire_drop_warned = "no"
  /\ events = EmptyQueue
  /\ job = NoJob /\ written = <<>>
  /\ gap = FALSE /\ joins = FALSE /\ polled = 0 /\ run_warnings = 0

wire_push_bytes(buf, redact, withheld) ==
  /\ job = NoJob
  /\ job' = [buf |-> buf, off |-> 0, redact |-> redact, withheld |-> withheld, r |-> NewCursor]
  /\ written' = <<>>
  /\ UNCHANGED <<wire_ring, ringVars, events, histVars>>

(* A framed object, or a run of bytes the framer threw away. *)
WireClient(buf) == wire_push_bytes(buf, ~RecordIdentifiers, FALSE)

(* A reply, as the host polls it. *)
WireReply(buf) == wire_push_bytes(buf, FALSE, FALSE)

(* An open or a close, as a line that already withholds the address. *)
WireMeta(buf, sensitive) == wire_push_bytes(buf, FALSE, ~RecordIdentifiers /\ sensitive)

Least(a, b) == IF a < b THEN a ELSE b

(* Mutant: the newcomer is marked, not the oldest survivor. *)
MarkNewest(rest, chunk) == Append(rest, [chunk EXCEPT !.lost = TRUE])

(* After a drop the chunk at the front is where the reader meets the gap.  *)
MarkFront(rest, chunk) ==
  IF rest = <<>> THEN <<[chunk EXCEPT !.lost = TRUE]>>
  ELSE Append(<<[rest[1] EXCEPT !.lost = TRUE]>> \o Tail(rest), chunk)

owes_warning(warned) == warned = "no"

WireRoom == Len(wire) < wire_ring

(* wire_ring_push: a drop is counted, the front is marked, and the first   *)
(* drop of an overflow run is said.  In a ring of one the mark is owed     *)
(* (wire_lost_pending) to the chunk this same call stores: nothing is owed *)
(* once it has returned, and the field is not modelled.                    *)
wire_ring_push(chunk) ==
  IF WireRoom
  THEN /\ wire' = Append(wire, chunk)
       /\ UNCHANGED <<dropped_wire, wire_drop_warned, events, gap,
                      run_warnings>>
  ELSE /\ wire' = MarkFront(Tail(wire), chunk)
       /\ dropped_wire' = Succ(dropped_wire)
       /\ wire_drop_warned' = "said"
       /\ gap' = TRUE
       /\ IF owes_warning(wire_drop_warned)
          THEN /\ events' = emit(events, "WARNING", 0, "WIRE_DROPPED")
               /\ run_warnings' = run_warnings + 1
          ELSE UNCHANGED <<events, run_warnings>>

next_sequence == Succ(wire_sequence)

more(off, len) == off < len

took_out(cut) == cut.masked # {}

PushChunk ==
  LET len == Len(job.buf)
      n   == Least(len - job.off, ChunkMax)
      cut == redactor_apply(job.buf, job.r, job.off, n)
      masked == IF job.redact THEN cut.masked ELSE {}
      chunk  == [sequence  |-> wire_sequence,
                 off       |-> job.off,
                 redacted  |-> job.withheld \/ (job.redact /\ took_out(cut)),
                 continues |-> more(job.off + n, len),
                 lost      |-> FALSE]
  IN  /\ job # NoJob /\ job.off < len
      /\ wire_ring_push(chunk)
      /\ wire_sequence' = next_sequence
      /\ written' = written \o ChunkData(job.buf, job.off, n, masked)
      /\ job' = [job EXCEPT !.off = job.off + n,
                            !.r = IF job.redact THEN cut.r ELSE job.r]
      /\ UNCHANGED <<wire_ring, joins, polled>>

PushReturns ==
  /\ job # NoJob /\ job.off = Len(job.buf)
  /\ job' = NoJob /\ written' = <<>>
  /\ UNCHANGED <<wire_ring, ringVars, events, histVars>>

(* gsp_server_poll_wire with max = 1; a larger max repeats it. *)
PollWire ==
  /\ job = NoJob
  /\ wire # <<>>
  /\ wire' = Tail(wire)
  /\ wire_drop_warned' = IF wire' = <<>> THEN "no" ELSE wire_drop_warned
  /\ run_warnings' = IF wire' = <<>> THEN 0 ELSE run_warnings
  /\ gap' = FALSE
  /\ joins' = wire[1].continues
  /\ polled' = Succ(polled)
  /\ UNCHANGED <<wire_ring, wire_sequence, dropped_wire, events, job, written>>

PollEvents ==
  /\ job = NoJob
  /\ events' = poll_event(events)
  /\ UNCHANGED <<wire_ring, ringVars, job, written, histVars>>

Next ==
  \/ \E buf \in Objects : WireClient(buf)
  \/ \E buf \in Lines : WireReply(buf) \/ \E sensitive \in BOOLEAN : WireMeta(buf, sensitive)
  \/ PushChunk \/ PushReturns \/ PollWire \/ PollEvents

Spec == Init /\ [][Next]_vars
-----------------------------------------------------------------------------
(* PROPERTIES *)

(* A chunk continues a message exactly when the one before it says so, in  *)
(* the ring and across polls.                                              *)
ChunksReassemble ==
  /\ \A k \in 1..(Len(wire) - 1) : wire[k].continues <=> wire[k + 1].off > 0
  /\ wire # <<>> /\ ~wire[1].lost => (joins <=> wire[1].off > 0)
  /\ wire # <<>> /\ wire[Len(wire)].continues => job.off < Len(job.buf)

(* The reader meets a LOST mark exactly where chunks are missing: the      *)
(* oldest chunk carries it if and only if one was dropped since the last   *)
(* poll, however the drops and polls interleave and whatever the ring's    *)
(* size, and no chunk behind it does.  The numbers say how much: they have *)
(* no gap inside the ring, every chunk numbered was polled, counted as     *)
(* dropped, or is there still, and each overflow run is warned of once.    *)
(* So a reader that joins chunks while CONTINUES is set, and starts again  *)
(* at a LOST mark, never joins pieces of two messages.                     *)
GapsAreTold ==
  /\ ChunksReassemble
  /\ wire # <<>> => wire[1].lost = gap
  /\ \A k \in 2..Len(wire) : ~wire[k].lost
  /\ Len(wire) <= wire_ring
  /\ \A k \in 1..(Len(wire) - 1) : wire[k + 1].sequence = Succ(wire[k].sequence)
  /\ (polled + dropped_wire + Len(wire)) % CounterModulus = wire_sequence
  /\ run_warnings = IF wire_drop_warned = "no" THEN 0 ELSE 1

(* A reference for the redactor: one pass from left to right, a state per  *)
(* byte and no search.  "key" is the closing quote of the name, which may  *)
(* itself open the next; a value is masked up to its closing quote.        *)
Scan(buf) ==
  LET step(s, b) ==
        IF s.at = "value" THEN CASE b = "quote"  -> [at |-> "none", start |-> 0]
                                 [] b = "escape" -> [s EXCEPT !.at = "hidden"]
                                 [] OTHER        -> s
        ELSE IF s.at = "hidden" THEN [s EXCEPT !.at = "value"]
        ELSE [start |-> 0,
              at |-> CASE b = "quote" -> CASE s.at = "name" -> "key"
                                           [] s.at = "colon" -> "value"
                                           [] OTHER -> "quote"
                       [] b = "name" /\ s.at \in {"quote", "key"} -> "name"
                       [] b = "colon" /\ s.at \in {"key", "after key"} -> "colon"
                       [] b = "space" /\ s.at \in {"key", "after key"} -> "after key"
                       [] b = "space" /\ s.at = "colon" -> "colon"
                       [] OTHER -> "none"]
      at[k \in 0..Len(buf)] ==
        IF k = 0 THEN [at |-> "none", start |-> 0]
        ELSE LET s == step(at[k - 1], buf[k])
             IN  IF s.at = "value" /\ at[k - 1].at = "colon" THEN [s EXCEPT !.start = k] ELSE s
  IN  at

InValue(s) == s.at \in {"value", "hidden"}

Redacted(buf) ==
  LET at == Scan(buf)
  IN  [k \in 1..Len(buf) |->
         IF InValue(at[k - 1]) /\ InValue(at[k])
         THEN Mask[((k - 1 - at[k - 1].start) % Len(Mask)) + 1] ELSE buf[k]]

(* What is recorded is what was there, byte for byte, with every DeviceID  *)
(* value masked and nothing else: wherever the chunks cut it, the cursor   *)
(* kept between them masks a value that straddles them to its last byte    *)
(* with one running mask; and the chunk is marked REDACTED exactly when    *)
(* something was taken out of it, or of the line it belongs to before.     *)
(* The key is the one the redactor looks for, literally spelled; one       *)
(* spelled with escapes is another key to it, though not to the decoder.   *)
MaskedAcrossChunks ==
  /\ written = SubSeq(IF job.redact THEN Redacted(job.buf) ELSE job.buf, 1, job.off)
  /\ job.off > 0 /\ wire # <<>> =>
       LET newest == wire[Len(wire)]
       IN  newest.redacted = (job.withheld \/ SubSeq(written, newest.off + 1, job.off)
                                                # SubSeq(job.buf, newest.off + 1, job.off))
=============================================================================
