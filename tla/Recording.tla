----------------------------- MODULE Recording ------------------------------
(***************************************************************************)
(* The .gswire container of src/record/gs_record.c: the recorder that a    *)
(* host such as src/tools/gsplisten.c hands drained chunks to, the file it *)
(* leaves, and the reader.  The process may be killed at any step, and any *)
(* write to the disk may fail, once or for good.                           *)
(*                                                                         *)
(* The file is a sequence of units: the lines of the header, and for each  *)
(* record two units of fixed header and one per unit of payload.  A unit   *)
(* of a record knows the chunk it was written for, which a reader sees     *)
(* only as long as it is in step with the writer.                          *)
(***************************************************************************)
EXTENDS Integers, SequencesExt

CONSTANTS
  ChunkMax,    \* GSP_WIRE_CHUNK_MAX
  BatchMax,    \* the chunks one gs_drain_wire pass hands over (16)
  MaxChunks    \* bound: chunks the host hands over altogether

VARIABLES
  disk,         \* the file as the operating system has it
  buf,          \* what stdio still holds
  phase,        \* "recording", "closed" or "killed"
  pc,           \* the running gsp_recorder_write: "host", "head", "payload", "flush"
  batch,        \* its chunks not yet written
  first_error,  \* kept for close()
  chunks,       \* gsp_recorder_chunks
  said,         \* gsplisten has told its user of a batch that was not taken
  reader,       \* the gsp_replay: where it is, what it got, its status
  given,        \* history: the lengths of the chunks handed over, in order
  accepted,     \* history: how many of them were in calls that returned GSP_OK
  outcome       \* what gsp_recorder_close returned, "none" before

fileVars == <<disk, buf>>
recVars  == <<phase, pc, batch, first_error, chunks, said, given, accepted, outcome>>
vars == <<fileVars, recVars, reader>>
-----------------------------------------------------------------------------
Chunk(n, length) == [number |-> n, length |-> length]

(* A chunk that no writer wrote. *)
Bogus == Chunk(0, 0)

(* The magic, the keys, and the blank line that ends the header. *)
Header == <<[of |-> Bogus, at |-> "magic"], [of |-> Bogus, at |-> "keys"],
            [of |-> Bogus, at |-> "blank"]>>

HeadUnits(c) == <<[of |-> c, at |-> "head 1"], [of |-> c, at |-> "head 2"]>>

PayloadUnits(c) == [k \in 1..c.length |-> [of |-> c, at |-> "payload"]]

HeadLen == 2

Init ==
  /\ disk = <<>> /\ buf = Header
  /\ phase = "recording" /\ pc = "host" /\ batch = <<>>
  /\ first_error = FALSE /\ chunks = 0 /\ said = FALSE
  /\ given = <<>> /\ accepted = 0 /\ outcome = "none"
  /\ reader = [at |-> 0, got |-> <<>>, status |-> "unopened"]

(* stdio takes the units, and hands on to the system as many of those it   *)
(* holds as it likes.                                                      *)
fwrite(units) ==
  \E k \in 0..Len(buf \o units) :
    /\ disk' = disk \o SubSeq(buf \o units, 1, k)
    /\ buf' = SubSeq(buf \o units, k + 1, Len(buf \o units))

(* A write to the system fell short.  How much of what was left stdio      *)
(* keeps for a later attempt and how much it drops differs between         *)
(* libraries.                                                              *)
WriteFails(units) ==
  LET all == buf \o units
  IN  \E k \in 0..(Len(all) - 1) : \E j \in k..Len(all) :
        /\ disk' = disk \o SubSeq(all, 1, k)
        /\ buf' = SubSeq(all, k + 1, j)

(* gsp_recorder_open: the header stays in stdio's buffer unless it failed. *)
OpenFails ==
  /\ phase = "recording" /\ pc = "host" /\ given = <<>> /\ ~first_error
  /\ WriteFails(<<>>)
  /\ first_error' = TRUE
  /\ UNCHANGED <<phase, pc, batch, chunks, said, given, accepted, outcome, reader>>

(* gs_drain_wire calls gsp_recorder_write with what it polled.  Every      *)
(* length is checked before the first chunk is written.                    *)
Write(lengths) ==
  /\ phase = "recording" /\ pc = "host"
  /\ Len(given) + Len(lengths) <= MaxChunks
  /\ IF \E k \in DOMAIN lengths : lengths[k] > ChunkMax
     THEN /\ said' = TRUE
          /\ UNCHANGED <<pc, batch, given>>
     ELSE /\ pc' = "head"
          /\ batch' = [k \in DOMAIN lengths |-> Chunk(Len(given) + k, lengths[k])]
          /\ given' = given \o lengths
          /\ UNCHANGED said
  /\ UNCHANGED <<fileVars, phase, first_error, chunks, accepted, outcome, reader>>

(* recorder_fail inside the loop: the call returns with the record torn. *)
Torn ==
  /\ first_error' = TRUE
  /\ said' = TRUE
  /\ pc' = "host" /\ batch' = <<>>
  /\ UNCHANGED <<phase, chunks, given, accepted, outcome, reader>>

WriteHead ==
  /\ phase = "recording" /\ pc = "head"
  /\ fwrite(HeadUnits(batch[1]))
  /\ pc' = "payload"
  /\ UNCHANGED <<phase, batch, first_error, chunks, said, given, accepted, outcome,
                 reader>>

WriteHeadFails ==
  /\ phase = "recording" /\ pc = "head"
  /\ WriteFails(HeadUnits(batch[1]))
  /\ Torn

WritePayload ==
  /\ phase = "recording" /\ pc = "payload"
  /\ fwrite(PayloadUnits(batch[1]))
  /\ chunks' = chunks + 1
  /\ batch' = Tail(batch)
  /\ pc' = IF Len(batch) = 1 THEN "flush" ELSE "head"
  /\ UNCHANGED <<phase, first_error, said, given, accepted, outcome, reader>>

WritePayloadFails ==
  /\ phase = "recording" /\ pc = "payload" /\ batch[1].length > 0
  /\ WriteFails(PayloadUnits(batch[1]))
  /\ Torn

(* The call returns: what it says is the first error there ever was. *)
Returned(failed) ==
  /\ pc' = "host"
  /\ first_error' = failed
  /\ accepted' = IF failed THEN accepted ELSE Len(given)
  /\ said' = (said \/ failed)
  /\ UNCHANGED <<phase, batch, chunks, given, outcome, reader>>

(* Mutant: what is in stdio's buffer waits for it to fill. *)
FlushLater ==
  /\ phase = "recording" /\ pc = "flush"
  /\ fwrite(<<>>)
  /\ Returned(first_error)

Flush ==
  /\ phase = "recording" /\ pc = "flush"
  /\ disk' = disk \o buf /\ buf' = <<>>
  /\ Returned(first_error)

FlushFails ==
  /\ phase = "recording" /\ pc = "flush"
  /\ WriteFails(<<>>)
  /\ Returned(TRUE)

(* gsp_recorder_close; stdio's error flag is set only where first_error is.*)
Close ==
  /\ phase = "recording" /\ pc = "host"
  /\ phase' = "closed"
  /\ \/ disk' = disk \o buf /\ buf' = <<>> /\ outcome' = IF first_error THEN "error" ELSE "OK"
     \/ WriteFails(<<>>) /\ outcome' = "error"
  /\ UNCHANGED <<pc, batch, first_error, chunks, said, given, accepted, reader>>

(* The host is killed: what stdio holds is gone. *)
Killed ==
  /\ phase = "recording"
  /\ phase' = "killed" /\ buf' = <<>> /\ pc' = "host" /\ batch' = <<>>
  /\ UNCHANGED <<disk, first_error, chunks, said, given, accepted, outcome, reader>>
-----------------------------------------------------------------------------
(* What a header that was cut short is called: a cut inside the keys may   *)
(* fall into the value of byte_order.                                      *)
HeaderCut ==
  IF Len(disk) = 1 THEN {"MALFORMED", "NOT_SUPPORTED"} ELSE {"MALFORMED"}

(* gsp_replay_open.  A file whose header broke off and that went on with   *)
(* something else after that may be taken for anything.                    *)
ReplayOpen ==
  /\ phase # "recording" /\ reader.status = "unopened"
  /\ \/ IsPrefix(Header, disk)
        /\ reader' = [reader EXCEPT !.status = "OK", !.at = Len(Header)]
     \/ IsStrictPrefix(disk, Header)
        /\ \E s \in HeaderCut : reader' = [reader EXCEPT !.status = s]
     \/ /\ ~IsPrefix(Header, disk) /\ ~IsStrictPrefix(disk, Header)
        /\ \/ \E s \in {"MALFORMED", "BUFFER_TOO_SMALL", "NOT_SUPPORTED"} :
                reader' = [reader EXCEPT !.status = s]
           \/ \E at \in DOMAIN disk : reader' = [reader EXCEPT !.status = "OK", !.at = at]
  /\ UNCHANGED <<fileVars, recVars>>

Rest == SubSeq(disk, reader.at + 1, Len(disk))

Ends(status) == reader' = [reader EXCEPT !.status = status]

Got(c, length) == reader' = [reader EXCEPT !.got = Append(reader.got, c),
                                           !.at = reader.at + HeadLen + length]

(* The reader is in step: a whole record header comes next. *)
InStep == Len(Rest) >= HeadLen /\ SubSeq(Rest, 1, HeadLen) = HeadUnits(Rest[1].of)

(* The payload of a record whose header says length: cut short, as it was  *)
(* written, or made up from what stands in its place.                      *)
ReadPayload(c) ==
  LET body == SubSeq(Rest, HeadLen + 1, HeadLen + c.length)
  IN  IF Len(Rest) < HeadLen + c.length THEN Ends("BUFFER_TOO_SMALL")
      ELSE Got(IF body = PayloadUnits(c) THEN c ELSE Bogus, c.length)

(* One pass of gsp_replay_read's loop.  Out of step, the length is         *)
(* whatever the bytes there say.                                           *)
ReplayRead ==
  /\ reader.status = "OK"
  /\ \/ Rest = <<>> /\ Ends("PENDING")
     \/ Rest # <<>> /\ Len(Rest) < HeadLen /\ Ends("BUFFER_TOO_SMALL")
     \/ InStep /\ ReadPayload(Rest[1].of)
     \/ /\ Len(Rest) >= HeadLen /\ ~InStep
        /\ \/ Ends("MALFORMED")
           \/ \E length \in 0..ChunkMax :
                IF Len(Rest) < HeadLen + length THEN Ends("BUFFER_TOO_SMALL")
                ELSE Got(Bogus, length)
  /\ UNCHANGED <<fileVars, recVars>>

(* The batches a drain may hand over. *)
Batches == UNION {[1..n -> 0..(ChunkMax + 1)] : n \in 1..BatchMax}

Next ==
  \/ OpenFails
  \/ \E lengths \in Batches : Write(lengths)
  \/ WriteHead \/ WriteHeadFails \/ WritePayload \/ WritePayloadFails
  \/ Flush \/ FlushFails \/ Close \/ Killed
  \/ ReplayOpen \/ ReplayRead

Spec == Init /\ [][Next]_vars
-----------------------------------------------------------------------------
(* PROPERTIES *)

All == [k \in DOMAIN given |-> Chunk(k, given[k])]

ReadToTheEnd == reader.status \notin {"unopened", "OK"}

(* A capture is evidence.  However the recording ended, and whatever a     *)
(* full disk tore out of its end, what a write call accepted is read back, *)
(* first and in order.  As long as nothing was reported, what is read is   *)
(* what was handed over, up to where a kill cut it, and the reader says so *)
(* if that is inside a record.  A close that reports nothing leaves a file *)
(* with every chunk in it; one that lacks a chunk was reported; and a      *)
(* drain of which the user was told nothing was accepted in full.          *)
CaptureIsEvidence ==
  /\ pc = "host" /\ phase = "recording" /\ ~said => accepted = Len(given)
  /\ ReadToTheEnd =>
       /\ IsPrefix(SubSeq(All, 1, accepted), reader.got)
       /\ ~first_error =>
            /\ IsPrefix(reader.got, All)
            /\ \/ reader.status \in {"PENDING", "BUFFER_TOO_SMALL"}
               \/ reader.status \in {"MALFORMED", "NOT_SUPPORTED"} /\ accepted = 0
            /\ reader.status = "PENDING" =>
                 disk = Header \o FlattenSeq([k \in DOMAIN reader.got |->
                                                HeadUnits(All[k]) \o PayloadUnits(All[k])])
       /\ outcome = "OK" => reader.got = All /\ chunks = Len(All) /\ reader.status = "PENDING"
       /\ phase = "closed" /\ reader.got # All => outcome = "error"
=============================================================================
