------------------------------ MODULE Capture -------------------------------
(***************************************************************************)
(* Captures: the replay of a recorded session (Replay), and, apart from    *)
(* it, the file a recorder leaves behind (Recording), in which a chunk is  *)
(* only so long.                                                           *)
(***************************************************************************)
EXTENDS Replay

CONSTANTS
  FileChunkMax,  \* GSP_WIRE_CHUNK_MAX, in the units of the file
  BatchMax,      \* the chunks one gs_drain_wire pass hands over (16)
  MaxChunks      \* bound: chunks the host hands over altogether

ASSUME FileAssumption == {FileChunkMax, BatchMax, MaxChunks} \subseteq Nat

VARIABLES
  disk, buf, recording, writing, batch, first_error, chunks, said, reader, given, accepted,
  outcome

fileVars == <<disk, buf, recording, writing, batch, first_error, chunks, said, reader, given,
              accepted, outcome>>

File == INSTANCE Recording
          WITH ChunkMax <- FileChunkMax, phase <- recording, pc <- writing

(* However a recording ends, what was accepted is read back, and what is   *)
(* not there was reported.                                                 *)
CaptureIsEvidence == File!CaptureIsEvidence
=============================================================================
