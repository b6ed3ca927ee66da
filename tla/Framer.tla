------------------------------- MODULE Framer -------------------------------
(***************************************************************************)
(* The incremental framer of src/src/gs_frame.h and the stateless search   *)
(* of src/src/gs_frame.c that drives it over a whole buffer.               *)
(*                                                                         *)
(* A byte is abstracted to the class the framer tells apart.  "ws" stands  *)
(* for space, tab, newline and carriage return, "other" for every byte     *)
(* that is none of the rest ('[' included: there is no top-level array).   *)
(***************************************************************************)
EXTENDS Integers, Sequences

Byte == {"ws", "open", "close", "quote", "backslash", "other"}

(* What one byte did: gs_frame_step. *)
FrameStep == {"SKIP", "OPEN", "INSIDE", "CLOSE", "GARBAGE"}

FramerState == [depth : Nat, in_string : BOOLEAN, escape : BOOLEAN]

framer_reset == [depth |-> 0, in_string |-> FALSE, escape |-> FALSE]

in_message(f) == f.depth > 0

(* The step gs_framer_feed returns for byte b in state f. *)
feed_step(f, b) ==
  CASE f.depth = 0 /\ b = "ws"                                  -> "SKIP"
    [] f.depth = 0 /\ b = "open"                                -> "OPEN"
    [] f.depth = 0 /\ b \notin {"ws", "open"}                   -> "GARBAGE"
    [] f.depth = 1 /\ ~f.in_string /\ b = "close"               -> "CLOSE"
    [] f.depth > 0 /\ ~(f.depth = 1 /\ ~f.in_string /\ b = "close") -> "INSIDE"

(* Mutant: a backslash outside a literal escapes. *)
escape_anywhere(f, b) == ~f.escape /\ b = "backslash"

(* The byte escapes the next one. *)
next_escape(f, b) == f.in_string /\ ~f.escape /\ b = "backslash"

(* The state gs_framer_feed leaves.  GARBAGE and SKIP leave it untouched. *)
feed_state(f, b) ==
  [depth |->
     CASE b = "open"  /\ ~f.in_string                 -> f.depth + 1
       [] b = "close" /\ ~f.in_string /\ f.depth > 0  -> f.depth - 1
       [] OTHER                                       -> f.depth,
   in_string |->
     IF f.depth > 0 /\ b = "quote" /\ ~f.escape THEN ~f.in_string ELSE f.in_string,
   escape |-> next_escape(f, b)]

(* The states the machine can reach: an escape is pending only inside a    *)
(* literal, a literal is open only inside a message.                       *)
FramerOK(f) ==
  /\ f \in FramerState
  /\ f.in_string => in_message(f)
  /\ f.escape => f.in_string

(***************************************************************************)
(* gsp_frame_find.  scan[i] is the framer after the first i bytes; the     *)
(* loop leaves at the first CLOSE or GARBAGE.  Offsets are the C offsets,  *)
(* counted from 0.                                                         *)
(***************************************************************************)

(* Mutant: the search does not track literals. *)
frame_scan_without_literals(buf) ==
  LET scan[i \in 0..Len(buf)] ==
        IF i = 0 THEN framer_reset
        ELSE [feed_state(scan[i - 1], buf[i]) EXCEPT !.in_string = FALSE]
  IN  scan

frame_scan(buf) ==
  LET scan[i \in 0..Len(buf)] ==
        IF i = 0 THEN framer_reset ELSE feed_state(scan[i - 1], buf[i])
  IN  scan

gsp_frame_find(buf) ==
  LET scan    == frame_scan(buf)
      step(i) == feed_step(scan[i - 1], buf[i])
      stops   == {i \in 1..Len(buf) : step(i) \in {"CLOSE", "GARBAGE"}}
      last    == CHOOSE i \in stops : \A j \in stops : i <= j
      opens   == {i \in 1..Len(buf) : step(i) = "OPEN" /\ \A j \in stops : i <= j}
      begin   == IF opens = {} THEN Len(buf) ELSE (CHOOSE i \in opens : TRUE) - 1
  IN  IF stops = {}
      THEN [status |-> "PENDING", start |-> begin, end |-> Len(buf)]
      ELSE IF step(last) = "CLOSE"
           THEN [status |-> "OK", start |-> begin, end |-> last]
           ELSE [status |-> "MALFORMED", start |-> last - 1, end |-> Len(buf)]
=============================================================================
