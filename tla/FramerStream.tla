---------------------------- MODULE FramerStream ----------------------------
(***************************************************************************)
(* One connection's framer fed byte by byte, as frame_pending feeds it:    *)
(* `buf` is what has been fed since the last object closed or the last     *)
(* byte was refused, `step` what the last byte did.                        *)
(***************************************************************************)
EXTENDS Framer, FiniteSets

CONSTANT MaxBuf    \* bound: the most bytes fed without a boundary

ASSUME StreamAssumption == MaxBuf \in Nat \ {0}

VARIABLES framer, buf, step

vars == <<framer, buf, step>>

Init == framer = framer_reset /\ buf = <<>> /\ step = "SKIP"

Boundary == step \in {"CLOSE", "GARBAGE"}

Feed(b) ==
  /\ step' = feed_step(framer, b)
  /\ framer' = feed_state(framer, b)
  /\ buf' = IF Boundary THEN <<b>> ELSE Append(buf, b)
  /\ Len(buf') <= MaxBuf

(* frame_pending's bound: what has grown past it is thrown away. *)
Reset ==
  /\ Len(buf) = MaxBuf
  /\ ~Boundary
  /\ framer' = framer_reset
  /\ buf' = <<>>
  /\ step' = "SKIP"

Next == (\E b \in Byte : Feed(b)) \/ Reset

Spec == Init /\ [][Next]_vars
-----------------------------------------------------------------------------
(* The framer only ever holds states the server's logic understands: an    *)
(* escape pending only inside a literal, a literal only inside a message,  *)
(* and nothing at all once an object closed or a byte was refused.         *)
FramerInv ==
  /\ FramerOK(framer)
  /\ step \in FrameStep
  /\ Boundary => framer = framer_reset

(* The incremental framer and the stateless gsp_frame_find agree on every  *)
(* stream, at every byte: where an object starts and ends, which byte is   *)
(* garbage, and when to wait for more.                                     *)
AgreesWithFind ==
  LET found == gsp_frame_find(buf)
  IN  /\ (step = "CLOSE" <=> found.status = "OK")
      /\ (step = "GARBAGE" <=> found.status = "MALFORMED")
      /\ (step = "CLOSE" => found.end = Len(buf))
      /\ (step = "GARBAGE" => found.start = Len(buf) - 1)
      /\ (~Boundary => (in_message(framer) <=> found.start < Len(buf)))
-----------------------------------------------------------------------------
(* A reference definition of an object, which tells literals apart without *)
(* the framer's flags and counts braces without its depth.                 *)

(* The backslashes immediately before position i of s, behind position j.  *)
RunBefore(s, j, i) ==
  Cardinality({k \in (j + 1)..(i - 1) : \A m \in k..(i - 1) : s[m] = "backslash"})

(* Where the literal began that is open after the first i bytes of s, 0 if *)
(* none is.  A quote ends one when an even run of backslashes precedes it. *)
Literal(s) ==
  LET began[i \in 0..Len(s)] ==
        IF i = 0 THEN 0
        ELSE IF began[i - 1] = 0 THEN IF s[i] = "quote" THEN i ELSE 0
        ELSE IF s[i] = "quote" /\ RunBefore(s, began[i - 1], i) % 2 = 0 THEN 0
        ELSE began[i - 1]
  IN  began

(* How often b occurs in s outside the literals that began cuts out. *)
Occurs(s, began, b) == Cardinality({i \in 1..Len(s) : s[i] = b /\ began[i - 1] = 0})

(* s begins with a brace, ends every literal it begins, and balances. *)
IsObject(s) ==
  LET began == Literal(s)
  IN  /\ s # <<>> /\ s[1] = "open"
      /\ began[Len(s)] = 0
      /\ Occurs(s, began, "open") = Occurs(s, began, "close")

(* s from its first byte on that is not white space. *)
SkipSpace(s) ==
  LET black == {i \in 1..Len(s) : s[i] # "ws"}
  IN  IF black = {} THEN <<>>
      ELSE SubSeq(s, CHOOSE i \in black : \A j \in black : i <= j, Len(s))

(* The framer closes exactly at the first point where what follows the     *)
(* leading whitespace is an object, braces inside literals not counted,    *)
(* refuses exactly a first byte that cannot begin one, and agrees in both  *)
(* with the stateless gsp_frame_find.                                      *)
ClosesAtObjectEnd ==
  /\ AgreesWithFind
  /\ LET text == SkipSpace(buf)
     IN  /\ step = "CLOSE" <=> IsObject(text)
         /\ step = "GARBAGE" <=> text # <<>> /\ text[1] # "open"
=============================================================================
