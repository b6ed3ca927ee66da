------------------------------- MODULE Decode -------------------------------
(***************************************************************************)
(* The JSON reader and the two decoders of src/src/gs_decode.c.            *)
(*                                                                         *)
(* A text is the sequence of its lexical tokens, whitespace left out.  A   *)
(* token is a record whose field t is one of the punctuation marks, "true",*)
(* "false", "null", "bad" (a lexeme the reader cannot read: a broken       *)
(* literal, number or escape, or a string without an end), or              *)
(*   "number"  num: the double strtod makes of it, in halves, or NaN       *)
(*   "string"  name:  what it says, upper and lower case alike             *)
(*             exact: it is spelled as on the vendor's page                *)
(*             len:   its length in characters                             *)
(*             esc:   the bytes the encoder needs for one of its characters*)
(*             num:   what strtod makes of the part of it that the         *)
(*                    reader's number buffer holds, or NoNumber            *)
(*                                                                         *)
(* A message under construction is a record: one function per object, from *)
(* the keys present to their values, `seen`, the objects that arrived,     *)
(* `flags` and `unknown`.  Positions count tokens; 0 says malformed.       *)
(***************************************************************************)
EXTENDS Integers, Sequences, FiniteSets, TLC

CONSTANTS
  NaN, NoNumber,       \* not numbers, and distinct
  DepthMax,            \* GS_JSON_DEPTH_MAX
  UnknownMax,          \* 0xffff
  Int64Max, Int32Max,
  TextSize             \* the field each text goes to, by key, its NUL included

Int64Min == -(Int64Max + 1)
Int32Min == -(Int32Max + 1)

RootKeys     == {"DeviceID", "Units", "ShotNumber", "APIversion",
                 "BallData", "ClubData", "ShotDataOptions"}
BallKeys     == {"Speed", "SpinAxis", "TotalSpin", "BackSpin", "SideSpin",
                 "HLA", "VLA", "CarryDistance"}
ClubKeys     == {"Speed", "AngleOfAttack", "FaceToTarget", "Lie", "Loft", "Path",
                 "SpeedAtImpact", "VerticalFaceImpact", "HorizontalFaceImpact", "ClosureRate"}
OptionKeys   == {"ContainsBallData", "ContainsClubData", "LaunchMonitorIsReady",
                 "LaunchMonitorBallDetected", "IsHeartBeat"}
ResponseKeys == {"Code", "Message", "Player"}
PlayerKeys   == {"Handed", "Club", "DistanceToTarget", "Surface"}

(* The key table of each object, and the keys whose values are objects. *)
Keys(where) ==
  CASE where = "root"            -> RootKeys
    [] where = "BallData"        -> BallKeys
    [] where = "ClubData"        -> ClubKeys
    [] where = "ShotDataOptions" -> OptionKeys
    [] where = "Response"        -> ResponseKeys
    [] where = "Player"          -> PlayerKeys

ObjectKeys == {"BallData", "ClubData", "ShotDataOptions", "Player"}
NumberKeys == BallKeys \cup ClubKeys \cup {"ShotNumber", "Code", "DistanceToTarget"}

(* lookup, lookup_num and lookup_bool.  No table has two keys that differ  *)
(* in case only, so the second pass can only find what the first missed.   *)
lookup(where, key) == IF key.name \in Keys(where) THEN key.name ELSE "unknown"
-----------------------------------------------------------------------------
(* The reader. *)

peek(T, p) == IF p <= Len(T) THEN T[p].t ELSE "end"

(* How deep position q is, counted from p on; brackets of either kind. *)
Depth(T, p, q) ==
  Cardinality({i \in p..q : T[i].t \in {"{", "["}})
    - Cardinality({i \in p..q : T[i].t \in {"}", "]"}})

(* Mutant: only the opening bracket is consumed. *)
resume_inside(T, p) == p + 1

(* A nested value is consumed whole, unless it nests too deep. *)
skip_structure(T, p) ==
  LET ends == {q \in p..Len(T) : Depth(T, p, q) = 0}
      last == CHOOSE q \in ends : \A r \in ends : q <= r
  IN  IF ends = {} THEN 0
      ELSE IF \E q \in p..last : Depth(T, p, q) > DepthMax THEN 0
      ELSE last + 1

skip_value(T, p) ==
  CASE peek(T, p) \in {"{", "["}                                   -> skip_structure(T, p)
    [] peek(T, p) \in {"string", "number", "true", "false", "null"} -> p + 1
    [] OTHER                                                       -> 0

(* A member's value: where reading ended, and what was read if anything.   *)
Value(p, v, flags) == [at |-> p, got |-> TRUE, v |-> v, flags |-> flags]
Absent(T, p)       == [at |-> skip_value(T, p), got |-> FALSE]

read_number_member(T, p) ==
  CASE peek(T, p) = "number" -> Value(p + 1, T[p].num, {})
    [] peek(T, p) = "string" /\ T[p].num # NoNumber
                             -> Value(p + 1, T[p].num, {"TYPE_COERCED"})
    [] OTHER                 -> Absent(T, p)

read_bool_member(T, p) ==
  CASE peek(T, p) \in {"true", "false"} -> Value(p + 1, peek(T, p) = "true", {})
    [] peek(T, p) = "string" /\ T[p].name \in {"true", "false"}
                                        -> Value(p + 1, T[p].name = "true", {"TYPE_COERCED"})
    [] peek(T, p) = "number"            -> Value(p + 1, T[p].num # 0, {"TYPE_COERCED"})
    [] OTHER                            -> Absent(T, p)

(* put and gs_json_read_string: what fits of a text, and that it was cut. *)
Cut(text, size) ==
  IF text.len < size THEN text
  ELSE [text EXCEPT !.name = "cut", !.len = size - 1, !.num = NoNumber]

read_string_member(T, p, size) ==
  IF peek(T, p) = "string"
  THEN Value(p + 1, Cut(T[p], size), IF T[p].len < size THEN {} ELSE {"STRING_TRUNCATED"})
  ELSE Absent(T, p)

read_member(id, T, p) ==
  CASE id \in NumberKeys -> read_number_member(T, p)
    [] id \in OptionKeys -> read_bool_member(T, p)
    [] OTHER             -> read_string_member(T, p, TextSize[id])
-----------------------------------------------------------------------------
(* From halves to integers, towards zero. *)
Trunc(h) == IF h >= 0 THEN h \div 2 ELSE -((-h) \div 2)

Integral(h) == h # NaN /\ h % 2 = 0

clamp_int64(h) ==
  IF h = NaN THEN 0
  ELSE IF h <= 2 * Int64Min THEN Int64Min
  ELSE IF h >= 2 * (Int64Max + 1) THEN Int64Max
  ELSE Trunc(h)

clamp_int32(c) == IF c > Int32Max THEN Int32Max ELSE IF c < Int32Min THEN Int32Min ELSE c

gsp_units_parse(text)  == IF text.name \in {"Yards", "Meters"} THEN text.name ELSE "unknown"
gsp_handed_parse(text) == IF text.name \in {"RH", "LH"} THEN text.name ELSE "unknown"

Clubs == {"DR", "W3", "I7", "PW", "PT"}    \* of the 27 codes in CLUB_TABLE

gsp_club_parse(text) == IF text.name \in Clubs THEN text.name ELSE "unknown"

(* What is stored of a value that was read. *)
Stored(id, v) ==
  CASE id = "ShotNumber" -> clamp_int64(v)
    [] id = "Code"       -> clamp_int32(clamp_int64(v))
    [] id = "Handed"     -> gsp_handed_parse(v)
    [] id = "Club"       -> gsp_club_parse(v)
    [] OTHER             -> v

StoredFlags(id, r) ==
  r.flags \cup (IF id = "ShotNumber" /\ ~Integral(r.v) THEN {"SHOT_NUMBER_NOT_INTEGER"} ELSE {})
-----------------------------------------------------------------------------
Empty == [k \in {} |-> 0]

Blank == [root |-> Empty, BallData |-> Empty, ClubData |-> Empty, ShotDataOptions |-> Empty,
          Response |-> Empty, Player |-> Empty, seen |-> {}, flags |-> {}, unknown |-> 0]

Malformed == [at |-> 0, out |-> Blank]

store(out, where, id, r) ==
  [out EXCEPT ![where] = (id :> Stored(id, r.v)) @@ @, !.flags = @ \cup StoredFlags(id, r)]

count_unknown(out) == [out EXCEPT !.unknown = IF @ < UnknownMax THEN @ + 1 ELSE @]

(* What a key alone leaves on a message; the response decoder ignores it. *)
NoteKey(out, where, key) ==
  IF where \in {"Response", "Player"} THEN out
  ELSE IF lookup(where, key) = "unknown" THEN count_unknown(out)
  ELSE IF key.exact THEN out
  ELSE [out EXCEPT !.flags = @ \cup {"KEY_CASE_MISMATCH"}]

RECURSIVE members(_, _, _, _, _)

decode_numeric_section(where, T, p, out) ==
  members(where, T, p + 1, TRUE, [out EXCEPT !.seen = @ \cup {where}])

decode_options(T, p, out) ==
  members("ShotDataOptions", T, p + 1, TRUE, [out EXCEPT !.seen = @ \cup {"ShotDataOptions"}])

decode_player(T, p, out) ==
  members("Player", T, p + 1, TRUE, [out EXCEPT !.seen = @ \cup {"Player"}])

decode_object(id, T, p, out) ==
  CASE id \in {"BallData", "ClubData"} -> decode_numeric_section(id, T, p, out)
    [] id = "ShotDataOptions"          -> decode_options(T, p, out)
    [] id = "Player"                   -> decode_player(T, p, out)

(* The body of the member loops: the value at p of a member named key. *)
decode_member(where, T, key, p, out) ==
  LET id == lookup(where, key)
      o  == NoteKey(out, where, key)
      r  == read_member(id, T, p)
  IN  CASE id \in ObjectKeys /\ peek(T, p) = "{" -> decode_object(id, T, p, o)
        [] id \in ObjectKeys /\ peek(T, p) # "{" -> [at |-> skip_value(T, p), out |-> o]
        [] id = "unknown"                        -> [at |-> skip_value(T, p), out |-> o]
        [] OTHER -> [at |-> r.at, out |-> IF r.got THEN store(o, where, id, r) ELSE o]

(* next_member's verdict: 0 the object ended, -1 malformed, else the       *)
(* position of the key.                                                    *)
next_member(T, p, first) ==
  LET k == IF first THEN p ELSE p + 1
  IN  CASE peek(T, p) = "}"                                           -> 0
        [] peek(T, p) # "}" /\ (first \/ peek(T, p) = ",")
             /\ peek(T, k) = "string" /\ peek(T, k + 1) = ":"         -> k
        [] OTHER                                                      -> -1

members(where, T, p, first, out) ==
  LET k == next_member(T, p, first)
      r == decode_member(where, T, T[k], k + 2, out)
  IN  CASE k = 0  -> [at |-> p + 1, out |-> out]
        [] k = -1 -> Malformed
        [] k > 0  -> IF r.at = 0 THEN Malformed ELSE members(where, T, r.at, FALSE, r.out)

(* Mutant: what follows the object does not matter. *)
trailing_allowed(where, T) ==
  IF peek(T, 1) = "{" THEN members(where, T, 2, TRUE, Blank) ELSE Malformed

(* An object with nothing but whitespace behind it. *)
whole_object(where, T) ==
  LET r == members(where, T, 2, TRUE, Blank)
  IN  IF peek(T, 1) = "{" /\ r.at = Len(T) + 1 THEN r ELSE Malformed
-----------------------------------------------------------------------------
(* Classification and the flag pass. *)

Claims(out, option) ==
  option \in DOMAIN out.ShotDataOptions /\ out.ShotDataOptions[option]

kind(out) ==
  CASE Claims(out, "ContainsBallData") \/ Claims(out, "ContainsClubData") -> "SHOT"
    [] ~Claims(out, "ContainsBallData") /\ ~Claims(out, "ContainsClubData")
         /\ Claims(out, "IsHeartBeat")                                    -> "HEARTBEAT"
    [] OTHER                                                              -> "STATUS"

gsp_message_ball_complete(ball) ==
  LET p    == DOMAIN ball
      pair == {"BackSpin", "SideSpin"} \subseteq p
  IN  {"Speed", "HLA", "VLA"} \subseteq p /\ (pair \/ {"TotalSpin", "SpinAxis"} \subseteq p)

Raised(flag, condition) == IF condition THEN {flag} ELSE {}

units(out) == IF "Units" \in DOMAIN out.root THEN gsp_units_parse(out.root.Units) ELSE "unknown"

found_flags(out) ==
  LET has(key)  == key \in DOMAIN out.root
      ball      == "BallData" \in out.seen
      club      == "ClubData" \in out.seen
      with_ball == Claims(out, "ContainsBallData")
      with_club == Claims(out, "ContainsClubData")
  IN  UNION {
        Raised("UNKNOWN_UNITS", has("Units") /\ units(out) = "unknown"),
        Raised("MISSING_DEVICE_ID", ~has("DeviceID")),
        Raised("MISSING_SHOT_NUMBER", ~has("ShotNumber")),
        Raised("MISSING_API_VERSION", ~has("APIversion")),
        Raised("UNKNOWN_API_VERSION", has("APIversion") /\ out.root["APIversion"].name # "1"),
        Raised("MISSING_OPTIONS", "ShotDataOptions" \notin out.seen),
        Raised("BALL_FLAG_WITHOUT_OBJECT", with_ball /\ ~ball),
        Raised("BALL_OBJECT_WITHOUT_FLAG", ball /\ ~with_ball),
        Raised("CLUB_FLAG_WITHOUT_OBJECT", with_club /\ ~club),
        Raised("CLUB_OBJECT_WITHOUT_FLAG", club /\ ~with_club /\ kind(out) # "SHOT"),
        Raised("BALL_INCOMPLETE", with_ball /\ ~gsp_message_ball_complete(out.BallData)),
        Raised("UNKNOWN_KEYS", out.unknown > 0)}

Message(out) ==
  [status |-> "OK", root |-> out.root, BallData |-> out.BallData, ClubData |-> out.ClubData,
   ShotDataOptions |-> out.ShotDataOptions, units |-> units(out), kind |-> kind(out),
   unknown |-> out.unknown, flags |-> out.flags \cup found_flags(out)]

gsp_message_decode(T) ==
  LET r == whole_object("root", T)
  IN  IF r.at = 0 THEN [status |-> "MALFORMED"] ELSE Message(r.out)

Response(out) ==
  [status |-> "OK", Response |-> out.Response, Player |-> out.Player,
   has_player |-> "Player" \in out.seen]

gsp_response_decode(T) ==
  LET r == whole_object("Response", T)
  IN  IF r.at = 0 THEN [status |-> "MALFORMED"] ELSE Response(r.out)
=============================================================================
