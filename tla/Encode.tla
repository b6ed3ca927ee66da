------------------------------- MODULE Encode -------------------------------
(***************************************************************************)
(* The encoders of src/src/gs_encode.c, over the tokens of Decode.  What   *)
(* is emitted is one token sequence: the counting pass and the writing     *)
(* pass run the same emit_ function, so the first is the size of what the  *)
(* second writes.                                                          *)
(***************************************************************************)
EXTENDS Decode, SequencesExt

CONSTANTS
  ExactMax,    \* 2^53: up to here a double holds every integer
  DoubleMax,   \* the largest finite double, in halves
  KeyLen,      \* the length of each key
  NumberWidth  \* the bytes of any number ow_double and ow_int64 print, but for a code

Codes == {200, 201, 202, 203, 501}

Mark(c) == [t |-> c]

Text(name, len) ==
  [t |-> "string", name |-> name, exact |-> TRUE, len |-> len, esc |-> 1, num |-> NoNumber]

KeyToken(key) == Text(key, KeyLen[key])

(* An integer as strtod reads its digits back: beyond ExactMax to the      *)
(* nearest even one, halfway to the multiple of four.                      *)
Nearest(n) ==
  IF n \in -ExactMax..ExactMax \/ n % 2 = 0 THEN n
  ELSE IF (n + 1) % 4 = 0 THEN n + 1 ELSE n - 1

ow_int64(n) == [t |-> "number", num |-> 2 * Nearest(n)]

ow_double(h) ==
  [t |-> "number", num |-> IF h # NaN /\ h \in -DoubleMax..DoubleMax THEN h ELSE 0]

ow_bool(b) == Mark(IF b THEN "true" ELSE "false")

(* The bytes a token takes, its escapes included. *)
ow_json_string(text) == 2 + text.len * text.esc

width(token) ==
  CASE token.t = "string"            -> ow_json_string(token)
    [] token.t = "number"            -> IF token.num \in {2 * c : c \in Codes} THEN 3 ELSE NumberWidth
    [] token.t \in {"true", "null"}  -> 4
    [] token.t = "false"             -> 5
    [] OTHER                         -> 1

(* Every byte of every token, counted. *)
Size(T) == Cardinality(UNION {{i} \X (1..width(T[i])) : i \in 1..Len(T)})

(* member and the braces: key and value pairs, commas between them. *)
member(key, value) == <<KeyToken(key), Mark(":")>> \o value

Braced(parts) ==
  <<Mark("{")>>
    \o FlattenSeq([i \in 1..Len(parts) |-> IF i = 1 THEN parts[i] ELSE <<Mark(",")>> \o parts[i]])
    \o <<Mark("}")>>

Optional(condition, part) == IF condition THEN <<part>> ELSE <<>>
-----------------------------------------------------------------------------
(* Replies.  A player is a record: handed and club, "unknown" or a code,   *)
(* distance, NoNumber when has_distance is clear, and the surface's text.  *)

code_is_ours(code) == code \in Codes

emit_player(p) ==
  Braced(Optional(p.handed # "unknown", member("Handed", <<Text(p.handed, 2)>>))
    \o Optional(p.club # "unknown", member("Club", <<Text(p.club, 2)>>))
    \o Optional(p.distance # NoNumber, member("DistanceToTarget", <<ow_double(p.distance)>>))
    \o Optional(p.surface.len > 0, member("Surface", <<p.surface>>)))

(* message and player are sequences of at most one, empty for NULL. *)
emit_response(code, message, player) ==
  Braced(<<member("Code", <<ow_int64(code)>>)>>
    \o Optional(message # <<>>, member("Message", message))
    \o (IF player = <<>> THEN <<>> ELSE <<member("Player", emit_player(player[1]))>>))

(* Mutant: the place of the terminating NUL is forgotten. *)
forgets_nul(T, out_size) == Size(T) <= out_size

fits(T, out_size) == Size(T) + 1 <= out_size

gsp_response_encode(code, message, player, out_size) ==
  LET T == emit_response(code, message, player)
  IN  CASE ~code_is_ours(code)                         -> [status |-> "INVALID_ARG"]
        [] code_is_ours(code) /\ ~fits(T, out_size)    -> [status |-> "BUFFER_TOO_SMALL"]
        [] code_is_ours(code) /\ fits(T, out_size)     -> [status |-> "OK", text |-> T]

(* What gsp_server_set_player compares to decide whether a 201 goes out.   *)
(* NaN differs from itself.                                                *)
gsp_player_info_equal(a, b) ==
  /\ a.handed = b.handed /\ a.club = b.club /\ a.surface = b.surface
  /\ a.distance = b.distance /\ a.distance # NaN
-----------------------------------------------------------------------------
(* Messages, as a tool or a test that plays a launch monitor sends them.   *)

BallOrder == <<"Speed", "SpinAxis", "TotalSpin", "BackSpin", "SideSpin", "HLA", "VLA",
               "CarryDistance">>
ClubOrder == <<"Speed", "AngleOfAttack", "FaceToTarget", "Lie", "Loft", "Path",
               "SpeedAtImpact", "VerticalFaceImpact", "HorizontalFaceImpact", "ClosureRate">>

(* Mutant: an absent measurement goes out as a zero. *)
zero_for_absent(order, section) ==
  Braced([i \in 1..Len(order) |->
            member(order[i], <<ow_double(IF order[i] \in DOMAIN section THEN section[order[i]]
                                         ELSE 0)>>)])

emit_numeric_section(order, section) ==
  LET present == SelectSeq(order, LAMBDA key : key \in DOMAIN section)
  IN  Braced([i \in 1..Len(present) |-> member(present[i], <<ow_double(section[present[i]])>>)])

OptionOrder == <<"ContainsBallData", "ContainsClubData", "LaunchMonitorIsReady",
                 "LaunchMonitorBallDetected", "IsHeartBeat">>

(* The two required ones always go out, false when absent. *)
emit_options(options) ==
  LET sent  == SelectSeq(OptionOrder, LAMBDA key :
                 key \in DOMAIN options \cup {"ContainsBallData", "ContainsClubData"})
      on(key) == key \in DOMAIN options /\ options[key]
  IN  Braced([i \in 1..Len(sent) |-> member(sent[i], <<ow_bool(on(sent[i]))>>)])

emit_message(m) ==
  LET has(key)  == key \in DOMAIN m.root
      text(key) == Optional(has(key) /\ m.root[key].len > 0, member(key, <<m.root[key]>>))
      named     == Optional(m.units # "unknown",
                            member("Units", <<Text(m.units, IF m.units = "Yards" THEN 5 ELSE 6)>>))
  IN  Braced(text("DeviceID") \o (IF text("Units") # <<>> THEN text("Units") ELSE named)
        \o <<member("ShotNumber", <<ow_int64(IF has("ShotNumber") THEN m.root.ShotNumber ELSE 0)>>)>>
        \o text("APIversion")
        \o Optional(m.BallData # Empty,
                    member("BallData", emit_numeric_section(BallOrder, m.BallData)))
        \o Optional(m.ClubData # Empty,
                    member("ClubData", emit_numeric_section(ClubOrder, m.ClubData)))
        \o <<member("ShotDataOptions", emit_options(m.ShotDataOptions))>>)

gsp_message_encode(m, out_size) ==
  LET T == emit_message(m)
  IN  IF fits(T, out_size) THEN [status |-> "OK", text |-> T] ELSE [status |-> "BUFFER_TOO_SMALL"]
=============================================================================
