------------------------------ MODULE MCCodec -------------------------------
(***************************************************************************)
(* The codec for TLC.  Three families of states grow from one initial      *)
(* state: the byte streams of FramerStream, documents built member by      *)
(* member, and replies.  A document is a tree; what it means is read off   *)
(* the tree, and compared with what the decoder makes of its tokens.       *)
(***************************************************************************)
EXTENDS FramerStream, Encode, Derive

CONSTANTS
  WriteMax,   \* GSP_WRITE_MAX
  MaxDoc      \* bound: members of a document

(* The sizes of message.h and codec.h, and the lengths of the names. *)
MCTextSize ==
  [key \in {"DeviceID", "Units", "APIversion", "Message", "Handed", "Club", "Surface"} |->
     CASE key = "DeviceID"   -> 64
       [] key = "APIversion" -> 8
       [] key = "Message"    -> 96
       [] OTHER              -> 16]

MCKeyLen ==
  [key \in RootKeys \cup BallKeys \cup ClubKeys \cup OptionKeys \cup ResponseKeys \cup PlayerKeys |->
     CASE key \in {"Code", "Club"}                 -> 4
       [] key \in {"Player", "Handed"}             -> 6
       [] key \in {"Message", "Surface"}           -> 7
       [] key = "DistanceToTarget"                 -> 16
       [] OTHER                                    -> 25]    \* the longest

VARIABLES
  doc,     \* members, each a key and a value
  reply    \* arguments of gsp_response_encode, at most one
-----------------------------------------------------------------------------
(* Values and members of documents. *)
Number(h)      == [t |-> "number", num |-> h]
Word(name)     == [Text(name, 5) EXCEPT !.exact = FALSE]
Numeral(h)     == [Text("digits", 4) EXCEPT !.num = h]
Object(ms)     == [t |-> "object", members |-> ms]
Array(vs)      == [t |-> "array", items |-> vs]
M(key, val)    == [key |-> Text(key, 5), val |-> val]
Odd(key, val)  == [key |-> [Text(key, 5) EXCEPT !.exact = FALSE], val |-> val]
Infinite       == 1000000
TooLong        == [Text("long", 200) EXCEPT !.esc = 6]

Options(set) ==
  Object(<<M("ContainsBallData", Mark(IF "ball" \in set THEN "true" ELSE "false")),
           M("ContainsClubData", Mark(IF "club" \in set THEN "true" ELSE "false"))>>)

MCMembers ==
  { M("DeviceID", Text("R10", 3)), M("DeviceID", TooLong), M("DeviceID", Mark("null")),
    M("Units", Word("Yards")), M("Units", Text("Metres", 6)), M("Units", Text("", 0)),
    Odd("APIversion", Text("1", 1)), M("APIversion", Number(2)),
    M("ShotNumber", Number(27)), M("ShotNumber", Number(2 * (Int64Max + 1))),
    M("ShotNumber", Numeral(-Infinite)), M("ShotNumber", Numeral(NaN)),
    M("ShotNumber", Array(<<Number(4)>>)),
    M("BallData", Object(<<M("BackSpin", Number(4)), M("SideSpin", Number(0))>>)),
    M("BallData", Object(<<Odd("BackSpin", Number(0)), M("Speed", Number(Infinite))>>)),
    M("BallData", Object(<<M("TotalSpin", Number(0)), M("SpinAxis", Number(180)),
                           M("HLA", Numeral(3)), M("VLA", Number(-5))>>)),
    M("BallData", Object(<<M("TotalSpin", Number(4)), M("ball_id", Object(<<M("VLA", Number(9))>>)),
                           M("SideSpin", Mark("null"))>>)),
    M("BallData", Mark("null")),
    M("ClubData", Object(<<M("Speed", Number(0)), M("Speed", Word("fast"))>>)),
    M("ShotDataOptions", Options({"ball"})), M("ShotDataOptions", Options({"club"})),
    M("ShotDataOptions", Object(<<M("IsHeartBeat", Number(NaN)),
                                  M("ContainsBallData", Word("false"))>>)),
    M("ShotDataOptions", Object(<<M("IsHeartBeat", Mark("null")),
                                  M("LaunchMonitorIsReady", Word("soon"))>>)),
    M("ClubName", Object(<<M("ShotNumber", Number(8)), M("x", Array(<<Object(<<>>)>>))>>)),
    M("ClubName", Array(<<Mark("bad"), Object(<<M("Units", Mark("true"))>>)>>)) }

Surfaces  == {Text("", 0), Text("Green", 15), [Text("beeps", 15) EXCEPT !.esc = 6]}
Distances == {NoNumber, 0, 5, NaN, Infinite}

Players == [handed : {"unknown", "RH"}, club : {"unknown", "DR"}, distance : Distances,
            surface : Surfaces]

(* The texts the library sends itself; an ack text is the host's, and 27 *)
(* control characters with some of the players make WriteMax bytes.        *)
OwnTexts == {Text("Shot received successfully", 26), Text("GSPro Player Information", 24)}
AckTexts == OwnTexts \cup {[Text("ack", 63) EXCEPT !.esc = e] : e \in {1, 2, 6}}
              \cup {[Text("ack", n) EXCEPT !.esc = 6] : n \in {27, 38}}

MCReplies ==
  [code : Codes \cup {500}, message : {<<>>} \cup {<<m>> : m \in AckTexts},
   player : {<<>>} \cup {<<p>> : p \in Players}]
-----------------------------------------------------------------------------
CodecInit == Init /\ doc = <<>> /\ reply = <<>>

FramerStep == doc = <<>> /\ reply = <<>> /\ Next /\ UNCHANGED <<doc, reply>>

AddMember(m) ==
  /\ buf = <<>> /\ reply = <<>> /\ Len(doc) < MaxDoc
  /\ doc' = Append(doc, m)
  /\ UNCHANGED <<vars, reply>>

ComposeReply(r) ==
  /\ buf = <<>> /\ doc = <<>> /\ reply = <<>>
  /\ reply' = <<r>>
  /\ UNCHANGED <<vars, doc>>

(* The next input. *)
Forget ==
  /\ reply # <<>> \/ Len(doc) = MaxDoc
  /\ reply' = <<>> /\ doc' = <<>>
  /\ UNCHANGED vars

CodecNext ==
  \/ FramerStep
  \/ Forget
  \/ \E m \in MCMembers : AddMember(m)
  \/ \E r \in MCReplies : ComposeReply(r)

CodecSpec == CodecInit /\ [][CodecNext]_<<vars, doc, reply>>
-----------------------------------------------------------------------------
(* Tokens of a tree, and bytes of a token: every string holds braces and   *)
(* an escaped quote.                                                       *)
RECURSIVE Tokens(_)
Tokens(v) ==
  CASE v.t = "object" ->
         Braced([i \in 1..Len(v.members) |->
                   <<v.members[i].key, Mark(":")>> \o Tokens(v.members[i].val)])
    [] v.t = "array"  ->
         <<Mark("[")>> \o FlattenSeq([i \in 1..Len(v.items) |-> Tokens(v.items[i])])
           \o <<Mark("]")>>
    [] OTHER          -> <<v>>

Bytes(token) ==
  CASE token.t = "{"      -> <<"open">>
    [] token.t = "}"      -> <<"close">>
    [] token.t = "string" -> <<"quote", "close", "backslash", "quote", "open", "quote">>
    [] OTHER              -> <<"other">>

(* A framer fed with more: `ends` counts the bytes that closed an object   *)
(* or were refused, and is more than one if any byte follows the first.    *)
FeedByte(s, b) ==
  LET did == feed_step(s.framer, b)
  IN  [framer |-> feed_state(s.framer, b), did |-> did,
       ends |-> s.ends + (IF did \in {"CLOSE", "GARBAGE"} THEN 1 ELSE 0)]

RECURSIVE FeedBytes(_, _)
FeedBytes(s, bytes) ==
  IF bytes = <<>> THEN s
  ELSE IF s.ends > 0 THEN [s EXCEPT !.ends = 2]
  ELSE FeedBytes(FeedByte(s, Head(bytes)), Tail(bytes))

(* Half by half, so that a long text nests little. *)
RECURSIVE FeedTokens(_, _, _, _)
FeedTokens(s, T, i, j) ==
  LET half  == (i + j) \div 2
      first == FeedTokens(s, T, i, half)
  IN  IF i = j THEN FeedBytes(s, Bytes(T[i]))
      ELSE IF first.ends > 0 THEN [first EXCEPT !.ends = 2]
      ELSE FeedTokens(first, T, half + 1, j)

(* Fed to the framer, the text closes at its last byte and not before. *)
OneFrame(T) ==
  LET fed == FeedTokens([framer |-> framer_reset, did |-> "SKIP", ends |-> 0], T, 1, Len(T))
  IN  fed.did = "CLOSE" /\ fed.ends = 1

(* The members of an object of the document, over all its occurrences. *)
Occurrences(where) ==
  IF where = "root" THEN doc
  ELSE FlattenSeq([i \in 1..Len(doc) |->
         IF doc[i].key.name = where /\ doc[i].val.t = "object" THEN doc[i].val.members ELSE <<>>])

Readable(id, val) ==
  \/ id \in NumberKeys /\ val.t = "number"
  \/ id \in NumberKeys /\ val.t = "string" /\ val.num # NoNumber
  \/ id \in OptionKeys /\ val.t \in {"true", "false", "number"}
  \/ id \in OptionKeys /\ val.t = "string" /\ val.name \in {"true", "false"}
  \/ id \in DOMAIN TextSize /\ val.t = "string"

(* What the last readable occurrence of a key says, and nothing else. *)
Says(where, id, v) ==
  LET ms   == Occurrences(where)
      hits == {i \in 1..Len(ms) : ms[i].key.name = id /\ Readable(id, ms[i].val)}
      val  == ms[CHOOSE i \in hits : \A j \in hits : j <= i].val
  IN  /\ hits # {}
      /\ id \in OptionKeys => v = (val.t = "true" \/ (val.t = "number" /\ val.num # 0)
                                   \/ (val.t = "string" /\ val.name = "true"))
      /\ id \in NumberKeys \ {"ShotNumber"} => v = val.num
      /\ id \in DOMAIN TextSize =>
           v.len = (IF val.len < TextSize[id] THEN val.len ELSE TextSize[id] - 1)
      /\ id = "ShotNumber" =>
           /\ v \in Int64Min..Int64Max
           /\ val.num = NaN => v = 0
           /\ val.num # NaN /\ val.num >= 0 => 2 * v <= val.num /\ (v = Int64Max \/ 2 * v + 2 > val.num)
           /\ val.num # NaN /\ val.num < 0  => 2 * v >= val.num /\ (v = Int64Min \/ 2 * v - 2 < val.num)

Sections == {"root", "BallData", "ClubData", "ShotDataOptions"}

MentionedIn(where) ==
  {id \in Keys(where) \ ObjectKeys :
     \E m \in Range(Occurrences(where)) : m.key.name = id /\ Readable(id, m.val)}

RECURSIVE Nesting(_)
Nesting(v) ==
  CASE v.t = "object" -> 1 + Max({0} \cup {Nesting(m.val) : m \in Range(v.members)})
    [] v.t = "array"  -> 1 + Max({0} \cup {Nesting(x) : x \in Range(v.items)})
    [] OTHER          -> 0

(* A value that the decoder passes over nests too deep. *)
TooDeep ==
  \E where \in Sections : \E m \in Range(Occurrences(where)) :
    /\ ~(where = "root" /\ m.key.name \in ObjectKeys /\ m.val.t = "object")
    /\ Nesting(m.val) > DepthMax

UnknownCount ==
  LET unknown(where) == Len(SelectSeq(Occurrences(where), LAMBDA m : m.key.name \notin Keys(where)))
  IN  unknown("root") + unknown("BallData") + unknown("ClubData") + unknown("ShotDataOptions")

Sent == Tokens(Object(doc))
Got  == gsp_message_decode(Sent)
-----------------------------------------------------------------------------
Means(got) ==
  /\ \A where \in Sections :
       /\ DOMAIN got[where] = MentionedIn(where)
       /\ \A id \in MentionedIn(where) : Says(where, id, got[where][id])
  /\ got.unknown = Min({UnknownCount, UnknownMax})
  /\ "KEY_CASE_MISMATCH" \in got.flags <=>
       \E where \in Sections : \E m \in Range(Occurrences(where)) :
         m.key.name \in Keys(where) /\ ~m.key.exact
  /\ "STRING_TRUNCATED" \in got.flags <=>
       \E m \in Range(doc) : m.key.name \in DOMAIN TextSize /\ m.val.t = "string"
                             /\ m.val.len >= TextSize[m.key.name]
  /\ got.kind = "SHOT" <=>
       \E id \in {"ContainsBallData", "ContainsClubData"} :
         id \in MentionedIn("ShotDataOptions") /\ Says("ShotDataOptions", id, TRUE)

MeansOrRefused(got) == IF TooDeep THEN got.status = "MALFORMED" ELSE got.status = "OK" /\ Means(got)

(* What the decoder makes of a document is what the document says: of each *)
(* key the last occurrence that can be read, over every repetition of its  *)
(* object, saturated or cut to its field, and nothing of what lies inside  *)
(* a value it does not know.  It refuses exactly what nests too deep.      *)
DecodesTheMeaning == MeansOrRefused(Got)

Refused(text) == gsp_message_decode(text).status = "MALFORMED"

(* Framer and decoder agree on where a message ends: a text that decodes   *)
(* is one frame, no part of it cut short decodes (nor with a broken lexeme *)
(* at the cut), and none with anything behind it does.                     *)
DecodesOneWholeFrame ==
  ~Refused(Sent) =>
    /\ OneFrame(Sent)
    /\ \A n \in 0..(Len(Sent) - 1), broken \in {<<>>, <<Mark("bad")>>} :
         Refused(SubSeq(Sent, 1, n) \o broken)
    /\ \A c \in {"}", ",", "null", "bad"} : Refused(Append(Sent, Mark(c)))

Finite(h) == IF h # NaN /\ h \in -DoubleMax..DoubleMax THEN h ELSE 0

SameMessage(got, again) ==
  LET same(key) == key \in DOMAIN got.root /\ got.root[key].len > 0
                     => key \in DOMAIN again.root /\ again.root[key] = got.root[key]
  IN  /\ again.status = "OK" /\ again.kind = got.kind
      /\ same("DeviceID") /\ same("Units") /\ same("APIversion") /\ again.units = got.units
      /\ "ShotNumber" \in DOMAIN got.root => again.root["ShotNumber"] = got.root["ShotNumber"]
      /\ \A where \in {"BallData", "ClubData"} :
           again[where] = [k \in DOMAIN got[where] |-> Finite(got[where][k])]
      /\ \A k \in DOMAIN got.ShotDataOptions : again.ShotDataOptions[k] = got.ShotDataOptions[k]

ReadsBackFrom(got, text) == OneFrame(text) /\ SameMessage(got, gsp_message_decode(text))

ReadsBack(got) == got.status = "OK" => ReadsBackFrom(got, gsp_message_encode(got, 4096).text)

(* A message that was read and is written again reads the same: every      *)
(* measurement, its absence too, the shot number at the limits of the      *)
(* integers and of the doubles, the kind, the options.  Only what is not a *)
(* finite number becomes zero.                                             *)
MessagesReadBack == ReadsBack(Got)

SamePlayer(p, player) ==
  /\ "Handed" \in DOMAIN player <=> p.handed # "unknown"
  /\ p.club # "unknown" => player["Club"] = p.club
  /\ IF p.distance = NoNumber THEN "DistanceToTarget" \notin DOMAIN player
     ELSE player["DistanceToTarget"] = Finite(p.distance)
  /\ p.surface.len > 0 => player["Surface"] = p.surface

SameReply(r, d) ==
  /\ d.status = "OK" /\ d.Response["Code"] = r.code
  /\ IF r.message = <<>> THEN "Message" \notin DOMAIN d.Response
     ELSE d.Response["Message"] = r.message[1]
  /\ d.has_player = (r.player # <<>>)
  /\ r.player # <<>> => SamePlayer(r.player[1], d.Player)

Composed(r, e) ==
  /\ e.status = "INVALID_ARG" <=> r.code \notin Codes
  /\ r.code \in Codes /\ Range(r.message) \subseteq OwnTexts => e.status = "OK"
  /\ e.status = "OK" => /\ Size(e.text) < WriteMax /\ OneFrame(e.text)
                        /\ SameReply(r, gsp_response_decode(e.text))

(* Nothing but the five codes is ever composed, and half a reply never is: *)
(* what is composed fits its buffer, is one frame, and reads back as the   *)
(* same reply.  The replies whose text is the library's own always fit,    *)
(* whatever the player; a configured ack text may not.                     *)
RepliesReadBack ==
  \A r \in Range(reply) : Composed(r, gsp_response_encode(r.code, r.message, r.player, WriteMax))

KeepsTheWire(wire, once) ==
  LET pair == {"BackSpin", "SideSpin"} \subseteq DOMAIN wire.v
      zero == "TotalSpin" \in DOMAIN wire.v /\ wire.v["TotalSpin"] = 0
  IN  /\ once.derived \subseteq DOMAIN once.v
      /\ \A k \in DOMAIN wire.v : k \in once.derived \/ once.v[k] # wire.v[k] =>
           /\ k \in {"TotalSpin", "SpinAxis"} /\ pair /\ zero
           /\ wire.v["BackSpin"] # 0 \/ wire.v["SideSpin"] # 0
      /\ DOMAIN once.v = DOMAIN wire.v \cup once.derived
      /\ gsp_message_ball_complete(wire.v)
           => {"TotalSpin", "SpinAxis", "BackSpin", "SideSpin"} \subseteq DOMAIN once.v
      /\ pair \/ ~zero => gsp_ball_data_derive(once).ball = once

DerivedFrom(wire) == KeepsTheWire(wire, gsp_ball_data_derive(wire).ball)

(* Deriving the spin touches nothing that was on the wire but a zero total *)
(* beside a pair that is not zero (and the axis beside it); what it adds   *)
(* is marked, and a ball that passes for complete always yields both       *)
(* representations.  A second call changes nothing, unless half a pair     *)
(* arrived beside a zero total: the first call completes the pair, and the *)
(* second takes the zero for a placeholder.                                *)
DeriveKeepsTheWire ==
  \A got \in {Got} : got.status = "OK" /\ got.BallData # Empty =>
    DerivedFrom([v |-> got.BallData, derived |-> {}])
=============================================================================
