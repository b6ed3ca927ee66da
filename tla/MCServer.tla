------------------------------ MODULE MCServer ------------------------------
(* Instances of Server for TLC: the constants the .cfg files choose from. *)
EXTENDS Server

(* Reads of at most n bytes out of a set of byte classes. *)
ReadsUpTo(S, n) == UNION {[1..k -> S] : k \in 0..n}

Braces       == {"ws", "open", "close"}
BraceReads   == ReadsUpTo(Braces \cup {"other"}, 2) \cup {<<"open", "close", "ws", "ws">>, <<"open", "close", "open", "close">>}
OneObject    == {<<"open", "close">>}
WholeObjects == {<<>>, <<"open", "close">>, <<"other">>}

(* n bytes of objects, one after the other.  Reads for a receive buffer of *)
(* five bytes and a ring of two: as long as the buffer and shorter; nine   *)
(* bytes, of which a refusal can just keep what two replies left; and ten. *)
Objects(n) == [k \in 1..n |-> IF k % 2 = 1 THEN "open" ELSE "close"]
PumpReads  == {<<"open">>, <<"open", "close">>, <<"close", "open", "close", "open", "close">>,
               Objects(9), Objects(10)}

(* No guard and no variable but `events` depends on the event ring, so a   *)
(* run whose properties do not mention it may identify states that differ  *)
(* in nothing else.                                                        *)
WithoutEvents ==
  <<connVars, rxVars, writes, now, hostVars, callVars, polled_at>>

Message(kind, device, ready, detected, shot, incomplete) ==
  [kind |-> kind, device |-> device, ready |-> ready, detected |-> detected,
   shot |-> shot, incomplete |-> incomplete]

Plain == Message("STATUS", NoDevice, "absent", "absent", NoShot, FALSE)

PlainOnly == {Plain}

(* A shot, an incomplete shot, heartbeats that flip the ready flag, a      *)
(* message that names a device.                                            *)
Varied ==
  {Message("SHOT", "A", "absent", "absent", 7, FALSE),
   Message("SHOT", NoDevice, "absent", "absent", 8, TRUE),
   Message("HEARTBEAT", "B", "on", "on", NoShot, FALSE),
   Message("STATUS", NoDevice, "off", "off", NoShot, FALSE)}
=============================================================================
