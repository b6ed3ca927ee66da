----------------------------- MODULE MCCapture ------------------------------
(***************************************************************************)
(* Captures for TLC: a session that is recorded and replayed, or a file.   *)
(***************************************************************************)
EXTENDS Capture

VARIABLE which     \* the one in use

Status == {[kind |-> "STATUS", device |-> NoDevice, ready |-> "absent", detected |-> "absent",
            shot |-> NoShot, incomplete |-> FALSE]}

(* An object, a longer one, bad JSON, too long an object, garbage, and a   *)
(* run of it long enough to be cut.                                        *)
SessionReads ==
  {<<"open", "close">>, <<"open", "open", "close", "close">>, <<"open", "other", "close">>,
   [k \in 1..6 |-> "open"], <<"other">>,
   <<"other", "other", "other", "open", "close", "open">>}
-----------------------------------------------------------------------------
CaptureInit == which \in {"file", "session"} /\ ReplayInit /\ File!Init

CaptureNext ==
  /\ UNCHANGED which
  /\ \/ which = "session" /\ ReplayNext /\ UNCHANGED fileVars
     \/ which = "file" /\ File!Next /\ UNCHANGED allVars

CaptureVars == <<which, allVars, fileVars>>

CaptureSpec == CaptureInit /\ [][CaptureNext]_CaptureVars /\ WF_allVars(ReplayStep)

(* The live server's event ring is not looked at. *)
LiveEventsApart ==
  <<connVars, rxVars, writes, IF phase = "live" THEN EmptyQueue ELSE events, now, hostVars,
    callVars, polled_at, phase, capture, options, replayVars, which, fileVars>>
=============================================================================
