---------------------------- MODULE PumpedServer ----------------------------
(***************************************************************************)
(* Server driven by the host loop that src/include/gspro/server.h asks for *)
(* (the pump of docs/design.md 3.2): the write ring is drained after every *)
(* call, and a connection refused with GSP_ERR_QUEUE_FULL is resumed with  *)
(* zero bytes, after a drain, before anything else is called.  The host is *)
(* not under src/; only what it promises is modelled.                      *)
(*                                                                         *)
(* Write spacing is off: with it a drain leaves held-back writes behind.   *)
(***************************************************************************)
EXTENDS Server

ASSUME PumpAssumption == WriteSpacing = 0

VARIABLE handed    \* history: the bytes handed over by the call that is running

pumpVars == <<vars, handed>>

Drained == writes = <<>>

(* on_bytes returned GSP_ERR_QUEUE_FULL and kept the bytes. *)
Retained(s) == used[s] /\ ~in_message(framer[s]) /\ rx[s] # <<>>

Resume(s) == Drained /\ Retained(s) /\ OnBytes(info[s].conn, <<>>, now)

PumpedCall ==
  IF \E s \in Slots : Retained(s)
  THEN \E s \in Slots : Resume(s)
  ELSE Drained /\ HostCall

PumpedNext ==
  \/ PumpedCall /\ handed' = Len(data')
  \/ (Poll \/ Close \/ CallStep) /\ handed' = IF pc' = "host" THEN 0 ELSE handed

PumpedInit == Init /\ handed = 0

(* The pump keeps draining and resuming; library code runs on. *)
PumpedSpec ==
  /\ PumpedInit /\ [][PumpedNext]_pumpVars
  /\ WF_vars(CallStep)
  /\ WF_vars(PollWrite)
  /\ \A s \in Slots : WF_vars(Resume(s))

(* What a refusal kept is taken up again and consumed. *)
RetainedConsumed == \A s \in Slots : Retained(s) ~> ~Retained(s)

(* server.h:306 says that on a refusal "the unconsumed bytes are kept".    *)
(* For a read no longer than rx that is so: input is thrown away only in a *)
(* call that handed over more than rx holds.  Such a call may lose input   *)
(* under the pump too, though gs_server.c:1259 has it "Reachable only by a *)
(* host that never drains writes": what the ring holds when the call       *)
(* starts does not matter if the read brings more objects than the ring    *)
(* has places.  And whatever its length, no read is left half copied:      *)
(* gs_server.c:1239 "frame_pending() cannot leave this state".             *)
ShortReadsKept ==
  [][/\ RefuseAndLose => handed > RxCapacity
     /\ FrameDone /\ pc' = "host" => data = <<>>]_pumpVars
=============================================================================
