----------------------------- MODULE MCEventLog -----------------------------
(***************************************************************************)
(* EventLog and the circular array of EventRingArray, in lock step: every  *)
(* emit() and every poll is done to both.                                  *)
(***************************************************************************)
EXTENDS EventLog

VARIABLE ring

ZeroEvent == [type |-> "none", conn |-> 0, detail |-> "none", sequence |-> 0, value |-> 0]

Array == INSTANCE EventRingArray WITH Blank <- ZeroEvent

BothInit == Init /\ Array!Init

BothNext ==
  \/ \E type \in Types : Emit(type) /\ Array!Emit(type)
  \/ PollEvent /\ Array!PollEvent

BothSpec == BothInit /\ [][BothNext]_<<vars, ring>>

(* The array implements the drop-oldest queue: wrapped or not, after any   *)
(* emits and polls, head and count delimit exactly the events the log has, *)
(* with the same numbers, drops and warning owed; so it can be polled when *)
(* the log can.                                                            *)
ArrayHoldsTheLog == Array!Contents = queue
=============================================================================
