------------------------------ MODULE EventLog ------------------------------
(***************************************************************************)
(* The event ring as an abstract state machine over EventQueue: emit() for *)
(* every event the server raises, poll_events for the host.  `polled` and  *)
(* `run_warnings` are history: how many events the host has taken, and how *)
(* often it was told of drops since it last emptied the ring.              *)
(***************************************************************************)
EXTENDS EventQueue

CONSTANT Types     \* the event types raised, abstracted

ASSUME TypesAssumption == Types \subseteq EventTypes

VARIABLES queue, polled, run_warnings

vars == <<queue, polled, run_warnings>>

Init == queue = EmptyQueue /\ polled = 0 /\ run_warnings = 0

NewestIsWarning(items) == items[Len(items)].detail = "EVENTS_DROPPED"

Emit(type) ==
  /\ queue' = emit(queue, type, 1, "none")
  /\ run_warnings' = run_warnings + (IF NewestIsWarning(queue'.items) THEN 1 ELSE 0)
  /\ UNCHANGED polled

PollEvent ==
  /\ queue.items # <<>>
  /\ queue' = poll_event(queue)
  /\ polled' = Succ(polled)
  /\ run_warnings' = IF queue'.items = <<>> THEN 0 ELSE run_warnings

Next == (\E type \in Types : Emit(type)) \/ PollEvent

Spec == Init /\ [][Next]_vars
-----------------------------------------------------------------------------
(* The ring holds events, at most as many as it has room for, and never    *)
(* owes a warning between two calls.                                       *)
TypeOK ==
  /\ QueueOK(queue)
  /\ queue.drop_warned # "owed"
  /\ polled \in Counter
  /\ run_warnings \in Nat

(* No gap inside the ring: the entries carry consecutive sequence numbers  *)
(* and the newest is the last number given out.  A host that sees a gap    *)
(* between two polls knows that exactly the missing events were dropped.   *)
Contiguous ==
  LET s == queue.items
  IN  /\ \A k \in 1..(Len(s) - 1) : s[k + 1].sequence = Succ(s[k].sequence)
      /\ s # <<>> => Succ(s[Len(s)].sequence) = queue.sequence

(* Every event ever numbered was polled, was counted as dropped, or is     *)
(* still in the ring; so dropped_events is exact.                          *)
Accounted ==
  (polled + queue.dropped + Len(queue.items)) % CounterModulus = queue.sequence

(* One warning per overflow run: since the host last emptied the ring it   *)
(* has been told of drops at most once, and at least once if drop_warned   *)
(* says so.  (The warning is an entry like any other, and a later drop may *)
(* take it.)  The ring never stays over its capacity.                      *)
OneWarningPerRun ==
  /\ run_warnings = IF queue.drop_warned = "no" THEN 0 ELSE 1
  /\ Len(queue.items) <= EventRing

(* The newest event survives the warning unless the ring has one place:    *)
(* an overflow costs the host its oldest events, never the latest.         *)
NewestSurvives ==
  [][\A type \in Types : Emit(type) /\ EventRing > 1 =>
       \E k \in {Len(queue'.items) - 1, Len(queue'.items)} \cap (1..EventRing) :
         queue'.items[k].type = type /\ queue'.items[k].sequence = queue.sequence]_vars
=============================================================================
