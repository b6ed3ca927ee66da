------------------------------ MODULE MCRings -------------------------------
(***************************************************************************)
(* The three rings of the server for TLC, each alone: the event ring       *)
(* (EventLog in lock step with its array), the write ring's array, and the *)
(* wire log.                                                               *)
(***************************************************************************)
EXTENDS RingArrays

VARIABLE which      \* the ring in use

writeVars == <<writes, w_head, w_count>>
wireVars  == <<wire_ring, wire, wire_sequence, dropped_wire, wire_drop_warned, events, job,
               written, gap, joins, wire_polled, wire_warnings>>
-----------------------------------------------------------------------------
(* What clients send, for the wire log. *)
Key == <<"quote", "name", "quote">>

(* Keys with and without a colon, spaces and a string behind them ... *)
Heads == {<<>>, Key, Key \o <<"colon">>, Key \o <<"colon", "quote">>,
          Key \o <<"space", "colon", "space", "quote">>,
          <<"quote">> \o Key \o <<"colon", "quote">>}

(* ... and what may follow: values that end, do not end, hide a quote,     *)
(* hold the name itself, or are followed by another key.                   *)
Tails == {<<>>, <<"other">>, <<"quote">>, <<"other", "other", "other", "quote", "other">>,
          <<"escape", "quote", "other", "quote">>, <<"escape">>, <<"escape", "escape", "quote">>,
          <<"name", "quote", "colon", "quote", "other">>,
          <<"other", "quote">> \o Key \o <<"colon", "quote", "other", "other">>}

ClientObjects == {h \o t : h \in Heads, t \in Tails} \ {<<>>}

ServerLines == {<<"other", "other", "other", "other">>}
-----------------------------------------------------------------------------
RingsInit ==
  /\ which \in {"events", "writes", "wire"}
  /\ BothInit /\ Write!Init /\ Wire!Init
  /\ which # "wire" => wire_ring = 1

RingsNext ==
  /\ UNCHANGED which
  /\ \/ which = "events" /\ BothNext /\ UNCHANGED <<writeVars, wireVars>>
     \/ which = "writes" /\ Write!Next /\ UNCHANGED <<vars, ring, wireVars>>
     \/ which = "wire" /\ Wire!Next /\ UNCHANGED <<vars, ring, writeVars>>

RingsSpec == RingsInit /\ [][RingsNext]_<<which, vars, ring, writeVars, wireVars>>

(* No property here mentions the event ring that takes the warnings. *)
WithoutWarnings == <<which, vars, ring, writeVars, wire_ring, wire, wire_sequence, dropped_wire,
                     wire_drop_warned, job, written, gap, joins, wire_polled, wire_warnings>>
=============================================================================
