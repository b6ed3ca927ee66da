------------------------------- MODULE Replay -------------------------------
(***************************************************************************)
(* A session recorded and replayed: src/src/gs_server.c serves clients     *)
(* with its wire log on, and what the log holds is later fed to a second   *)
(* server by gsp_replay_into_server (src/record/gs_record.c), as `gswire   *)
(* replay` (src/tools/gswire.c) does, which then compares what it answers  *)
(* with what was answered at the time.                                     *)
(*                                                                         *)
(* Both servers are Server: the variables are the live server's until the  *)
(* recording stops and the second server's after that.  Recording.tla has  *)
(* the file; here it is the chunks a reader gets out of it.                *)
(***************************************************************************)
EXTENDS Server, SequencesExt, FiniteSetsExt

CONSTANTS
  ChunkMax,     \* GSP_WIRE_CHUNK_MAX
  PendingMax,   \* GS_REPLAY_PENDING
  IdTables,     \* the GS_REPLAY_CONNS values tried
  MaxLog,       \* bound: chunks in the recording
  MaxOdd        \* bound: those that are errors or part of something longer

ASSUME ReplayAssumption ==
  /\ {ChunkMax, PendingMax, MaxLog, MaxOdd} \subseteq Nat
  /\ IdTables # {} /\ IsFiniteSet(IdTables) /\ IdTables \subseteq Nat \ {0}

VARIABLES
  phase,     \* "live", "replay" or "ended"
  capture,   \* the chunks recorded, then the chunks the file gives back
  options,   \* what the second server and its host differ in
  pos,       \* replay: chunks read
  rpc,       \* replay: where gsp_replay_into_server is
  draining,  \* replay: replay_drain runs first
  fed,       \* replay: what the last on_bytes returned
  ids,       \* replay: the connections it has open, in order
  pending,   \* replay: replies produced and claimed by no recorded one yet
  rep,       \* replay: the report
  forgotten, \* history: connections opened while ids was full
  narrow, overflow \* history: the server's table was full; pending was full

replayVars == <<pos, rpc, draining, fed, ids, forgotten, pending, rep, narrow, overflow>>
allVars == <<vars, phase, capture, options, replayVars>>

(* The second server, which has the shortest write ring, and that server   *)
(* with write_spacing_us on.                                               *)
Second == INSTANCE Server WITH WriteRing <- 1
Spaced == INSTANCE Server WITH WriteRing <- 1, WriteSpacing <- 1
-----------------------------------------------------------------------------
(* THE RECORDING *)

(* Objects with an "other" byte in them are no JSON. *)
IsJson(d) == ~Contains(d, "other")

(* Mutant: a piece begins with the last byte of the one before. *)
PieceOverlaps(d, k) ==
  SubSeq(d, IF k = 1 THEN 1 ELSE (k - 1) * ChunkMax, Least(k * ChunkMax, Len(d)))

(* The pieces of ChunkMax bytes wire_push_bytes cuts d into. *)
Piece(d, k) == SubSeq(d, (k - 1) * ChunkMax + 1, Least(k * ChunkMax, Len(d)))

(* Bytes of a client.  `ends` says what the last of them brought about,    *)
(* and `torn` that they are a piece of a run of garbage.                   *)
Cut(c, d, what) ==
  LET n == (Len(d) + ChunkMax - 1) \div ChunkMax
  IN  [k \in 1..n |->
         [direction |-> "C2S", conn |-> c, at |-> now, code |-> 0, data |-> Piece(d, k),
          ends |-> IF k = n THEN what ELSE "part", torn |-> what = "garbage" /\ n > 1]]

(* A reply, with its code, or a META line. *)
Line(direction, c, t, code) ==
  <<[direction |-> direction, conn |-> c, at |-> t, code |-> code, data |-> <<>>,
     ends |-> "line", torn |-> FALSE]>>

OpenedLine == 1
ClosedLine == 2

Odd(chunks) == Len(SelectSeq(chunks, LAMBDA c : c.ends \in {"part", "error", "garbage"}))

Log(chunks) == /\ Len(capture) + Len(chunks) <= MaxLog
               /\ Odd(capture) + Odd(chunks) <= MaxOdd
               /\ capture' = capture \o chunks

(* The object that the next byte ends, and the run that it begins. *)
Object == SubSeq(ObjectRx, 1, ObjectScan + 1)
Run    == Drop(rx[cur], scan[cur])

FramedHere ==
  \/ /\ \E m \in Messages : DeliverMessage(m)
     /\ IsJson(Object)
     /\ Log(Cut(info[cur].conn, Object, "message"))
  \/ /\ BadJson
     /\ ~IsJson(Object)
     /\ Log(Cut(info[cur].conn, Object, "error"))
  \/ TooLarge /\ Log(Cut(info[cur].conn, Object, "error"))
  \/ Garbage /\ Log(Cut(info[cur].conn, Run, "garbage"))

Unlogged == FillRx \/ SkipWhitespace \/ RefuseAndRetain \/ RefuseAndLose \/ FeedByte \/ FrameDone

(* gs_net.c numbers its connections as they come. *)
next_id == 1 + Len(SelectSeq(capture, LAMBDA c : c.direction = "META" /\ c.code = OpenedLine))

(* A host that calls, polls and closes in any order, but hands on no bytes *)
(* while the write ring is full.                                           *)
LiveStep ==
  /\ phase = "live"
  /\ \/ \E c \in ConnIds, t \in now..MaxNow :
          \/ c = next_id /\ OnConnectionOpened(c, t) /\ Log(Line("META", c, t, OpenedLine))
          \/ OnConnectionClosed(c, t) /\ Log(Line("META", c, t, ClosedLine))
          \/ \E d \in Reads : ~write_ring_full(writes) /\ OnBytes(c, d, t) /\ UNCHANGED capture
     \/ \E state \in SessionInputs : SetSessionState(state, now) /\ UNCHANGED capture
     \/ PollWrite /\ Log(Line("S2C", writes[1].conn, now, writes[1].code))
     \/ FramedHere
     \/ (Unlogged \/ AnnounceToSlot) /\ UNCHANGED capture
  /\ UNCHANGED <<phase, options, replayVars>>

(* What the file gives back: all of it, or without a chunk that the wire   *)
(* ring dropped before it could be drained.                                *)
WithHole(i) == RemoveAt(capture, i)

(* gsp_server_create, again. *)
FreshServer ==
  /\ used' = [s \in Slots |-> FALSE]
  /\ info' = [s \in Slots |-> NewInfo(0, 0)]
  /\ idle_reported' = [s \in Slots |-> FALSE]
  /\ framer' = [s \in Slots |-> framer_reset]
  /\ rx' = [s \in Slots |-> <<>>]
  /\ scan' = [s \in Slots |-> 0]
  /\ next_write' = [s \in Slots |-> 0]
  /\ polled_at' = [s \in Slots |-> TimeUnknown]
  /\ writes' = <<>> /\ events' = EmptyQueue /\ now' = 0
  /\ player' = Unknown /\ player_set' = FALSE /\ session' = "NONE" /\ closed' = FALSE
  /\ Return

(* The second server is like the first, or spaces its writes, or has       *)
(* another acknowledgement text, or a smaller connection table; the        *)
(* replay's own table of ids is at its largest, or smaller.                *)
Plain   == [spaced |-> FALSE, retold |-> FALSE, table |-> MaxConnections,
            ids |-> Max(IdTables), holes |-> FALSE]
Options == {Plain, [Plain EXCEPT !.spaced = TRUE], [Plain EXCEPT !.retold = TRUE],
            [Plain EXCEPT !.table = MaxConnections - 1]}
             \cup {[Plain EXCEPT !.ids = n] : n \in IdTables}

StartReplay ==
  /\ phase = "live" /\ pc = "host" /\ capture # <<>>
  /\ phase' = "replay"
  /\ \/ options' \in Options /\ UNCHANGED capture
     \/ /\ options' = [Plain EXCEPT !.holes = TRUE]
        /\ \E i \in 1..(Len(capture) - 1) : capture' = WithHole(i)
  /\ FreshServer
  /\ UNCHANGED replayVars
-----------------------------------------------------------------------------
(* THE REPLAY *)

NoReport ==
  [client |-> 0, server |-> 0, messages |-> 0, errors |-> 0, produced |-> 0, matched |-> 0,
   differing |-> 0, missing |-> 0, unsolicited |-> 0, extra |-> 0]

Add(r, field) == [r EXCEPT ![field] = r[field] + 1]

ReplayInit ==
  /\ Init
  /\ phase = "live" /\ capture = <<>> /\ options = Plain
  /\ pos = 0 /\ rpc = "next" /\ draining = FALSE /\ fed = "OK"
  /\ ids = <<>> /\ forgotten = {} /\ pending = <<>> /\ rep = NoReport
  /\ narrow = FALSE /\ overflow = FALSE

At(place) == phase = "replay" /\ rpc = place /\ ~draining

Current == capture[pos]

(* replay_is_open. *)
replay_is_open(c) == Contains(ids, c)

Goto(place) == rpc' = place /\ draining' = FALSE

ThenDrain(place) == rpc' = place /\ draining' = TRUE

Take == pos' = pos + 1

(* A recorded reply waits for what the server has to say; a line that is   *)
(* no close of an open connection is counted and nothing else.             *)
ReadReply ==
  /\ At("next") /\ pos < Len(capture)
  /\ Take
  /\ \/ /\ capture[pos + 1].direction = "S2C"
        /\ rep' = Add(rep, "server")
        /\ ThenDrain("match")
     \/ /\ capture[pos + 1].direction = "META"
        /\ capture[pos + 1].code = OpenedLine \/ ~replay_is_open(capture[pos + 1].conn)
        /\ Goto("next")
        /\ UNCHANGED rep
  /\ UNCHANGED <<vars, phase, capture, options, fed, ids, forgotten, pending, narrow, overflow>>

(* replay_opened: an id that finds no place is not kept. *)
replay_opened(c) == IF Len(ids) < options.ids THEN Append(ids, c) ELSE ids

(* Mutant: the table of ids keeps what was closed. *)
ForgetNothing(c) == ids

(* replay_closed. *)
replay_closed(c) == RemoveFirst(ids, c)

ReadClose ==
  LET c == capture[pos + 1]
  IN  /\ At("next") /\ pos < Len(capture)
      /\ c.direction = "META" /\ c.code = ClosedLine /\ replay_is_open(c.conn)
      /\ OnConnectionClosed(c.conn, c.at)
      /\ ids' = replay_closed(c.conn)
      /\ Take
      /\ ThenDrain("next")
      /\ UNCHANGED <<phase, capture, options, fed, forgotten, pending, rep, narrow, overflow>>

TableRoom == Cardinality({s \in Slots : used[s]}) < options.table

(* Bytes of a client; its connection is opened when its first bytes come.  *)
(* One the replay has no place for is open on the server all the same: its *)
(* later bytes try to open it again, in vain, and are fed to it, and its   *)
(* close is passed over.                                                   *)
ReadBytes ==
  LET c == capture[pos + 1]
  IN  /\ At("next") /\ pos < Len(capture)
      /\ c.direction = "C2S"
      /\ Take
      /\ rep' = Add(rep, "client")
      /\ \/ /\ replay_is_open(c.conn)
            /\ Goto("feed")
            /\ UNCHANGED <<vars, ids, forgotten, narrow>>
         \/ /\ ~replay_is_open(c.conn) /\ IsOpen(c.conn)
            /\ ThenDrain("feed")
            /\ UNCHANGED <<vars, ids, forgotten, narrow>>
         \/ /\ ~replay_is_open(c.conn) /\ TableRoom
            /\ OnConnectionOpened(c.conn, c.at)
            /\ ids' = replay_opened(c.conn)
            /\ forgotten' = IF ids' = ids THEN forgotten \cup {c.conn} ELSE forgotten
            /\ ThenDrain("feed")
            /\ UNCHANGED narrow
         \/ /\ ~replay_is_open(c.conn) /\ ~IsOpen(c.conn) /\ ~TableRoom
            /\ narrow' = TRUE
            /\ ThenDrain("feed")
            /\ UNCHANGED <<vars, ids, forgotten>>
      /\ UNCHANGED <<phase, capture, options, fed, pending, overflow>>

Feed ==
  /\ At("feed")
  /\ IF IsOpen(Current.conn)
     THEN OnBytes(Current.conn, Current.data, Current.at) /\ Goto("feeding")
     ELSE UNCHANGED vars /\ ThenDrain("next")
  /\ fed' = "OK"
  /\ UNCHANGED <<phase, capture, options, pos, ids, forgotten, pending, rep, narrow, overflow>>

Refuses == IF options.spaced THEN Spaced!MustRefuse ELSE Second!MustRefuse

ClosesObject == Framing /\ feed_step(framer[cur], NextByte) = "CLOSE"

(* A step of the on_bytes that runs; what is no JSON counts as an error. *)
Feeding ==
  /\ At("feeding") /\ pc # "host"
  /\ IF options.spaced THEN Spaced!CallStep ELSE Second!CallStep
  /\ ClosesObject /\ ~Refuses => (info'[cur].errors = 0 <=> IsJson(Object))
  /\ fed' = IF Framing /\ Refuses THEN "QUEUE_FULL" ELSE fed
  /\ UNCHANGED <<phase, capture, options, pos, rpc, draining, ids, forgotten, pending, rep, narrow,
                 overflow>>

(* Mutant: the refused call is repeated as it is. *)
RetryUndrained == Goto("resume")

RetryDrained == ThenDrain("resume")

Fed ==
  /\ At("feeding") /\ pc = "host"
  /\ IF fed = "QUEUE_FULL" THEN RetryDrained ELSE ThenDrain("next")
  /\ UNCHANGED <<vars, phase, capture, options, pos, fed, ids, forgotten, pending, rep, narrow, overflow>>

(* on_bytes with no bytes, at the time the chunk was recorded. *)
Resume ==
  /\ At("resume")
  /\ OnBytes(Current.conn, <<>>, Current.at)
  /\ Goto("feeding")
  /\ fed' = "OK"
  /\ UNCHANGED <<phase, capture, options, pos, ids, forgotten, pending, rep, narrow, overflow>>
-----------------------------------------------------------------------------
(* replay_drain: the writes, then the events. *)

Released(w) == ~options.spaced \/ ~Held(w)

CanPoll == \E k \in DOMAIN writes : Released(writes[k])

DrainWrite ==
  LET w == writes[CHOOSE k \in DOMAIN writes :
                    Released(writes[k]) /\ \A j \in 1..(k - 1) : ~Released(writes[j])]
  IN  /\ phase = "replay" /\ draining /\ CanPoll
      /\ IF options.spaced THEN Spaced!PollWrite ELSE PollWrite
      /\ IF Len(pending) < PendingMax
         THEN /\ pending' = Append(pending, w)
              /\ rep' = Add(rep, "produced")
              /\ UNCHANGED overflow
         ELSE /\ rep' = Add(Add(rep, "produced"), "extra")
              /\ overflow' = TRUE
              /\ UNCHANGED pending
      /\ UNCHANGED <<phase, capture, options, pos, rpc, draining, fed, ids, forgotten, narrow>>

DrainEvent ==
  LET type == Head(events.items).type
  IN  /\ phase = "replay" /\ draining /\ ~CanPoll /\ events.items # <<>>
      /\ PollEvent
      /\ rep' = CASE type \in MessageTypes     -> Add(rep, "messages")
                  [] type = "PROTOCOL_ERROR" -> Add(rep, "errors")
                  [] OTHER                   -> rep
      /\ UNCHANGED <<phase, capture, options, pos, rpc, draining, fed, ids, forgotten, pending, narrow,
                     overflow>>

Drained ==
  /\ phase = "replay" /\ draining /\ ~CanPoll /\ events.items = <<>>
  /\ draining' = FALSE
  /\ UNCHANGED <<vars, phase, capture, options, pos, rpc, fed, ids, forgotten, pending, rep, narrow,
                 overflow>>
-----------------------------------------------------------------------------
(* replay_match_reply: a reply with the same bytes, else one with the same *)
(* code, else none.                                                        *)

SameCode == {k \in DOMAIN pending : pending[k].conn = Current.conn /\ pending[k].code = Current.code}

Identical == {k \in SameCode : ~(options.retold /\ pending[k].code = 200)}

(* replay_consume: the first of them is taken out. *)
Claim(found) == pending' = RemoveAt(pending, Min(found))

Match ==
  /\ At("match")
  /\ \/ Identical # {} /\ Claim(Identical) /\ rep' = Add(rep, "matched")
     \/ /\ Identical = {} /\ SameCode # {}
        /\ Claim(SameCode) /\ rep' = Add(rep, "differing")
     \/ /\ SameCode = {}
        /\ rep' = Add(rep, IF Current.code \in {201, 202, 203} THEN "unsolicited" ELSE "missing")
        /\ UNCHANGED pending
  /\ Goto("next")
  /\ UNCHANGED <<vars, phase, capture, options, pos, fed, ids, forgotten, narrow, overflow>>

(* The file is read: a last drain, and what nobody claimed is extra. *)
Finish ==
  /\ At("next") /\ pos = Len(capture)
  /\ ThenDrain("finish")
  /\ UNCHANGED <<vars, phase, capture, options, pos, fed, ids, forgotten, pending, rep, narrow, overflow>>

Report ==
  /\ At("finish")
  /\ phase' = "ended"
  /\ rep' = [rep EXCEPT !.extra = rep.extra + Len(pending)]
  /\ UNCHANGED <<vars, capture, options, pos, rpc, draining, fed, ids, forgotten, pending, narrow, overflow>>

ReplayStep ==
  \/ ReadReply \/ ReadClose \/ ReadBytes \/ Feed \/ Feeding \/ Fed \/ Resume
  \/ DrainWrite \/ DrainEvent \/ Drained \/ Match \/ Finish \/ Report

ReplayNext == LiveStep \/ StartReplay \/ ReplayStep

(* The replay is one call: once started it runs on. *)
ReplaySpec == ReplayInit /\ [][ReplayNext]_allVars /\ WF_allVars(ReplayStep)
-----------------------------------------------------------------------------
(* PROPERTIES *)

Seen == SubSeq(capture, 1, pos)

Ended(S) == Len(SelectSeq(Seen, LAMBDA c : c.ends \in S))

(* The capture is whole and the comparison has kept its footing: nothing   *)
(* was lost, the second server holds nothing back and lets every client    *)
(* in, no garbage had to be cut, and pending was never full.               *)
Sound ==
  /\ ~options.holes /\ ~options.spaced /\ ~narrow /\ ~overflow
  /\ \A k \in DOMAIN Seen : ~Seen[k].torn

(* A sound capture is read back as the session it is, however the host     *)
(* interleaved connections, calls and polls and wherever the recording     *)
(* stopped: every message and every error of it again, no acknowledgement  *)
(* missing, and none differing unless its text was changed.                *)
ReplayTellsTheSession ==
  Sound /\ At("next") =>
    /\ rep.messages = Ended({"message"})
    /\ rep.errors = Ended({"error", "garbage"})
    /\ rep.missing = 0
    /\ options.retold \/ rep.differing = 0

(* Whatever the capture lacks, the report adds up: every reply produced is *)
(* matched, differing, extra or still pending, every one recorded is       *)
(* matched, differing, unsolicited or missing; and what the server has     *)
(* open is what the replay knows of, each once, and the connections it had *)
(* no place for: those, and no others, are never closed.                   *)
ReportBalances ==
  /\ rep.produced = rep.matched + rep.differing + rep.extra
                      + (IF phase = "ended" THEN 0 ELSE Len(pending))
  /\ rep.server = rep.matched + rep.differing + rep.unsolicited + rep.missing
                    + (IF rpc = "match" THEN 1 ELSE 0)
  /\ phase # "live" =>
       /\ Len(ids) + Cardinality(forgotten) = Cardinality({s \in Slots : used[s]})
       /\ Range(ids) \cup forgotten = {info[s].conn : s \in {s \in Slots : used[s]}}

(* The retry that cannot succeed: the ring is full of writes held back     *)
(* until a time that never comes, for the retry uses the recorded one.     *)
Wedged == rpc = "resume" /\ options.spaced /\ Spaced!write_ring_full(writes) /\ ~CanPoll

(* The replay of any capture ends, except in that one place.               *)
ReplayEnds == phase = "replay" ~> phase = "ended" \/ Wedged
=============================================================================
