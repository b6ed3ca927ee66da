# libgspro: a TLA+ verification project

libgspro is a sans-I/O listener for launch monitors that speak GSPro Open
Connect v1: clients send a stream of JSON objects, the library frames and
decodes them, queues one reply per object and reports what happened as events.
It opens no socket, starts no thread and reads no clock; a host hands it bytes
and time and drains its rings. Around the library the repository keeps hosts of
its own: a socket transport, a recorder with a replay, an asyncio transport.
This directory models all of these, checks them with TLC and proves the safety
properties of the library and of its two transports with TLAPS.

    tlc -workers 2 -config Server_bytes.cfg MCServer     # any run of PROJECT.json
    tlapm ServerProofs.tla                               # any *Proofs module

## Inventory

| part | state | operations | interacts with |
|---|---|---|---|
| framer (`src/src/gs_frame.h`, `gs_frame.c`) | depth, in_string, escape | reset, feed, `gsp_frame_find` | driven by `frame_pending`, one byte at a time |
| event ring (`gs_server.c`) | circular array, head, count, sequence, dropped, drop_warned | `emit` (push, and a warning at the first drop), `poll_events` | every handler emits; drop-oldest |
| write ring (`gs_server.c`) | circular array, head, count | `queue_write`, `drop_writes_for`, `poll_writes` | every reply; refuses when full |
| server core (`gs_server.c`) | connection table with rx buffer and framer per slot, player, session state, clock, closed | `on_connection_opened/closed`, `on_bytes`, `set_player`, `send_player_info`, `set_session_state`, `tick`, `next_due_us`, polls, `close` | both rings, framer, decoder, encoder |
| wire log and redactor (`gs_server.c`) | a third ring, a cursor | chunking, masking, `poll_wire` | every handler when switched on |
| decoder (`gs_decode.c`) | none | `gsp_message_decode`, `gsp_response_decode` | called on every framed object |
| encoder (`gs_encode.c`) | none | `gsp_response_encode`, `gsp_message_encode` | called for every reply |
| names, derived values (`gs_misc.c`) | none | `gsp_ball_data_derive`, parsers, formatting | called by hosts, decoder and encoder |
| host pump (`server.h`, `docs/design.md` 3.2) | none of its own | drain after every call, resume with zero bytes | calls the core |
| socket transport (`net/gs_net.c`) | socket table, per-socket queue, resume flag | `gsp_net_poll`: accept, read, flush, pump, resume | is a host |
| recorder (`record/gs_record.c`) | file, stdio buffer, first error | open, write, close; `gsp_replay_read` | takes drained wire chunks (`tools/gsplisten.c`) |
| replay (`record/gs_record.c`) | ids open, unclaimed replies, report | `gsp_replay_into_server` | is a host, of a second server (`tools/gswire.c`) |
| asyncio transport (`python/gspro/asyncio_transport.py`) | writers, closing flag, timer | a coroutine per client, announcements, `stop()` | is a host |
| python bindings | none | ctypes mirrors of the calls | |

Hard behaviours. There is no concurrency inside the library; what interleaves
is the host's calls, for several connections, against two bounded rings that
the host drains when it likes. An object may arrive in any number of reads. A
refusal (`GSP_ERR_QUEUE_FULL`) stops in the middle of a read and is resumed
later. Protocol errors throw a buffer away in the middle of a read. Time is
supplied with each call and releases idle alarms and held-back writes.
The hosts add concurrency of their own: system calls between which clients
act, coroutines suspended at awaits, a process that may be killed between two
writes to a file, a disk that may fill. `hazards` in PROJECT.json lists each of
these at its line.

What makes each part correct. Framer: it finds exactly the extent of an object.
Event ring: numbering without gaps, exact drop count, one warning per overflow.
Write ring: nothing lost, duplicated or reordered per connection, nothing left
for a connection that is gone. Core: one reply per message, no byte lost
silently, buffers inside their allocation, every call returns, the event log
tells a consistent story, `next_due_us` is exact. Wire log: a reader can tell
what is missing, identifiers are masked. Codec: a document means what it says,
what is written reads back, framer and decoder agree. Transports: their tables
and the server's agree, replies arrive whole, nothing waits for ever. Captures:
what was accepted is in the file, and replays as the session it was.

## Modules

* `Framer`: the byte machine. A byte is one of the six classes the code tells
  apart. `frame_scan` and `gsp_frame_find` are the stateless search.
  `FramerStream` feeds it a stream, and holds a reference definition of an
  object that keeps no state: `IsObject` tells literals apart by the parity of
  the backslashes before a quote and counts the braces outside them.
* `EventQueue`: the event ring as a record holding a sequence, with
  `ring_push_event`, `emit` and `poll_event` as operators. `EventLog` is the
  state machine over it. `EventRingArray` is the circular array, with head and
  count; `MCEventLog` runs the two in lock step on the same calls.
* `WriteQueue`: the write ring as a sequence, with `write_ring_full`,
  `drop_writes_for` (its loop as a recursive function) and `RemoveEntry`. `Net`
  keeps its replies in the same ring.
  `WriteQueueSpec` is the state machine, `WriteRingArray` the circular array,
  with in-place compaction and shifting, that implements it. `RingArrays` puts
  the two array rings and the wire log beside each other.
* `Server` extends `Framer`, `EventQueue` and `WriteQueue`. One variable per
  field of `gs_conn` and `gsp_server` that a decision depends on; one action
  per call, or per pass of a loop for the calls that loop. `pc` says which call
  is running and no other starts before it returns, so atomicity is exactly the
  code's: the library is single-threaded.
* `Decode`: the decoder over tokens. A token is a mark (`{`, `:`, `null`, ...),
  a number, or a text with its length and whether its spelling is exact; a
  "bad" token is a broken lexeme. The operators carry the names of the
  functions and consume tokens as these consume bytes. Numbers count halves, so
  that fractions exist; `Int64Max` and `Int32Max` are small, with the decoder's
  clamps around them. `Encode`: the tokens `emit_response` and `emit_message`
  write and the bytes they take, which decides whether a reply fits. `Derive`:
  the spin derivation, with trigonometry that is exact on the axes.
  `MCCodec` builds documents as trees, reads their meaning off the tree without
  the decoder, and compares.
* `WireLog` extends `EventQueue`: the wire ring, with one pass of
  `wire_push_bytes`' loop per step, and the redactor as operators over the
  classes of bytes it tells apart (`redactor_next`, and `redactor_apply` with
  the cursor it keeps between chunks). Nothing in the server reads the wire
  ring back, so it is checked apart from `Server`, which runs with
  `wire_ring` = 0. `wire_lost_pending` is not a variable: the call that sets it
  also clears it. The redactor's key is the one it looks for, `"DeviceID"` as
  literally spelled; the decoder also accepts a spelling with escapes, whose
  value is recorded as it came. No call records a buffer of length 0, so the
  one empty chunk that `wire_push_bytes` would push for it (`gs_server.c:452`)
  is unreachable and left out.
* `Net` is the socket transport, a poll at the grain of its system calls, so
  clients connect, send, read, close and break between any two of them. A
  request and a reply are two units long, so both can be cut in half. The
  server under it is reduced to what `Server` establishes: ids in a table, a
  write ring that refuses, a slot checked only when an object begins, and units
  kept after a refusal (`on_bytes`). `feeder` and `attempt` say which feed the
  pump returns to.
* `Recording` is the `.gswire` file: the recorder at the grain of its stdio
  calls, any of which may hand any part of its buffer to the system or fail,
  a kill at any step, and the reader. A record is two units of header and one
  per unit of payload; a unit knows the chunk it was written for, so a reader
  out of step is told from one in step.
* `Replay` extends `Server` twice over: the variables are a live server's,
  whose wire log is appended to `capture` chunk by chunk, until the recording
  stops, and from then on those of the second server that
  `gsp_replay_into_server` drives. The instances `Second` and `Spaced` of
  `Server` give that server a write ring of one, and write spacing. What the
  live server calls JSON is fixed by the bytes (`IsJson`), so both decode
  alike. `options` is how the second server differs: another ack text, a
  smaller table, spacing, or a chunk missing from the file; and how many open
  ids the replay has places for, `GS_REPLAY_CONNS` (`forgotten` is the
  connections it had none for).
* `AsyncioTransport`: a step of a coroutine is what runs between two awaits.
  `left` is what a running `_pump_async` has yet to drain, `then` what the
  coroutine does after it. The server under it is reduced as in `Net`, to whole
  messages: a read queues replies until the write ring is full, the rest is
  kept if `rx` holds it and discarded if not (`Retained`), and an announcement
  reaches as many connections as the ring has places (`Told`; which, depends on
  slots, which are not there). `owed` counts the messages sent and not yet
  answered on their stream, `thrown` those discarded. Streams may stall, break
  or be closed under the coroutine. Which Python runs `stop()` is chosen when
  it is called.
* `PumpedServer` restricts the host of `Server` to the loop the documents ask
  for; it is external code, modelled from what it promises.
* `Capture` puts `Replay` and an instance of `Recording` (`File`) beside each
  other; they share no state.
* `MCRings` and `MCCapture` run specifications of unrelated parts side by side,
  one of them per behaviour (`which`), so that one run checks them.
* `MC*` modules hold the constants of the TLC runs; `*Proofs` the theorems.

How `Server` corresponds to the code. `OnBytes` starts a call; `FillRx` is the
copy at the top of `on_bytes`' loop; `SkipWhitespace`, `FeedByte`, `Garbage`,
`TooLarge`, `BadJson` and `DeliverMessage` are the passes of `frame_pending`;
`FrameDone` its end together with the tests that continue or leave the outer
loop; `RefuseAndRetain` and `RefuseAndLose` the two ends of a refusal.
`DeliverMessage` is all of `deliver_message`: counters, reply, ACTIVE,
identity, client state, event, in that order. A call that is refused by an
early return changes nothing and has no action, but for `send_player_info` to a
connection that is not open, which has set the clock by then; a NULL player is
the one last set (`PlayerArgs`). The decoder is any member of
`Messages`, or a refusal; the encoder fits or does not (`AckFits`).
Announcements, tick and close visit one slot per step.

Definitions marked *Mutant* are plausible mistakes in the definition that
follows them. No specification uses them; each shows that a property notices
the mistake.

## Runs

| run | shows |
|---|---|
| `Codec` | the framer finds an object's end, agrees with `gsp_frame_find`, and holds only meaningful states; the decoder reads what a document says and refuses exactly what nests too deep; what decodes is one frame, and no part of it decodes; messages and replies read back; own texts always fit; derivation leaves the wire's values alone |
| `Rings` | event ring: no gap in the numbering, exact accounting, one warning per overflow run, the newest survives, the array holds what the queue holds; write ring: the array implements the refusing queue; wire log: the LOST mark sits exactly where chunks are missing, numbers account for every chunk, joining by CONTINUES never mixes messages, and every DeviceID value is masked wherever the chunks cut it and nothing else is |
| `Server_bytes` | unfinished objects fit, framer and buffer in step, a fresh message is answered, every call ends |
| `Server_rings` | no write without an owner, order kept and nothing lost to another connection's close, spacing kept, `next_due_us` exact |
| `Server_log` | types; the event log's story per connection |
| `Pumped` | under the documented host loop every reply and announcement is queued, what a refusal kept is in the end consumed, and only a read longer than the receive buffer can lose input |
| `Net_alone` | one client that sends ahead: no reply is dropped, and every reply arrives without the client sending more |
| `Net_pair` | two clients, breaks, refusals and reopening: transport and server agree on who is connected, replies are whole and in order, nothing waits without a flag |
| `Capture` | the file: what was accepted is read back whatever happened after, and what is not there was reported; the replay: a sound capture is read back as its session, the report adds up for any capture, and the replay ends except where spacing wedges it |
| `Asyncio` | writers and server table agree until `stop()`, what a refusal kept is fetched, every message is answered unless it was in a read too long to keep, and `stop()` returns, both unless a client stalls or the listener waits for clients (Python 3.12) |
| `Finding_*` | two statements of headers, comments and tests that the code does not keep (below) |

Bounds. One or two connections suffice for competition over a ring; rings of
one to three are full after as many steps; `MaxMessageBytes` of 2 to 5 stands
for the real bound (at least 256), since only the distance of an object's
length and of `rx` from the bound matters; reads are every one of up to two
bytes, and some of four to six, so objects split anywhere and a read can exceed
`rx`. In `Pumped` `rx` holds five bytes and the ring two replies: a read of
five bytes is refused behind a begun object and kept, and two of nine and ten
bytes, four objects and more, are refused and lost. `ErrorCap` caps the
consecutive-error counter just past the threshold. `MaxNow` bounds the clock;
the host's clock never runs backwards (server.h asks for a monotonic one).
`CounterModulus` stands for 2^32: it is small in the ring's own runs so that
counters wrap, and 1 in the server's runs, whose properties do not read the
numbers. `Codec`'s `MaxBuf` = 7 allows nested braces and an escaped quote;
`MaxDoc` = 3 members out of 25 let every key come twice with something between
or behind, in every order; `DepthMax` = 2 and `UnknownMax` = 2 are reached by
them. `Int64Max`, `ExactMax` and `DoubleMax` keep the order the real limits
have. `WriteMax`, the sizes of fields and the lengths of texts and of the keys
of a reply are the real ones; `NumberWidth` is the longest a number prints. In
`Rings` the event ring has three places, the write ring four. `WireLog` cuts
chunks of three bytes out of objects of up to fourteen, built from every head
(a key with and without its colon, spaces or string) and every tail (a value
that ends, does not, hides a quote, holds the key's name or is followed by a
second key), in rings of one, two and three.

`Net` runs with a ring and a queue of one, the sizes at which every refusal,
retry and resume happens within a few requests; `Retries` of one or two stands
for four, since only a burst longer than ring, queue and retries together
matters. `SendBuffer` of one and three cuts replies at either half.
`MaxRequests` bounds a connection's requests and `Window` how far a client
sends ahead. Two ids for two clients make ids wrap into ones still open, which
the server refuses. `Net_pair` identifies the two clients (symmetry); it checks
invariants only.

`Capture` records up to `MaxLog` chunks of `ChunkMax` bytes, `MaxOdd` of them
errors or parts of something longer, from two connections; the second server's
ring of one makes it refuse, and `PendingMax` = 2 unclaimed replies overflow;
the replay's table of ids has two places, enough, or one (`IdTables`).
The file holds up to `MaxChunks` = 3 chunks in batches of `BatchMax` = 2. In
`Asyncio` the ring and the stream's buffer (`HighWater`) hold one reply and
`rx` one message, so a read of two is refused and kept, one of three refused
and lost, and one reply stalls; the `Tables` tried let both clients in, or one;
there are `MaxTraffic` = 3 messages and announcements between them, one
announcement at most (`MaxAnnounced`); at most one accepted connection waits
for its coroutine.

Runs of `Server` whose properties do not mention the event ring use the view
`WithoutEvents`: no guard and no other variable depends on `events`, so states
that differ only there have the same behaviours.

Fairness. `PumpedSpec` assumes that library code which has been entered runs on
(`WF_vars(CallStep)`: a C function does not pause) and that the host keeps
draining and resuming, which is what the documented loop does. `Net`'s
`FairSpec` assumes a host that keeps polling (`WF` on the steps of a poll),
that not every wait is interrupted and not every accept fails (`SF` on those
two), and that a client which stays connected reads what it is sent: one that
does not stops the pump for everyone, by design (gs_net.c:223). `Capture`
assumes that a replay, which is one call, runs on. `Asyncio` assumes that the
event loop runs every coroutine that can run, and that the system moves bytes
to a client that reads and reports a lost connection; clients owe nothing. No
run assumes that a client sends anything. That calls end under any host is a
safety property here: `EveryCallEnds` bounds the work left by a measure that
every step of a call lowers.

Server, codec, rings and socket transport never deadlock: polling is always
possible, also after close. `Capture` and `Asyncio` end: a replay has reported,
a file has been read, every client has left.

## Findings

Each is a run of its own with one property that states the code's own words
(`findings` in PROJECT.json has the lines).

1. `Finding_reply_dropped`: the server checks for a free write slot only at an
   object's first byte. `gsp_net_poll` reads every connection before it pumps,
   so with more connections than ring places, requests whose second halves are
   read in one pass compete for the ring and the loser is delivered without a
   reply. `Pumped` shows that a host that drains after every call, with a place
   per connection, avoids it; `Net_alone` that one connection does.
2. `Finding_wait_forever`: the resume at the end of a poll may queue the last
   reply of a burst. No pump follows it, and with an unlimited timeout the next
   `select()` waits while the reply is in the ring. With a finite timeout
   (`Net_alone`) the reply arrives one wait later.

Smaller disagreements that the model shows in its definitions, without a run:

* Without a drain in between, bytes retained by one refusal and a second read
  within the bound exceed `rx`, and `RefuseAndLose` discards both
  (gs_server.c:1266); the comment at :1259 has this reachable only by handing
  over more than `max_message_bytes` in one call. Under the pump that does not
  happen (`ShortReadsKept`); the socket transport goes on reading from a
  connection that owes a resume.
* One read that is longer than `rx` and holds more objects than the write ring
  has places loses input under the pump as well: `RefuseAndLose` fires in
  `Pumped`, on the two longest reads. server.h:295 allows reads of "ANY LENGTH"
  and says at :306 that on a refusal "the unconsumed bytes are kept"; the
  comment at gs_server.c:1259 has the loss "Reachable only by a host that never
  drains writes". `ShortReadsKept` states what is left of both: a read up to
  the size of `rx` (`max_message_bytes` + 1, 16385 by default) loses nothing.
  The repository's own asyncio transport reads 65536 bytes at a time
  (asyncio_transport.py:158) and resumes because "the bytes are kept" (:165):
  the messages of such a read are never answered (`thrown` in
  `AsyncioTransport`). gs_net.c reads through a smaller buffer (16384 by
  default), and the real default ring has 32 places, so it takes more than 32
  messages in one read.
* With `rx` retained exactly full, new bytes are not copied; if the retained
  ones are then consumed, the call returns `GSP_OK` and the new ones are gone
  (gs_server.c:1238, where the comment says `frame_pending` cannot leave that
  state). `ShortReadsKept` states the opposite and holds under the pump.
* `DeliverMessage` has no `WithinBound`: an object whose closing brace is byte
  `max_message_bytes` + 1 is delivered (gs_server.c:958 before :975), where
  server.h:140 has it discarded.
* `AnnounceToSlot` skips a connection silently when the ring is full
  (gs_server.c:1410), and `SetPlayer` has stored the value by then, so the same
  call repeated announces nothing; server.h:340 has it queue a 201 to every
  open connection.
* `next_due_us` counts writes held back by spacing whatever `IdleAlarm` is
  (gs_server.c:1338); server.h:151 says it is then always `GSP_TIME_NEVER`.
* With `AckFits` false (`RepliesReadBack` says when that is: 63 characters that
  are escaped six-fold do not fit), an `ack_text` whose escaped form exceeds a
  write request, no message is acknowledged (gs_server.c:852 ignores the
  refusal).
* A read with more objects than the ring has places is refused also under the
  pump (`RefuseAndRetain` fires in `Pumped`); server.h:247 says a host
  that drains after every call never sees it.
* Of a key that comes twice the last *readable* occurrence counts, and repeated
  sections merge: a later null or mistyped value clears nothing (`store`);
  codec.h says the last wins. A value nested more than 32 deep makes the whole
  message malformed (`skip_structure`), where codec.h has `GSP_OK` for anything
  that is a JSON object. `skip_structure` counts brackets of both kinds
  together, so `[}` passes inside a value that is skipped.
* `gsp_player_info_equal` is documented as "would serialise identically"; a
  distance that is not finite is written as 0 and compared as it is, so two
  players that differ only there serialise alike and are announced twice.
* `gsp_ball_data_derive` is not idempotent for a ball with a zero total, an axis
  and half a pair (`DeriveKeepsTheWire` names the exception): the first call
  returns `GSP_OK` and completes the pair, the second takes the zero for a
  placeholder.
* A replay into a server with write spacing wedges when its ring fills with
  writes held back past the recorded time (`Wedged`, gs_record.c:724). With
  `holes`, a table that is too small, or `pending` overflown, the report calls
  replies missing that the server produced (`Sound`); `pending` is never purged
  when a connection closes. record.h describes `connections` as distinct ids,
  the code counts opens. A run of garbage longer than a chunk is replayed as
  several errors (`torn`).
* The replay remembers at most `GS_REPLAY_CONNS` = 64 open ids
  (gs_record.c:529); the comment at :499 has the table bounded "by what the
  server itself allows at once, which is the honest bound", but a server may be
  created with a larger table. A connection that finds the list full is open on
  the server and unknown to `replay_is_open`: each further chunk of it tries to
  open it again, in vain, and is then fed to it all the same; its close is
  passed over and its slot is never given back (`forgotten`). `ReportBalances`
  says that this is all that can go astray.
* The warning an overflow of the event ring puts in is an entry like any other
  and may be dropped by a later overflow: `OneWarningPerRun` is about what is
  emitted, `Accounted` about what a host can still work out.
* `stop()` of the asyncio transport awaits the listener before it closes the
  clients' streams; from Python 3.12 on that wait ends only when they are gone
  (`NobodyHangs` names the exception). A client that has left, and whose
  coroutine awaits the others' streams in its `finally` clause, still has its
  stream open when `stop()` returns (`Leaving`). A client accepted before
  `stop()` whose coroutine first runs after the streams were closed stays
  connected (`late`): `_on_client` does not look at `_closing`, and its replies
  find no writer once `stop()` has cleared the table. After `stop()` the server
  still has the connections open, and a second transport on it numbers from 1
  again; `start()` does not reset `_closing`.

## Proofs

Each theorem holds for every value of the constants that satisfies the named
assumptions: `ServerAssumption`, `EventAssumption`, `WriteAssumption`,
`TypesAssumption`, `StreamAssumption`, `WireAssumption`, `NetAssumption`,
`AsyncioAssumption`, `PumpAssumption`, `FileAssumption`, `ReplayAssumption`.
They say that sizes are positive numbers, that inputs have their types
(`WireAssumption`: that what is recorded is made of the redactor's classes of
bytes), and (`PumpAssumption`) that the documented host loop is run without
write spacing. A hypothesis beyond them is part of the theorem and named below.
All are safety properties, proved by an inductive invariant that TLC checked on
small instances first.

`ServerProofs`, on `Server`:

* `TypeCorrect`, by `TypeInv`: it groups the type by what actions touch (table,
  buffers, rings, host, call) and adds what typing needs: the framer's states
  are the reachable ones (`FramerOK`), `scan <= Len(rx) <= RxCapacity` (or
  indexing rx is meaningless), the running call works on a used slot, and used
  slots hold real connection ids (or a reply could be addressed to 0).
* `AllocationRespected`, `SlotStaysReserved` and, if the acknowledgement fits,
  `FreshAnswered`, by `RingInv`: the write ring is within its size, and if the
  object being assembled was opened by the running call (`fresh`) a place is
  free. Without `fresh` the invariant is false: that is finding 1.
* `WritesHaveOwners` and `ClosedIsSealed`, by `OwnerInv`: every write has an
  owner, ids are unique, and the slots a running close has passed are free.
* `UnfinishedObjectsFit`, by `AssemblyInv`: an unfinished object starts at the
  front of `rx`, is within the bound, and is scanned to the end unless
  `frame_pending` is running on it.
* `CallsTerminate`: the measure `WorkLeft` weighs a byte of the input three, a
  byte not yet scanned one, and a pass of `frame_pending` two if the copy before
  it took something: that is the case in which another copy may follow.
* `WritesStayInOrder` (an action property): each action is classed by what it
  does to `WritesFor`, one connection's part of the ring (`Keeps`). A poll takes
  the first entry that is not held back, which is the first of its connection,
  since all entries of a connection are held back together.
* `WritesAreSpaced` and `DueTimeExact`, by `SpacingInv`: `next_write` is a full
  spacing after `polled_at` and at most one spacing ahead of now, so with the
  spacing off nothing is ever held back. `DueIsExact` also needs that writes
  have owners, or a held write might have no slot to give its time.
* `FramerFollowsBuffer`, by `SeenInv`: what `rx` holds up to `scan` is what the
  framer was fed since it was reset. It rests on what `frame_scan` and
  `gsp_frame_find` return on a sequence with one more byte (`PartProofs`).
* `LogCoherent` and `LogUpToDate`, by `StoryInv`. A connection stands at a mode
  (shut, awake, idle), a run of errors and a reported state; the invariant says
  that the part of the ring about it is coherent and ends where the connection
  stands. `Allowed` says which event may come next and where the connection
  stands then, and each action is shown to emit only such events. Every conjunct
  is about an entry and what comes *after* it, so it survives the loss of the
  oldest entries; the warning an overflow adds belongs to no connection.

`PumpedServerProofs`, on the documented host loop:

* `PumpedSendsQueued`, if the acknowledgement fits and the ring has a place per
  connection: `QueueInv` says that an object opened by an earlier call meets an
  empty ring, and that an announcement has queued at most one write per slot
  passed. Both hypotheses are needed: finding 1 is what happens without a drain,
  and `AckFits` is a listed disagreement.
* `PumpedInputKept`, for reads of any length: by `InputInv`, if the host handed
  over no more than `rx` holds (`handed`, a history variable), then what a
  running `on_bytes` has not looked at fits `rx`, and a pass that copied nothing
  has nothing left to copy.

`FramerStreamProofs`: `FramerIsSound`; `FramerAgreesWithFind`, the incremental
framer and the stateless search agree at every byte, by `StreamInv`;
`FramerClosesAtObjectEnd`, both close exactly where the text fed so far becomes
an object by the reference definition, by `TextInv`. Its centre is `Tracks`,
which says what the framer's three fields mean in the reference's terms: a
literal is open exactly when `in_string` is set, an odd run of backslashes ends
the text exactly when `escape` is, and `depth` is the difference of the braces
outside literals. What the reference says of a text with one byte more is proved
once, for each of its definitions (`LiteralAppend`, `RunGrows`, `OccursAppend`,
`SkipAppend`).

`RingProofs`:

* `NoGapsInside`, `WarnedOncePerRun`, `NewestKept`, by `LogInv`: the chain of
  numbers, and that the warnings in the current run are what `drop_warned` says.
  `EventsAccounted` adds the balance of the wrapping counters (`Balanced`).
* `ArrayIsTheQueue` and `WriteArrayIsTheQueue`: the circular arrays implement
  the queues. The queue is the slice that head and count cut out of the array;
  the loops of compaction and shift are proved to do to the slice what
  `drop_writes_for` and `RemoveEntry` do to the queue. The second is a
  refinement: initial states map to initial states and steps to steps.
* `WireGapsTold`, by `WireInv`: besides the property's own conjuncts, whether
  the message now being cut into chunks continues the newest chunk, and what the
  reader may still join when the ring is empty.
* `IdentifiersMasked`, for buffers of any length over the redactor's classes of
  bytes and chunks of any size, by `MaskInv`. The reference `Scan` reads a
  buffer once, a state per byte; `redactor_next` searches for the next key from
  its cursor. The state of the scan outside a value says how far back the key
  it may be part of begins (`Behind`), so the first match of the search is
  where the scan first enters a value (`FirstMatch`), and `value_end` is where
  it leaves it (`ValueEnds`). Between chunks the cursor stands where the scan
  is outside every value, or at the end (`CursorOK`), and the value it holds is
  all that is secret between the next chunk and itself (`Covers`); the passes
  of `redactor_apply` keep that while they mask (`PassOK`), and each but the
  last moves the cursor on, so `Len(buf) + 1` of them are enough
  (`ApplyMasks`).

`NetProofs`, on `Net`, for any number of clients, slots and ids:

* `TransportKeepsTables`, by `NetInv`: a client waits in the backlog or has one
  socket, never both, so an id's slot is unique.
* `TransportSendsWhole`, by `ReplyInv`: the stream of a connection, which is
  what is sent, what is queued behind the offset and what is in the ring, is
  whole replies in rising order; a client without a connection was sent nothing.
* `TransportForgetsNothing`, by `FlowInv` and `WatchInv`, if a client's window
  fits the receive buffer twice over (`2 * Window <= RxCapacity`). Without the
  hypothesis more may be kept than `rx` holds; the server throws it away and the
  flag is left standing, which is the first of the smaller disagreements above.
  The runs of `Net` satisfy it.

`AsyncioProofs`: `TransportAgreement`, by `AgreeInv`. Which coroutine may still
call the server for its connection (`Owed`) ties the two tables together across
the awaits; a connection whose coroutine has not begun is nowhere yet
(`Unborn`), so its id can be added; an open stream that is out of the writers'
table belongs to a coroutine that is on its way to closing it (`Closes`), so
`stop()`, which closes the streams in that table, misses none but those and the
late ones.

`CaptureProofs`, on `Capture`:

* `CapturesAreEvidence`, for chunks, batches and recordings of any length, by
  `CaptureInv`. Its centre is the layout of the file: `Upto(given, n)` is the
  header and the records of the first `n` chunks handed over. As long as nothing
  failed, the file and what stdio holds are together `Upto(given, chunks)` and
  the begun record, and the batch holds the rest (`WriterInStep`); what was
  accepted was flushed, and the file only grows, so it begins with
  `Upto(given, accepted)` whatever fails later (`AcceptedKept`); once nobody
  records, a file without an error is cut and not torn (`CutNotTorn`). A reader
  that stands behind `n` whole records (`Behind`) finds the next record, the end
  of the file, or a record cut short, and says which; it leaves that position
  only when it is past what was accepted, or at the end (`ReaderInStep`).
* `ReplayReportAddsUp`, for captures of any length, by `ReplayInv`: the counts
  move together in every step of `Match` and `Claim` (`CountInv`), and the list
  of connections `replay_is_open` searches has no entry twice and, together with
  the connections it had no place for, one entry per used slot of the second
  server (`TableInv`). The latter speaks of the replay only: the live server's
  connections are in no list. The list may be of any size (`ReplayAssumption`).

`PartProofs` holds the lemmas the others rest on (`DropWritesFor` among them,
on what `drop_writes_for`'s loop returns). The loops that are written as
recursive functions are proved about by an induction over a set of naturals
(`SetInduction`), derived from the least element of a set in a form without
operator parameters; `LoopExists` gives the recurrence.

Model-checked only:

* liveness, which needs fairness: `RetainedConsumed`, `RepliesArrive`,
  `ReplayEnds`, `NobodyHangs`. Where the code does wait for ever, the property
  names the state and shows that there is no other: `ReplayEnds` the replay
  wedged by write spacing, `NobodyHangs` a client that does not read (everyone
  waits for it) and the `stop()` of Python 3.12. `RepliesArrive` runs with one
  client; that a client which does not read stops the pump of the socket
  transport for the others is what the code does, and `NothingForgotten` only
  shows that it goes on when that client reads again;
* the codec (`DecodesTheMeaning`, `DecodesOneWholeFrame`, `MessagesReadBack`,
  `RepliesReadBack`, `DeriveKeepsTheWire`): the decoder, and the meaning it is
  compared with, recurse over documents;
* `NoReplyDropped`, which is true of one client and false of two (finding 1): it
  is no theorem of `Net`;
* `ReplayTellsTheSession`: it compares the counts of a finished replay with
  those of the live session, two runs of `Server` one after the other. An
  invariant would have to simulate the live server step by step from the bytes
  of the capture, through every cut of a read into chunks.

## Not modelled

Abstracted within what is modelled: the lexing inside a token (digits, escape
sequences, UTF-8); indentation; trigonometry off the axes; the values of the
header of a capture (in which the writer replaces line ends only, although its
comment mentions `=`), and `fclose`'s own result at its end; the texts of 501
replies; the redaction of captures that are replayed; bind, address handling
and statistics of the socket transport; its tick, and the asyncio transport's
timer, which only an idle alarm or write spacing arms and whose effect on the
server is `Tick` in `Server`.

Left out for good: names of enumerations and text formatting (`gs_misc.c`), ABI
tables, ctypes declarations, argument parsing and printing of the command-line
tools, tests and the build. They keep no state and no property here is about
wording.
