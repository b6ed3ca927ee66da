------------------------------- MODULE Server -------------------------------
(***************************************************************************)
(* The sans-I/O listener of src/src/gs_server.c, with the wire log off     *)
(* (config.wire_ring = 0, the default).                                    *)
(*                                                                         *)
(* The library runs on one thread and only inside a call the host makes.   *)
(* A call that loops (on_bytes over its input, the announcements and tick  *)
(* over the connection table) takes one step per pass of its loop: pc says *)
(* which call is running, and no other call starts before it has returned. *)
(* What may interleave is what the host may interleave: whole calls.       *)
(*                                                                         *)
(* A call refused by an early return (closed server, unknown or duplicate  *)
(* connection, table full) changes nothing and has no action;              *)
(* send_player_info, which sets the clock first, has one.                  *)
(***************************************************************************)
EXTENDS Framer, EventQueue, WriteQueue

CONSTANTS
  ConnIds,          \* connection ids the host may choose (0 and UINT32_MAX excluded)
  MaxConnections,   \* config.max_connections
  MaxMessageBytes,  \* policy.max_message_bytes
  IdleAlarm,        \* policy.idle_alarm_us, 0 = off
  CloseThreshold,   \* policy.protocol_error_close_threshold, 0 = never
  WriteSpacing,     \* policy.write_spacing_us, 0 = off
  RejectIncomplete, \* policy.reject_incomplete_shots
  AnnouncePlayer,   \* policy.announce_player_on_connect
  AnnounceReady,    \* policy.announce_ready_on_connect
  AckFits,          \* the encoded policy.ack_text fits a write request
  Reads,            \* the byte sequences one on_bytes call may hand over
  Messages,         \* what the decoder may make of a framed object
  PlayerInputs,     \* the player values the host passes
  SessionInputs,    \* the session states the host sets
  Unknown,          \* the zeroed player: no hand, club, distance or surface
  NoDevice,         \* the empty DeviceID
  NoShot,           \* INT64_MIN, last_shot_number before the first shot
  ErrorCap,         \* bound: consecutive errors are counted up to this
  MaxNow            \* bound: the largest now_us a host supplies

Slots     == 1..MaxConnections
Players   == PlayerInputs \cup {Unknown}
Sessions  == {"NONE", "ACTIVE", "ENDED"}
Kinds     == {"SHOT", "HEARTBEAT", "STATUS"}
OptFlag   == {"absent", "on", "off"}
Codes     == {200, 201, 202, 203, 501}
Devices   == {m.device : m \in Messages} \cup {NoDevice}
Shots     == {m.shot : m \in Messages} \cup {NoShot}
Times     == 0..MaxNow
TimeUnknown == -1
TimeNever == MaxNow + IdleAlarm + WriteSpacing + 1

ASSUME ServerAssumption ==
  /\ ConnIds \subseteq Nat \ {0}
  /\ MaxConnections \in Nat \ {0}
  /\ MaxMessageBytes \in Nat \ {0}
  /\ {IdleAlarm, CloseThreshold, WriteSpacing, MaxNow} \subseteq Nat
  /\ ErrorCap \in Nat /\ ErrorCap > CloseThreshold
  /\ {RejectIncomplete, AnnouncePlayer, AnnounceReady, AckFits} \subseteq BOOLEAN
  /\ Reads \subseteq Seq(Byte)
  /\ SessionInputs \subseteq Sessions
  /\ \A m \in Messages : /\ m.kind \in Kinds
                         /\ m.incomplete \in BOOLEAN
                         /\ m.ready \in OptFlag
                         /\ m.detected \in OptFlag

VARIABLES
  used,           \* [Slots -> BOOLEAN]: the slot holds an open connection
  info,           \* [Slots -> gsp_connection_info], stale once the slot is freed
  idle_reported,  \* CLIENT_IDLE was emitted and CLIENT_ACTIVE is owed
  framer, rx, scan, \* the framer, the pending input, how much of it it has seen
  next_write,     \* earliest time a write to the connection may be polled
  writes,         \* the write ring, oldest first
  events,         \* the event ring
  now,            \* the last now_us a host supplied
  player, player_set, session,
  closed,
  pc,             \* which call is running; "host" = none
  cur,            \* the slot that call works on
  data,           \* on_bytes: input not yet copied into rx
  took,           \* on_bytes: this pass of the outer loop copied something
  item,           \* announcements: what is being sent
  fresh,          \* history: the object under assembly was opened by this call
  polled_at       \* history: when the last write to the connection was polled

connVars == <<used, info, idle_reported, next_write>>
rxVars   == <<framer, rx, scan>>
hostVars == <<player, player_set, session, closed>>
callVars == <<pc, cur, data, took, item, fresh>>
vars == <<connVars, rxVars, writes, events, now, hostVars, callVars, polled_at>>
-----------------------------------------------------------------------------
(* Mutant: no room for the byte that shows an object is too large. *)
RxCapacityTight == MaxMessageBytes

RxCapacity == MaxMessageBytes + 1

NewInfo(c, t) ==
  [conn |-> c, opened |-> t, last_message |-> TimeUnknown, last_shot |-> NoShot,
   device |-> NoDevice, ready |-> "off", detected |-> "off", errors |-> 0]

NoItem == [code |-> 201, body |-> Unknown]

(* memset of the whole allocation: no slot is used, and what an unused     *)
(* slot holds is never read before on_connection_opened sets it.           *)
Init ==
  /\ used = [s \in Slots |-> FALSE]
  /\ info = [s \in Slots |-> NewInfo(0, 0)]
  /\ idle_reported = [s \in Slots |-> FALSE]
  /\ framer = [s \in Slots |-> framer_reset]
  /\ rx = [s \in Slots |-> <<>>]
  /\ scan = [s \in Slots |-> 0]
  /\ next_write = [s \in Slots |-> 0]
  /\ polled_at = [s \in Slots |-> TimeUnknown]
  /\ writes = <<>>
  /\ events = EmptyQueue
  /\ now = 0
  /\ player = Unknown /\ player_set = FALSE /\ session = "NONE" /\ closed = FALSE
  /\ pc = "host" /\ cur = 1 /\ data = <<>> /\ took = FALSE /\ fresh = FALSE
  /\ item = NoItem

(* The host may make a call: none is running and the server is not closed. *)
Idle == pc = "host" /\ ~closed

IsOpen(c) == \E s \in Slots : used[s] /\ info[s].conn = c

find_conn(c) == CHOOSE s \in Slots : used[s] /\ info[s].conn = c

(* The running call returns: its local variables are gone. *)
Return ==
  /\ pc' = "host" /\ cur' = 1 /\ data' = <<>> /\ took' = FALSE
  /\ item' = NoItem /\ fresh' = FALSE
-----------------------------------------------------------------------------
(* The write ring refuses rather than drops. *)

Encodes(code) == code = 200 => AckFits

can_queue(w, code) == ~write_ring_full(w) /\ Encodes(code)

queue_write(w, c, code, body) ==
  IF can_queue(w, code) THEN Append(w, [conn |-> c, code |-> code, body |-> body]) ELSE w

player_has_anything(p) == p # Unknown

(* send_player_to and send_session_to: the event only if the write fitted. *)
SentType(code) == IF code = 201 THEN "PLAYER_INFO_SENT" ELSE "SESSION_STATE_SENT"

send_event(e, w, c, code) ==
  IF can_queue(w, code) THEN emit(e, SentType(code), c, "none") ELSE e
-----------------------------------------------------------------------------
(* gsp_server_on_connection_opened: the first free slot, wiped. *)
OnConnectionOpened(c, t) ==
  /\ Idle
  /\ ~IsOpen(c)
  /\ \E s \in Slots :
       LET tellPlayer == AnnouncePlayer /\ player_set /\ player_has_anything(player)
           tellReady  == AnnounceReady /\ session = "ACTIVE"
           e1 == emit(events, "CONNECTION_OPENED", c, "none")
           w2 == IF tellPlayer THEN queue_write(writes, c, 201, player) ELSE writes
           e2 == IF tellPlayer THEN send_event(e1, writes, c, 201) ELSE e1
       IN  /\ ~used[s] /\ \A r \in 1..(s - 1) : used[r]
           /\ now' = t
           /\ used' = [used EXCEPT ![s] = TRUE]
           /\ info' = [info EXCEPT ![s] = NewInfo(c, t)]
           /\ idle_reported' = [idle_reported EXCEPT ![s] = FALSE]
           /\ next_write' = [next_write EXCEPT ![s] = t]
           /\ framer' = [framer EXCEPT ![s] = framer_reset]
           /\ rx' = [rx EXCEPT ![s] = <<>>]
           /\ scan' = [scan EXCEPT ![s] = 0]
           /\ polled_at' = [polled_at EXCEPT ![s] = TimeUnknown]
           /\ writes' = IF tellReady THEN queue_write(w2, c, 202, Unknown) ELSE w2
           /\ events' = IF tellReady THEN send_event(e2, w2, c, 202) ELSE e2
  /\ UNCHANGED <<hostVars, callVars>>

(* gsp_server_on_connection_closed: only `used` is cleared in the slot. *)
OnConnectionClosed(c, t) ==
  /\ Idle
  /\ IsOpen(c)
  /\ now' = t
  /\ events' = emit(events, "CONNECTION_CLOSED", c, "none")
  /\ writes' = drop_writes_for(writes, c)
  /\ used' = [used EXCEPT ![find_conn(c)] = FALSE]
  /\ UNCHANGED <<info, idle_reported, next_write, rxVars, hostVars, callVars, polled_at>>
-----------------------------------------------------------------------------
(* Mutant: a call with no bytes returns early. *)
OnBytesNeedsBytes(c, d, t) ==
  /\ Idle /\ IsOpen(c) /\ d # <<>>
  /\ now' = t /\ pc' = "fill" /\ cur' = find_conn(c) /\ data' = d
  /\ took' = FALSE /\ fresh' = FALSE
  /\ UNCHANGED <<connVars, rxVars, writes, events, hostVars, item, polled_at>>

(* gsp_server_on_bytes.  Its outer loop copies input (FillRx) and runs     *)
(* frame_pending, whose loop is the actions that follow.                   *)
OnBytes(c, d, t) ==
  /\ Idle
  /\ IsOpen(c)
  /\ now' = t
  /\ pc' = "fill"
  /\ cur' = find_conn(c)
  /\ data' = d
  /\ took' = FALSE
  /\ fresh' = FALSE
  /\ UNCHANGED <<connVars, rxVars, writes, events, hostVars, item, polled_at>>

Least(a, b) == IF a < b THEN a ELSE b

Drop(seq, n) == SubSeq(seq, n + 1, Len(seq))

(* Mutant: the input pointer is not moved past what was copied. *)
FillRxRepeats ==
  LET take == Least(RxCapacity - Len(rx[cur]), Len(data))
  IN  /\ pc = "fill"
      /\ rx' = [rx EXCEPT ![cur] = rx[cur] \o SubSeq(data, 1, take)]
      /\ took' = (take > 0)
      /\ pc' = "frame"
      /\ UNCHANGED <<connVars, framer, scan, writes, events, now, hostVars,
                     cur, data, item, fresh, polled_at>>

FillRx ==
  LET take == Least(RxCapacity - Len(rx[cur]), Len(data))
  IN  /\ pc = "fill"
      /\ rx' = [rx EXCEPT ![cur] = rx[cur] \o SubSeq(data, 1, take)]
      /\ data' = Drop(data, take)
      /\ took' = (take > 0)
      /\ pc' = "frame"
      /\ UNCHANGED <<connVars, framer, scan, writes, events, now, hostVars,
                     cur, item, fresh, polled_at>>

Framing == pc = "frame" /\ scan[cur] < Len(rx[cur])

NextByte == rx[cur][scan[cur] + 1]

(* frame_pending compacts before the first byte of an object, so an object *)
(* starts at the front of rx and its length is scan.                       *)
ObjectScan == IF in_message(framer[cur]) THEN scan[cur] ELSE 0

ObjectRx == IF in_message(framer[cur]) THEN rx[cur] ELSE Drop(rx[cur], scan[cur])

SkipWhitespace ==
  /\ Framing
  /\ ~in_message(framer[cur])
  /\ NextByte = "ws"
  /\ scan' = [scan EXCEPT ![cur] = scan[cur] + 1]
  /\ UNCHANGED <<connVars, framer, rx, writes, events, now, hostVars, callVars, polled_at>>

(* Mutant: the slot is checked only at the front of the buffer. *)
MustRefuseAtFront ==
  ~in_message(framer[cur]) /\ NextByte # "ws" /\ write_ring_full(writes) /\ scan[cur] = 0

(* The slot check, made only before the first byte of an object. *)
MustRefuse == ~in_message(framer[cur]) /\ NextByte # "ws" /\ write_ring_full(writes)

MayFeed == Framing /\ (in_message(framer[cur]) \/ NextByte # "ws") /\ ~MustRefuse

RestFits == Len(data) <= RxCapacity - Len(ObjectRx)

(* GSP_ERR_QUEUE_FULL: the rest of the read is kept if it fits in rx ... *)
RefuseAndRetain ==
  /\ Framing
  /\ MustRefuse
  /\ RestFits
  /\ rx' = [rx EXCEPT ![cur] = ObjectRx \o data]
  /\ scan' = [scan EXCEPT ![cur] = 0]
  /\ events' = emit(events, "WARNING", info[cur].conn, "WRITE_RING_FULL")
  /\ Return
  /\ UNCHANGED <<connVars, framer, writes, now, hostVars, polled_at>>

(* Mutant: the framer is left inside the object thrown away. *)
reset_rx_keeping_framer(s) ==
  /\ rx' = [rx EXCEPT ![s] = <<>>]
  /\ scan' = [scan EXCEPT ![s] = 0]
  /\ UNCHANGED framer

reset_rx(s) ==
  /\ rx' = [rx EXCEPT ![s] = <<>>]
  /\ scan' = [scan EXCEPT ![s] = 0]
  /\ framer' = [framer EXCEPT ![s] = framer_reset]

(* ... and otherwise everything pending is thrown away with it. *)
RefuseAndLose ==
  /\ Framing
  /\ MustRefuse
  /\ ~RestFits
  /\ reset_rx(cur)
  /\ events' = emit(events, "WARNING", info[cur].conn, "WRITE_RING_FULL")
  /\ Return
  /\ UNCHANGED <<connVars, writes, now, hostVars, polled_at>>

AtThreshold(errors) == CloseThreshold > 0 /\ errors = CloseThreshold

(* protocol_error: a 501 if it fits, the event, and at the threshold the   *)
(* one request to close.                                                   *)
protocol_error(s, reason) ==
  LET c      == info[s].conn
      errors == Least(info[s].errors + 1, ErrorCap)
      e      == emit(events, "PROTOCOL_ERROR", c, reason)
  IN  /\ info' = [info EXCEPT ![s].errors = errors]
      /\ writes' = queue_write(writes, c, 501, Unknown)
      /\ events' = IF AtThreshold(errors)
                   THEN emit(e, "CLOSE_REQUESTED", c, reason) ELSE e

(* A protocol error inside frame_pending throws away everything pending    *)
(* and the rest of the read, and on_bytes returns.                         *)
Discard(reason) ==
  /\ protocol_error(cur, reason)
  /\ reset_rx(cur)
  /\ Return
  /\ UNCHANGED <<used, idle_reported, next_write, now, hostVars, polled_at>>

Garbage ==
  /\ MayFeed
  /\ feed_step(framer[cur], NextByte) = "GARBAGE"
  /\ Discard("LEADING_GARBAGE")

(* Mutant: the bound is compared before the byte is counted. *)
WithinBoundLate == ObjectScan <= MaxMessageBytes

WithinBound == ObjectScan + 1 <= MaxMessageBytes

FeedByte ==
  /\ MayFeed
  /\ feed_step(framer[cur], NextByte) \in {"OPEN", "INSIDE"}
  /\ WithinBound
  /\ framer' = [framer EXCEPT ![cur] = feed_state(framer[cur], NextByte)]
  /\ rx' = [rx EXCEPT ![cur] = ObjectRx]
  /\ scan' = [scan EXCEPT ![cur] = ObjectScan + 1]
  /\ fresh' = (fresh \/ ~in_message(framer[cur]))
  /\ UNCHANGED <<connVars, writes, events, now, hostVars, pc, cur, data, took, item,
                 polled_at>>

TooLarge ==
  /\ MayFeed
  /\ feed_step(framer[cur], NextByte) \in {"OPEN", "INSIDE"}
  /\ ~WithinBound
  /\ Discard("TOO_LARGE")

(* deliver_message on bytes the decoder refuses. *)
BadJson ==
  /\ MayFeed
  /\ feed_step(framer[cur], NextByte) = "CLOSE"
  /\ Discard("BAD_JSON")

(* note_client_state: an absent option keeps the flag. *)
Flag(opt, old) == IF opt = "absent" THEN old ELSE opt

StateDetail(ready, detected) ==
  CASE ready = "on"  /\ detected = "on"  -> "ready, ball"
    [] ready = "on"  /\ detected = "off" -> "ready"
    [] ready = "off" /\ detected = "on"  -> "ball"
    [] ready = "off" /\ detected = "off" -> "none"

(* Mutant: compared with the state of a new connection. *)
SameAsNew(i, ready, detected) == ready = "off" /\ detected = "off"

SameState(i, ready, detected) == ready = i.ready /\ detected = i.detected

Repeated(i, m) == m.kind = "SHOT" /\ i.last_shot # NoShot /\ m.shot = i.last_shot

(* deliver_message on a well-formed object: counters, the reply first, then *)
(* ACTIVE, identity, client state and the message itself.  The bound on an  *)
(* object's length is not looked at again once it has closed.               *)
DeliverMessage(m) ==
  LET i  == info[cur]
      c  == i.conn
      ready    == Flag(m.ready, i.ready)
      detected == Flag(m.detected, i.detected)
      code == IF RejectIncomplete /\ m.incomplete THEN 501 ELSE 200
      e1 == IF idle_reported[cur] THEN emit(events, "CLIENT_ACTIVE", c, "none") ELSE events
      e2 == IF m.device \in {NoDevice, i.device} THEN e1
            ELSE IF i.device = NoDevice THEN emit(e1, "CLIENT_IDENTIFIED", c, "none")
            ELSE emit(e1, "WARNING", c, "DEVICE_ID_CHANGED")
      e3 == IF SameState(i, ready, detected) THEN e2
            ELSE emit(e2, "CLIENT_STATE", c, StateDetail(ready, detected))
  IN  /\ MayFeed
      /\ feed_step(framer[cur], NextByte) = "CLOSE"
      /\ info' = [info EXCEPT ![cur] =
                    [i EXCEPT !.last_message = now,
                              !.errors = 0,
                              !.last_shot = IF m.kind = "SHOT" THEN m.shot ELSE i.last_shot,
                              !.device = IF i.device = NoDevice THEN m.device ELSE i.device,
                              !.ready = ready,
                              !.detected = detected]]
      /\ writes' = queue_write(writes, c, code, Unknown)
      /\ idle_reported' = [idle_reported EXCEPT ![cur] = FALSE]
      /\ events' = emit(e3, m.kind, c, IF Repeated(i, m) THEN "repeated" ELSE "none")
      /\ framer' = [framer EXCEPT ![cur] = feed_state(framer[cur], NextByte)]
      /\ rx' = [rx EXCEPT ![cur] = Drop(rx[cur], scan[cur] + 1)]
      /\ scan' = [scan EXCEPT ![cur] = 0]
      /\ fresh' = FALSE
      /\ UNCHANGED <<used, next_write, now, hostVars, pc, cur, data, took, item, polled_at>>

(* frame_pending ran out of bytes: between objects the whitespace seen is  *)
(* dropped; on_bytes then refills, or returns.                             *)
FrameDone ==
  /\ pc = "frame"
  /\ scan[cur] = Len(rx[cur])
  /\ rx' = [rx EXCEPT ![cur] = ObjectRx]
  /\ scan' = [scan EXCEPT ![cur] = ObjectScan]
  /\ IF data # <<>> /\ took
     THEN pc' = "fill" /\ UNCHANGED <<cur, data, took, item, fresh>>
     ELSE Return
  /\ UNCHANGED <<connVars, framer, writes, events, now, hostVars, polled_at>>
-----------------------------------------------------------------------------
(* HOST -> CLIENTS.  An announcement visits every slot in order. *)

Announce(code, body) ==
  /\ pc' = "announce"
  /\ cur' = 1
  /\ item' = [code |-> code, body |-> body]
  /\ UNCHANGED <<data, took, fresh>>

SetPlayer(p, t) ==
  /\ Idle
  /\ now' = t
  /\ player' = p
  /\ player_set' = TRUE
  /\ IF (~player_set \/ player # p) /\ player_has_anything(p)
     THEN Announce(201, p)
     ELSE UNCHANGED callVars
  /\ UNCHANGED <<connVars, rxVars, writes, events, session, closed, polled_at>>

SetSessionState(state, t) ==
  /\ Idle
  /\ now' = t
  /\ session' = state
  /\ IF state # session /\ state # "NONE"
     THEN Announce(IF state = "ACTIVE" THEN 202 ELSE 203, Unknown)
     ELSE UNCHANGED callVars
  /\ UNCHANGED <<connVars, rxVars, writes, events, player, player_set, closed, polled_at>>

(* What gsp_server_send_player_info may send: NULL stands for the player   *)
(* that is set.  Bound: a host that has no players does not call it.       *)
PlayerArgs == IF PlayerInputs = {} THEN {} ELSE PlayerInputs \cup {player}

(* It sends to GSP_CONN_ALL, or to one connection: one that is not open is *)
(* refused, but the clock has been set by then.                            *)
SendPlayerInfoAll(p, t) ==
  /\ Idle
  /\ now' = t
  /\ Announce(201, p)
  /\ UNCHANGED <<connVars, rxVars, writes, events, hostVars, polled_at>>

SendPlayerInfo(c, p, t) ==
  /\ Idle
  /\ now' = t
  /\ IF IsOpen(c)
     THEN /\ writes' = queue_write(writes, c, 201, p)
          /\ events' = send_event(events, writes, c, 201)
     ELSE UNCHANGED <<writes, events>>
  /\ UNCHANGED <<connVars, rxVars, hostVars, callVars, polled_at>>

(* A loop over the connection table goes on, or ends after the last slot. *)
NextSlot ==
  IF cur = MaxConnections THEN Return ELSE cur' = cur + 1 /\ UNCHANGED <<pc, data, took, item, fresh>>

AnnounceToSlot ==
  /\ pc = "announce"
  /\ IF used[cur]
     THEN /\ writes' = queue_write(writes, info[cur].conn, item.code, item.body)
          /\ events' = send_event(events, writes, info[cur].conn, item.code)
     ELSE UNCHANGED <<writes, events>>
  /\ NextSlot
  /\ UNCHANGED <<connVars, rxVars, now, hostVars, polled_at>>
-----------------------------------------------------------------------------
(* CLOCK. *)

idle_deadline(s) ==
  IF IdleAlarm = 0 \/ idle_reported[s] THEN TimeNever
  ELSE IdleAlarm + (IF info[s].last_message # TimeUnknown
                    THEN info[s].last_message ELSE info[s].opened)

HasWrite(s) == \E k \in 1..Len(writes) : writes[k].conn = info[s].conn

(* Mutant: writes held back are forgotten. *)
next_due_us_idle_only ==
  LET open  == IF closed THEN {} ELSE {s \in Slots : used[s]}
      cands == {TimeNever} \cup {idle_deadline(s) : s \in open}
  IN  CHOOSE d \in cands : \A x \in cands : d <= x

(* gsp_server_next_due_us: the earliest of the idle deadlines and of the   *)
(* times at which a write now held back is released.                       *)
next_due_us ==
  LET open  == IF closed THEN {} ELSE {s \in Slots : used[s]}
      held  == {s \in open : WriteSpacing > 0 /\ next_write[s] > now /\ HasWrite(s)}
      cands == {TimeNever} \cup {idle_deadline(s) : s \in open}
                           \cup {next_write[s] : s \in held}
  IN  CHOOSE d \in cands : \A x \in cands : d <= x

Tick(t) ==
  /\ Idle
  /\ now' = t
  /\ pc' = "tick"
  /\ cur' = 1
  /\ UNCHANGED <<connVars, rxVars, writes, events, hostVars, data, took, item, fresh, polled_at>>

(* Mutant: a freed slot is looked at as well. *)
TickSlotUnused ==
  /\ pc = "tick"
  /\ IF idle_deadline(cur) <= now
     THEN /\ idle_reported' = [idle_reported EXCEPT ![cur] = TRUE]
          /\ events' = emit(events, "CLIENT_IDLE", info[cur].conn, "none")
     ELSE UNCHANGED <<idle_reported, events>>
  /\ NextSlot
  /\ UNCHANGED <<used, info, next_write, rxVars, writes, now, hostVars, polled_at>>

TickSlot ==
  /\ pc = "tick"
  /\ IF used[cur] /\ idle_deadline(cur) <= now
     THEN /\ idle_reported' = [idle_reported EXCEPT ![cur] = TRUE]
          /\ events' = emit(events, "CLIENT_IDLE", info[cur].conn, "none")
     ELSE UNCHANGED <<idle_reported, events>>
  /\ NextSlot
  /\ UNCHANGED <<used, info, next_write, rxVars, writes, now, hostVars, polled_at>>
-----------------------------------------------------------------------------
(* OUT. *)

(* Mutant: released one time unit early. *)
HeldLess(w) == IsOpen(w.conn) /\ now + 1 < next_write[find_conn(w.conn)]

(* poll_writes holds back what is addressed to a connection whose spacing  *)
(* has not elapsed.                                                        *)
Held(w) == IsOpen(w.conn) /\ now < next_write[find_conn(w.conn)]

(* gsp_server_poll_writes with max = 1: the first entry not held back.  A  *)
(* larger max repeats it: the entries skipped stay held back, since        *)
(* neither now nor their connection's next_write moves in between.         *)
PollWrite ==
  /\ pc = "host"
  /\ \E i \in 1..Len(writes) :
       LET s == find_conn(writes[i].conn)
       IN  /\ ~Held(writes[i]) /\ \A j \in 1..(i - 1) : Held(writes[j])
           /\ writes' = RemoveEntry(writes, i)
           /\ IF IsOpen(writes[i].conn) /\ WriteSpacing > 0
              THEN /\ polled_at' = [polled_at EXCEPT ![s] = now]
                   /\ next_write' = [next_write EXCEPT ![s] = now + WriteSpacing]
              ELSE UNCHANGED <<polled_at, next_write>>
  /\ UNCHANGED <<used, info, idle_reported, rxVars, events, now, hostVars, callVars>>

PollEvent ==
  /\ pc = "host"
  /\ events' = poll_event(events)
  /\ UNCHANGED <<connVars, rxVars, writes, now, hostVars, callVars, polled_at>>
-----------------------------------------------------------------------------
(* gsp_server_close: every open connection is reported closed, its writes  *)
(* dropped, and the server is sealed.                                      *)
Close ==
  /\ Idle
  /\ pc' = "closing"
  /\ cur' = 1
  /\ UNCHANGED <<connVars, rxVars, writes, events, now, hostVars, data, took, item, fresh,
                 polled_at>>

CloseSlot ==
  /\ pc = "closing"
  /\ IF used[cur]
     THEN /\ events' = emit(events, "CONNECTION_CLOSED", info[cur].conn, "SERVER_CLOSED")
          /\ writes' = drop_writes_for(writes, info[cur].conn)
          /\ used' = [used EXCEPT ![cur] = FALSE]
     ELSE UNCHANGED <<events, writes, used>>
  /\ closed' = (cur = MaxConnections)
  /\ NextSlot
  /\ UNCHANGED <<info, idle_reported, next_write, rxVars, now, player, player_set, session,
                 polled_at>>
-----------------------------------------------------------------------------
(* A call the host starts, at any time its clock has reached. *)
HostCall ==
  \E t \in now..MaxNow :
    \/ \E c \in ConnIds : \/ OnConnectionOpened(c, t)
                          \/ OnConnectionClosed(c, t)
                          \/ \E d \in Reads : OnBytes(c, d, t)
                          \/ \E p \in PlayerArgs : SendPlayerInfo(c, p, t)
    \/ \E p \in PlayerInputs : SetPlayer(p, t)
    \/ \E p \in PlayerArgs : SendPlayerInfoAll(p, t)
    \/ \E state \in SessionInputs : SetSessionState(state, t)
    \/ Tick(t)

Poll == PollWrite \/ PollEvent

(* The next step of the call that is running. *)
CallStep ==
  \/ FillRx \/ SkipWhitespace \/ RefuseAndRetain \/ RefuseAndLose
  \/ Garbage \/ FeedByte \/ TooLarge \/ BadJson \/ (\E m \in Messages : DeliverMessage(m))
  \/ FrameDone
  \/ AnnounceToSlot \/ TickSlot \/ CloseSlot

Next == HostCall \/ Poll \/ Close \/ CallStep

Spec == Init /\ [][Next]_vars
-----------------------------------------------------------------------------
(* PROPERTIES *)

Info == [conn : ConnIds \cup {0}, opened : Times, last_message : Times \cup {TimeUnknown},
         last_shot : Shots, device : Devices, ready : {"on", "off"},
         detected : {"on", "off"}, errors : 0..ErrorCap]

Body == Players

WriteRequest == [conn : ConnIds, code : Codes, body : Body]

(* Every variable holds what the struct declares, and the event ring is    *)
(* never over the size create() allocated for it.                          *)
TypeOK ==
  /\ used \in [Slots -> BOOLEAN]
  /\ info \in [Slots -> Info]
  /\ idle_reported \in [Slots -> BOOLEAN]
  /\ framer \in [Slots -> FramerState]
  /\ rx \in [Slots -> Seq(Byte)]
  /\ scan \in [Slots -> Nat]
  /\ next_write \in [Slots -> 0..(MaxNow + WriteSpacing)]
  /\ polled_at \in [Slots -> Times \cup {TimeUnknown}]
  /\ writes \in Seq(WriteRequest)
  /\ QueueOK(events)
  /\ now \in Times
  /\ player \in Players /\ player_set \in BOOLEAN /\ session \in Sessions
  /\ closed \in BOOLEAN
  /\ pc \in {"host", "fill", "frame", "announce", "tick", "closing"}
  /\ cur \in Slots /\ data \in Seq(Byte) /\ took \in BOOLEAN /\ fresh \in BOOLEAN
  /\ item \in [code : {201, 202, 203}, body : Body]

(* The write ring and the receive buffers never exceed what create()       *)
(* allocated for them, whatever the reads, the announcements and the       *)
(* host's draining do (TypeOK has the event ring).                         *)
WithinAllocation ==
  /\ Len(writes) <= WriteRing
  /\ \A s \in Slots : scan[s] <= Len(rx[s]) /\ Len(rx[s]) <= RxCapacity

(* Every queued write names an open connection, and no id is open twice:   *)
(* drop_writes_for and find_conn leave the host nothing it cannot write.   *)
NoOrphanWrites ==
  /\ \A k \in 1..Len(writes) : IsOpen(writes[k].conn)
  /\ \A r, s \in Slots : used[r] /\ used[s] /\ info[r].conn = info[s].conn => r = s

(* After gsp_server_close nothing is open and nothing is left to write, so *)
(* a host that stops draining writes loses none.                           *)
SealedWhenClosed == closed => writes = <<>> /\ \A s \in Slots : ~used[s]

(* The write slot frame_pending saw free when an object opened is still    *)
(* free at every later byte of the SAME on_bytes call.                     *)
ReservedSlot ==
  pc = "frame" /\ fresh /\ in_message(framer[cur]) => ~write_ring_full(writes)

(* An object opened and closed inside one on_bytes call gets exactly one   *)
(* reply, for its own connection, queued by the step that delivers it.     *)
FreshMessageAnswered ==
  [][(\E m \in Messages : DeliverMessage(m)) /\ fresh =>
       /\ Len(writes') = Len(writes) + 1
       /\ SubSeq(writes', 1, Len(writes)) = writes
       /\ writes'[Len(writes')].conn = info[cur].conn]_vars

(* The bytes of an unfinished object are scanned to the last one between   *)
(* calls and fit the bound, so the next read always has room to go on.     *)
UnfinishedFits ==
  \A s \in Slots : used[s] /\ in_message(framer[s]) =>
    /\ scan[s] <= MaxMessageBytes
    /\ pc = "host" => scan[s] = Len(rx[s])

(* What a running call still has to do.  A byte of the input weighs more   *)
(* than a byte in rx, so copying is progress; and a pass of frame_pending  *)
(* weighs more than a refill only if it follows one that copied something, *)
(* since only then may another refill come after it.                       *)
WorkLeft ==
  IF pc \in {"fill", "frame"}
  THEN 3 * Len(data) + (Len(rx[cur]) - scan[cur])
         + (IF pc = "fill" THEN 1 ELSE IF took THEN 2 ELSE 0)
  ELSE MaxConnections - cur

(* on_bytes' two nested loops and the loops over the connection table end, *)
(* whatever is in the buffers and however full the rings are: every step   *)
(* of a call returns to the host or leaves less work, never less than none.*)
EveryCallEnds ==
  [][CallStep => /\ WorkLeft \in Nat
                 /\ pc' = "host" \/ WorkLeft' \in 0..(WorkLeft - 1)]_vars

(* The framer kept beside the buffer is the framer the buffered bytes      *)
(* themselves produce, and no complete object hides in the scanned part:   *)
(* no reset, compaction or retained read ever leaves the two out of step.  *)
FramerMatchesBuffer ==
  \A s \in Slots : used[s] =>
    LET seen == SubSeq(rx[s], 1, scan[s])
    IN  /\ frame_scan(seen)[scan[s]] = framer[s]
        /\ gsp_frame_find(seen).status = "PENDING"

(* The writes queued for one connection leave in the order they entered,   *)
(* and none is lost to another connection's close or poll: a step appends  *)
(* to its part of the ring, or takes its first entry and nothing else from *)
(* the ring, or clears it because it closed.                               *)
WritesKeepTheirPlace ==
  [][\A c \in ConnIds :
       LET old == WritesFor(writes, c)
           new == WritesFor(writes', c)
       IN  \/ new = <<>> /\ ~IsOpen(c)'
           \/ old # <<>> /\ new = Tail(old) /\ Len(writes') = Len(writes) - 1
           \/ Len(new) >= Len(old) /\ SubSeq(new, 1, Len(old)) = old]_writes

(* Two writes to one connection are never handed to the host closer than   *)
(* write_spacing_us apart.                                                 *)
SpacingKept ==
  [][\A s \in Slots :
       /\ PollWrite
       /\ used[s]
       /\ WritesFor(writes', info[s].conn) # WritesFor(writes, info[s].conn)
       => polled_at[s] = TimeUnknown \/ now - polled_at[s] >= WriteSpacing]_writes

(* What a host sleeping until next_due_us could miss: before that time no  *)
(* tick would report an idle client and no held write would be released;   *)
(* at that time one of the two happens.                                    *)
HeldAt(w, t) == t < next_write[find_conn(w.conn)]
IdleAt(t)    == \E s \in Slots : used[s] /\ idle_deadline(s) <= t
ReleasedAt(t) ==
  \E k \in 1..Len(writes) : HeldAt(writes[k], now) /\ ~HeldAt(writes[k], t)

DueIsExact ==
  pc = "host" /\ ~closed =>
    LET d == next_due_us
    IN  /\ \A t \in now..(d - 1) : ~IdleAt(t) /\ ~ReleasedAt(t)
        /\ d # TimeNever => IdleAt(d) \/ ReleasedAt(d)

(***************************************************************************)
(* The log a host drains.  The ring drops a prefix only, so what is in it  *)
(* is a contiguous piece of the history; OfConn is one connection's part.  *)
(***************************************************************************)
OfConn(c) == {k \in 1..Len(events.items) : events.items[k].conn = c}

TypeAt(k) == events.items[k].type

MessageTypes == {"SHOT", "HEARTBEAT", "STATUS"}

(* Between two events of type a for one connection there is one in S. *)
Separated(a, S) ==
  \A c \in ConnIds : \A j, k \in OfConn(c) :
    j < k /\ TypeAt(j) = a /\ TypeAt(k) = a =>
      \E i \in OfConn(c) : j < i /\ i < k /\ TypeAt(i) \in S

(* Read for one connection, the log makes sense: OPENED follows CLOSED and *)
(* nothing else does, so nothing is reported of a connection that is not   *)
(* open; CLIENT_IDLE is said once per silence and CLIENT_ACTIVE only after *)
(* it; and another request to close needs a well-formed message, or a new  *)
(* connection, in between.                                                 *)
LogIsCoherent ==
  /\ \A c \in ConnIds : \A j, k \in OfConn(c) :
       j < k /\ (\A i \in OfConn(c) : i <= j \/ k <= i) =>
         (TypeAt(j) = "CONNECTION_CLOSED" <=> TypeAt(k) = "CONNECTION_OPENED")
  /\ Separated("CLIENT_IDLE", {"CLIENT_ACTIVE", "CONNECTION_CLOSED"})
  /\ Separated("CLIENT_ACTIVE", {"CLIENT_IDLE"})
  /\ Separated("CLOSE_REQUESTED", MessageTypes \cup {"CONNECTION_CLOSED"})

(* The last CLIENT_STATE in the log of an open connection says what the    *)
(* flags now are: no change, and no change back, goes unreported, so a     *)
(* host that reads the log never shows a stale state.                      *)
LogTellsState ==
  \A s \in Slots : used[s] /\ pc = "host" =>
    LET marks == {k \in OfConn(info[s].conn) : TypeAt(k) \in {"CLIENT_STATE", "CONNECTION_OPENED"}}
    IN  \A k \in marks : TypeAt(k) = "CLIENT_STATE" /\ (\A i \in marks : i <= k) =>
          events.items[k].detail = StateDetail(info[s].ready, info[s].detected)
-----------------------------------------------------------------------------
(***************************************************************************)
(* What comments and documents say of the code and the code does not keep. *)
(***************************************************************************)

(* gs_server.c:15 "exactly one reply per message, queued before on_bytes   *)
(* returns", and server.h:340 set_player "queues a 201 to every open       *)
(* connection" (set_session_state a 202 or a 203): nothing that is to be   *)
(* sent finds the ring full.                                               *)
EverySendQueued ==
  [][(\E m \in Messages : DeliverMessage(m)) \/ (AnnounceToSlot /\ used[cur]) => writes' # writes]_vars
=============================================================================
