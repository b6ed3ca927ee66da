---------------------------- MODULE ServerProofs ----------------------------
(***************************************************************************)
(* The server's type correctness and safety invariants, for every size of  *)
(* its tables, rings and buffers.                                          *)
(***************************************************************************)
EXTENDS Server, PartProofs

(***************************************************************************)
(* The type invariant made inductive.  A queued write has a real address   *)
(* because every open slot has one and on_bytes works on an open slot; the *)
(* input is cut within its length because rx never outgrows its capacity.  *)
(***************************************************************************)
TableOK ==
  /\ used \in [Slots -> BOOLEAN]
  /\ info \in [Slots -> Info]
  /\ idle_reported \in [Slots -> BOOLEAN]
  /\ next_write \in [Slots -> 0..(MaxNow + WriteSpacing)]
  /\ polled_at \in [Slots -> Times \cup {TimeUnknown}]
  /\ \A s \in Slots : used[s] => info[s].conn \in ConnIds

BufferOK ==
  /\ framer \in [Slots -> FramerState]
  /\ rx \in [Slots -> Seq(Byte)]
  /\ scan \in [Slots -> Nat]
  /\ \A s \in Slots : FramerOK(framer[s])
  /\ \A s \in Slots : scan[s] <= Len(rx[s]) /\ Len(rx[s]) <= RxCapacity

RingsOK == writes \in Seq(WriteRequest) /\ QueueOK(events)

HostOK ==
  /\ now \in Times
  /\ player \in Players /\ player_set \in BOOLEAN /\ session \in Sessions
  /\ closed \in BOOLEAN

CallOK ==
  /\ pc \in {"host", "fill", "frame", "announce", "tick", "closing"}
  /\ cur \in Slots /\ data \in Seq(Byte) /\ took \in BOOLEAN /\ fresh \in BOOLEAN
  /\ item \in [code : {201, 202, 203}, body : Body]
  /\ pc \in {"fill", "frame"} => used[cur]

TypeInv == TableOK /\ BufferOK /\ RingsOK /\ HostOK /\ CallOK

(* It is the run's TypeOK and more. *)
LEMMA TypeInvImplies == TypeInv => TypeOK
BY DEF TypeInv, TableOK, BufferOK, RingsOK, HostOK, CallOK, TypeOK
-----------------------------------------------------------------------------
(* Facts about the helpers. *)

(* A connection that is open has a slot, and find_conn finds one. *)
LEMMA FindConn ==
  ASSUME NEW c, IsOpen(c)
  PROVE  find_conn(c) \in Slots /\ used[find_conn(c)] /\ info[find_conn(c)].conn = c
BY Zenon DEF IsOpen, find_conn

(* queue_write appends a request or leaves the queue alone. *)
LEMMA QueueWriteOK ==
  ASSUME NEW w \in Seq(WriteRequest), NEW c \in ConnIds, NEW code \in Codes, NEW body \in Body
  PROVE  queue_write(w, c, code, body) \in Seq(WriteRequest)
<1>1. [conn |-> c, code |-> code, body |-> body] \in WriteRequest
  BY DEF WriteRequest
<1> QED BY <1>1 DEF queue_write

(* An event about a connection, of any of the types the server emits. *)
LEMMA EmitConn ==
  ASSUME NEW q, QueueOK(q), NEW c \in ConnIds, NEW type \in EventTypes, NEW detail \in Details
  PROVE  QueueOK(emit(q, type, c, detail))
BY EmitOK, ServerAssumption

LEMMA SendEventOK ==
  ASSUME NEW q, QueueOK(q), NEW w, NEW c \in ConnIds, NEW code \in Codes
  PROVE  QueueOK(send_event(q, w, c, code))
<1>1. SentType(code) \in EventTypes /\ "none" \in Details
  BY DEF SentType, EventTypes, Details
<1> QED BY <1>1, EmitConn DEF send_event

LEMMA NewInfoOK ==
  ASSUME NEW c \in ConnIds \cup {0}, NEW t \in Times
  PROVE  NewInfo(c, t) \in Info /\ NewInfo(c, t).conn = c
BY ServerAssumption DEF NewInfo, Info, Shots, Devices, Times

LEMMA SlotsOK == 1 \in Slots /\ \A s \in Slots : s \in Nat
BY ServerAssumption DEF Slots

(* The byte under the cursor is a byte. *)
LEMMA NextByteOK ==
  ASSUME BufferOK, CallOK, Framing
  PROVE  NextByte \in Byte
BY DEF BufferOK, CallOK, Framing, NextByte
-----------------------------------------------------------------------------
LEMMA InitTypeInv == Init => TypeInv
<1> SUFFICES ASSUME Init PROVE TypeInv
  OBVIOUS
<1>1. TableOK
  BY NewInfoOK, ServerAssumption DEF Init, TableOK, Times
<1>2. BufferOK
  BY ResetOK, ServerAssumption DEF Init, BufferOK, RxCapacity
<1>3. RingsOK
  BY EmptyOK DEF Init, RingsOK
<1>4. HostOK
  <2>1. now \in Times
    BY ServerAssumption DEF Init, Times
  <2>2. player \in Players /\ session \in Sessions
    BY DEF Init, Players, Sessions
  <2>3. player_set \in BOOLEAN /\ closed \in BOOLEAN
    BY Zenon DEF Init
  <2> QED BY <2>1, <2>2, <2>3 DEF HostOK
<1>5. CallOK
  <2>1. took \in BOOLEAN /\ fresh \in BOOLEAN
    BY Zenon DEF Init
  <2>2. item \in [code : {201, 202, 203}, body : Body]
    BY DEF Init, NoItem, Body, Players
  <2>3. cur \in Slots /\ data \in Seq(Byte) /\ pc = "host"
    BY SlotsOK DEF Init
  <2> QED BY <2>1, <2>2, <2>3 DEF CallOK
<1> QED BY <1>1, <1>2, <1>3, <1>4, <1>5 DEF TypeInv
-----------------------------------------------------------------------------
(* What a step leaves alone stays in order. *)
LEMMA TableSame == TableOK /\ UNCHANGED <<connVars, polled_at>> => TableOK'
BY DEF TableOK, connVars

LEMMA BufferSame == BufferOK /\ UNCHANGED rxVars => BufferOK'
BY DEF BufferOK, rxVars

LEMMA RingsSame == RingsOK /\ UNCHANGED <<writes, events>> => RingsOK'
BY DEF RingsOK

(* The host's clock moves to a time it may show. *)
LEMMA HostSame ==
  ASSUME HostOK, now' \in Times, UNCHANGED hostVars
  PROVE  HostOK'
BY DEF HostOK, hostVars

LEMMA IdleCallOK ==
  ASSUME CallOK, Idle, UNCHANGED callVars
  PROVE  CallOK'
BY DEF CallOK, callVars, Idle

(* A call that returns leaves no local state behind. *)
LEMMA ReturnOK ==
  ASSUME Return PROVE CallOK'
<1>1. took' \in BOOLEAN /\ fresh' \in BOOLEAN
  BY Zenon DEF Return
<1>2. item' \in [code : {201, 202, 203}, body : Body]
  BY DEF Return, NoItem, Body, Players
<1>3. cur' \in Slots /\ data' \in Seq(Byte) /\ pc' = "host"
  BY SlotsOK DEF Return
<1> QED BY <1>1, <1>2, <1>3 DEF CallOK

(* The loops over the connection table stay inside it. *)
LEMMA NextSlotOK ==
  ASSUME CallOK, NextSlot, pc \notin {"fill", "frame"}
  PROVE  CallOK'
<1>1. CASE cur = MaxConnections
  BY <1>1, ReturnOK DEF NextSlot
<1>2. CASE cur # MaxConnections
  <2>1. cur' \in Slots
    BY <1>2, ServerAssumption DEF NextSlot, CallOK, Slots
  <2>2. UNCHANGED <<pc, data, took, item, fresh>>
    BY <1>2 DEF NextSlot
  <2> QED BY <2>1, <2>2 DEF CallOK
<1> QED BY <1>1, <1>2

(* An announcement starts at the first slot with a code of the host's. *)
LEMMA AnnounceOK ==
  ASSUME CallOK, NEW code \in {201, 202, 203}, NEW body \in Body, Announce(code, body)
  PROVE  CallOK'
<1>1. item' \in [code : {201, 202, 203}, body : Body]
  BY DEF Announce
<1>2. pc' = "announce" /\ cur' \in Slots /\ UNCHANGED <<data, took, fresh>>
  BY SlotsOK DEF Announce
<1> QED BY <1>1, <1>2 DEF CallOK
-----------------------------------------------------------------------------
(* One lemma per operation: it keeps TypeInv. *)

LEMMA OpenedType ==
  ASSUME TypeInv, NEW c \in ConnIds, NEW t \in Times, OnConnectionOpened(c, t)
  PROVE  TypeInv'
<1> USE DEF TypeInv
<1> DEFINE tellPlayer == AnnouncePlayer /\ player_set /\ player_has_anything(player)
           tellReady  == AnnounceReady /\ session = "ACTIVE"
           e1 == emit(events, "CONNECTION_OPENED", c, "none")
           w2 == IF tellPlayer THEN queue_write(writes, c, 201, player) ELSE writes
           e2 == IF tellPlayer THEN send_event(e1, writes, c, 201) ELSE e1
<1>1. PICK s \in Slots :
        /\ used' = [used EXCEPT ![s] = TRUE]
        /\ info' = [info EXCEPT ![s] = NewInfo(c, t)]
        /\ idle_reported' = [idle_reported EXCEPT ![s] = FALSE]
        /\ next_write' = [next_write EXCEPT ![s] = t]
        /\ framer' = [framer EXCEPT ![s] = framer_reset]
        /\ rx' = [rx EXCEPT ![s] = <<>>]
        /\ scan' = [scan EXCEPT ![s] = 0]
        /\ polled_at' = [polled_at EXCEPT ![s] = TimeUnknown]
        /\ writes' = IF tellReady THEN queue_write(w2, c, 202, Unknown) ELSE w2
        /\ events' = IF tellReady THEN send_event(e2, w2, c, 202) ELSE e2
        /\ now' = t
  BY DEF OnConnectionOpened
<1>2. Idle /\ UNCHANGED hostVars /\ UNCHANGED callVars
  BY DEF OnConnectionOpened
<1> HIDE DEF tellPlayer, tellReady
<1>3. TableOK'
  <2>1. NewInfo(c, t) \in Info /\ NewInfo(c, t).conn = c
    BY NewInfoOK
  <2>2. t \in 0..(MaxNow + WriteSpacing)
    BY ServerAssumption DEF Times
  <2> QED BY <1>1, <2>1, <2>2 DEF TableOK
<1>4. BufferOK'
  BY <1>1, ResetOK, ServerAssumption DEF BufferOK, RxCapacity
<1>5. RingsOK'
  <2>1. "CONNECTION_OPENED" \in EventTypes /\ "none" \in Details
    BY DEF EventTypes, Details
  <2>2. 201 \in Codes /\ 202 \in Codes /\ Unknown \in Body /\ player \in Body
    BY DEF Codes, Body, Players, HostOK
  <2>3. QueueOK(e1)
    BY <2>1, EmitConn DEF RingsOK
  <2>4. w2 \in Seq(WriteRequest)
    BY <2>2, QueueWriteOK DEF RingsOK
  <2> HIDE DEF e1
  <2>5. QueueOK(e2)
    BY <2>2, <2>3, SendEventOK
  <2> HIDE DEF w2, e2
  <2> QED BY <1>1, <2>2, <2>4, <2>5, QueueWriteOK, SendEventOK DEF RingsOK
<1>6. HostOK'
  BY <1>1, <1>2, HostSame
<1>7. CallOK'
  BY <1>2, IdleCallOK
<1> QED BY <1>3, <1>4, <1>5, <1>6, <1>7

LEMMA ClosedType ==
  ASSUME TypeInv, NEW c \in ConnIds, NEW t \in Times, OnConnectionClosed(c, t)
  PROVE  TypeInv'
<1> USE DEF TypeInv
<1>1. find_conn(c) \in Slots
  BY FindConn DEF OnConnectionClosed
<1>2. TableOK'
  BY <1>1 DEF OnConnectionClosed, TableOK
<1>3. BufferOK'
  BY BufferSame DEF OnConnectionClosed
<1>4. RingsOK'
  <2>1. "CONNECTION_CLOSED" \in EventTypes /\ "none" \in Details
    BY DEF EventTypes, Details
  <2>2. QueueOK(events')
    BY <2>1, EmitConn DEF OnConnectionClosed, RingsOK
  <2>3. writes' \in Seq(WriteRequest)
    BY DropWritesFor DEF OnConnectionClosed, RingsOK
  <2> QED BY <2>2, <2>3 DEF RingsOK
<1>5. HostOK'
  BY HostSame DEF OnConnectionClosed
<1>6. CallOK'
  BY IdleCallOK DEF OnConnectionClosed
<1> QED BY <1>2, <1>3, <1>4, <1>5, <1>6

LEMMA OnBytesType ==
  ASSUME TypeInv, NEW c \in ConnIds, NEW d \in Seq(Byte), NEW t \in Times, OnBytes(c, d, t)
  PROVE  TypeInv'
<1> USE DEF TypeInv
<1>1. find_conn(c) \in Slots /\ used[find_conn(c)]
  BY FindConn DEF OnBytes
<1>2. TableOK' /\ BufferOK' /\ RingsOK'
  BY TableSame, BufferSame, RingsSame DEF OnBytes
<1>3. HostOK'
  BY HostSame DEF OnBytes
<1>4. CallOK'
  <2>1. took' \in BOOLEAN /\ fresh' \in BOOLEAN
    BY Zenon DEF OnBytes
  <2>2. cur' \in Slots /\ data' \in Seq(Byte) /\ pc' = "fill" /\ used'[cur']
    BY <1>1 DEF OnBytes, connVars
  <2> QED BY <2>1, <2>2 DEF OnBytes, CallOK
<1> QED BY <1>2, <1>3, <1>4

(* What is copied and what is left are the input, cut in two. *)
LEMMA CutOK ==
  ASSUME NEW seq \in Seq(Byte), NEW n \in 0..Len(seq)
  PROVE  /\ SubSeq(seq, 1, n) \in Seq(Byte) /\ Len(SubSeq(seq, 1, n)) = n
         /\ Drop(seq, n) \in Seq(Byte) /\ Len(Drop(seq, n)) = Len(seq) - n
BY DEF Drop

LEMMA FillType == TypeInv /\ FillRx => TypeInv'
<1> SUFFICES ASSUME TypeInv, FillRx PROVE TypeInv'
  OBVIOUS
<1> USE DEF TypeInv
<1> DEFINE take == Least(RxCapacity - Len(rx[cur]), Len(data))
<1>1. TableOK' /\ RingsOK'
  BY TableSame, RingsSame DEF FillRx
<1>2. HostOK'
  BY HostSame DEF FillRx, HostOK
<1>3. take \in 0..Len(data) /\ take <= RxCapacity - Len(rx[cur]) /\ rx[cur] \in Seq(Byte)
  BY ServerAssumption DEF Least, RxCapacity, BufferOK, CallOK
<1> HIDE DEF take
<1>4. BufferOK'
  <2> DEFINE in == SubSeq(data, 1, take)
             new == rx[cur] \o in
  <2>1. in \in Seq(Byte) /\ Len(in) = take
    BY <1>3, CutOK DEF CallOK
  <2>2. rx' = [rx EXCEPT ![cur] = new] /\ UNCHANGED <<framer, scan>>
    BY DEF FillRx, take
  <2> HIDE DEF in
  <2>3. new \in Seq(Byte) /\ Len(new) = Len(rx[cur]) + take
    BY <1>3, <2>1, ConcatProperties
  <2> HIDE DEF new
  <2>4. Len(new) <= RxCapacity /\ scan[cur] <= Len(new)
    BY <1>3, <2>3, ServerAssumption DEF BufferOK, CallOK, RxCapacity
  <2> QED BY <2>2, <2>3, <2>4 DEF BufferOK, CallOK
<1>5. CallOK'
  <2>1. took' \in BOOLEAN
    <3>1. took' = (take > 0)
      BY DEF FillRx, take
    <3>2. CASE take > 0
      BY <3>1, <3>2
    <3>3. CASE ~(take > 0)
      BY <3>1, <3>3
    <3> QED BY <3>2, <3>3
  <2>2. data' \in Seq(Byte) /\ pc' = "frame" /\ pc = "fill"
        /\ UNCHANGED <<cur, item, fresh, used>>
    BY <1>3, CutOK DEF FillRx, connVars, take, CallOK
  <2> QED BY <2>1, <2>2 DEF CallOK
<1> QED BY <1>1, <1>2, <1>4, <1>5

LEMMA SkipType == TypeInv /\ SkipWhitespace => TypeInv'
<1> SUFFICES ASSUME TypeInv, SkipWhitespace PROVE TypeInv'
  OBVIOUS
<1> USE DEF TypeInv
<1>1. TableOK' /\ RingsOK'
  BY TableSame, RingsSame DEF SkipWhitespace
<1>2. HostOK'
  BY HostSame DEF SkipWhitespace, HostOK
<1>3. BufferOK'
  BY DEF SkipWhitespace, Framing, BufferOK, CallOK
<1>4. CallOK'
  BY DEF SkipWhitespace, CallOK, callVars, connVars
<1> QED BY <1>1, <1>2, <1>3, <1>4

(* The object under assembly, brought to the front of rx, is still bytes,  *)
(* with as many of them unseen as before.                                  *)
LEMMA ObjectOK ==
  ASSUME BufferOK, CallOK
  PROVE  /\ ObjectRx \in Seq(Byte)
         /\ ObjectScan \in Nat
         /\ Len(ObjectRx) - ObjectScan = Len(rx[cur]) - scan[cur]
         /\ Len(ObjectRx) <= Len(rx[cur])
<1>1. rx[cur] \in Seq(Byte) /\ scan[cur] \in 0..Len(rx[cur])
  BY DEF BufferOK, CallOK
<1>2. CASE in_message(framer[cur])
  BY <1>1, <1>2 DEF ObjectRx, ObjectScan
<1>3. CASE ~in_message(framer[cur])
  <2>1. ObjectRx = Drop(rx[cur], scan[cur]) /\ ObjectScan = 0
    BY <1>3 DEF ObjectRx, ObjectScan
  <2>2. ObjectRx \in Seq(Byte) /\ Len(ObjectRx) = Len(rx[cur]) - scan[cur]
    BY <1>1, <2>1, CutOK
  <2> QED BY <1>1, <2>1, <2>2
<1> QED BY <1>2, <1>3

LEMMA WarnType ==
  ASSUME TypeInv, pc = "frame",
         events' = emit(events, "WARNING", info[cur].conn, "WRITE_RING_FULL"),
         UNCHANGED writes
  PROVE  RingsOK'
<1>1. "WARNING" \in EventTypes /\ "WRITE_RING_FULL" \in Details
  BY DEF EventTypes, Details
<1>2. info[cur].conn \in ConnIds
  BY DEF TypeInv, TableOK, CallOK
<1> QED BY <1>1, <1>2, EmitConn DEF TypeInv, RingsOK

LEMMA RetainType == TypeInv /\ RefuseAndRetain => TypeInv'
<1> SUFFICES ASSUME TypeInv, RefuseAndRetain PROVE TypeInv'
  OBVIOUS
<1> USE DEF TypeInv
<1>1. TableOK'
  BY TableSame DEF RefuseAndRetain
<1>2. RingsOK'
  BY WarnType DEF RefuseAndRetain, Framing
<1>3. HostOK'
  BY HostSame DEF RefuseAndRetain, HostOK
<1>4. BufferOK'
  <2> DEFINE new == ObjectRx \o data
  <2>1. ObjectRx \in Seq(Byte) /\ data \in Seq(Byte)
    BY ObjectOK DEF CallOK
  <2>2. new \in Seq(Byte) /\ Len(new) = Len(ObjectRx) + Len(data)
    BY <2>1, ConcatProperties
  <2>3. Len(data) <= RxCapacity - Len(ObjectRx) /\ RxCapacity \in Nat
    BY ServerAssumption DEF RefuseAndRetain, RestFits, RxCapacity
  <2>4. Len(new) <= RxCapacity
    BY <2>1, <2>2, <2>3
  <2>5. /\ rx' = [rx EXCEPT ![cur] = new]
        /\ scan' = [scan EXCEPT ![cur] = 0]
        /\ UNCHANGED framer
    BY DEF RefuseAndRetain
  <2> HIDE DEF new
  <2> QED BY <2>2, <2>4, <2>5 DEF BufferOK, CallOK
<1>5. CallOK'
  BY ReturnOK DEF RefuseAndRetain
<1> QED BY <1>1, <1>2, <1>3, <1>4, <1>5

LEMMA ResetRxOK ==
  ASSUME BufferOK, NEW s \in Slots, reset_rx(s)
  PROVE  BufferOK'
BY ResetOK, ServerAssumption DEF BufferOK, reset_rx, RxCapacity

LEMMA LoseType == TypeInv /\ RefuseAndLose => TypeInv'
<1> SUFFICES ASSUME TypeInv, RefuseAndLose PROVE TypeInv'
  OBVIOUS
<1> USE DEF TypeInv
<1>1. TableOK'
  BY TableSame DEF RefuseAndLose
<1>2. RingsOK'
  BY WarnType DEF RefuseAndLose, Framing
<1>3. HostOK'
  BY HostSame DEF RefuseAndLose, HostOK
<1>4. BufferOK'
  BY ResetRxOK DEF RefuseAndLose, CallOK
<1>5. CallOK'
  BY ReturnOK DEF RefuseAndLose
<1> QED BY <1>1, <1>2, <1>3, <1>4, <1>5

(* A protocol error: Garbage, TooLarge and BadJson. *)
LEMMA DiscardType ==
  ASSUME TypeInv, pc = "frame", NEW reason \in Details, Discard(reason)
  PROVE  TypeInv'
<1> USE DEF TypeInv
<1> DEFINE c      == info[cur].conn
           errors == Least(info[cur].errors + 1, ErrorCap)
           e      == emit(events, "PROTOCOL_ERROR", c, reason)
<1>1. cur \in Slots /\ c \in ConnIds /\ info[cur] \in Info
  BY DEF TableOK, CallOK
<1>2. TableOK'
  <2>1. errors \in 0..ErrorCap
    BY <1>1, ServerAssumption DEF Info, Least
  <2>2. info' = [info EXCEPT ![cur].errors = errors]
    BY DEF Discard, protocol_error
  <2> HIDE DEF errors
  <2>3. info' \in [Slots -> Info] /\ \A s \in Slots : info'[s].conn = info[s].conn
    BY <1>1, <2>1, <2>2 DEF TableOK, Info
  <2> QED BY <2>3 DEF TableOK, Discard
<1>3. RingsOK'
  <2>1. {"PROTOCOL_ERROR", "CLOSE_REQUESTED"} \subseteq EventTypes
    BY DEF EventTypes
  <2>2. QueueOK(e)
    BY <1>1, <2>1, EmitConn DEF RingsOK
  <2>3. QueueOK(emit(e, "CLOSE_REQUESTED", c, reason))
    BY <1>1, <2>1, <2>2, EmitConn
  <2>4. 501 \in Codes /\ Unknown \in Body
    BY DEF Codes, Body, Players
  <2>5. writes' \in Seq(WriteRequest)
    BY <1>1, <2>4, QueueWriteOK DEF Discard, protocol_error, RingsOK
  <2>6. QueueOK(events')
    BY <2>2, <2>3, Zenon DEF Discard, protocol_error
  <2> QED BY <2>5, <2>6 DEF RingsOK
<1>4. BufferOK'
  BY <1>1, ResetRxOK DEF Discard
<1>5. HostOK'
  BY HostSame DEF Discard, HostOK
<1>6. CallOK'
  BY ReturnOK DEF Discard
<1> QED BY <1>2, <1>3, <1>4, <1>5, <1>6

LEMMA FeedType == TypeInv /\ FeedByte => TypeInv'
<1> SUFFICES ASSUME TypeInv, FeedByte PROVE TypeInv'
  OBVIOUS
<1> USE DEF TypeInv
<1>1. TableOK' /\ RingsOK'
  BY TableSame, RingsSame DEF FeedByte
<1>2. HostOK'
  BY HostSame DEF FeedByte, HostOK
<1>3. BufferOK'
  <2> DEFINE f == feed_state(framer[cur], NextByte)
  <2>1. NextByte \in Byte /\ cur \in Slots /\ scan[cur] < Len(rx[cur])
    BY NextByteOK DEF FeedByte, MayFeed, CallOK, Framing
  <2>2. FramerOK(f) /\ f \in FramerState
    BY <2>1, FeedOK DEF BufferOK, FramerOK
  <2>3. /\ ObjectRx \in Seq(Byte) /\ ObjectScan + 1 \in Nat
        /\ ObjectScan + 1 <= Len(ObjectRx) /\ Len(ObjectRx) <= RxCapacity
    <3>1. /\ ObjectRx \in Seq(Byte) /\ ObjectScan \in Nat
          /\ Len(ObjectRx) - ObjectScan = Len(rx[cur]) - scan[cur]
          /\ Len(ObjectRx) <= Len(rx[cur])
      BY ObjectOK
    <3>2. Len(rx[cur]) <= RxCapacity /\ Len(rx[cur]) \in Nat /\ scan[cur] \in Nat
      BY <2>1 DEF BufferOK
    <3>3. RxCapacity \in Nat /\ Len(ObjectRx) \in Nat
      BY <3>1, ServerAssumption DEF RxCapacity
    <3> QED BY <2>1, <3>1, <3>2, <3>3
  <2>4. /\ framer' = [framer EXCEPT ![cur] = f]
        /\ rx' = [rx EXCEPT ![cur] = ObjectRx]
        /\ scan' = [scan EXCEPT ![cur] = ObjectScan + 1]
    BY DEF FeedByte
  <2> HIDE DEF f
  <2> QED BY <2>1, <2>2, <2>3, <2>4 DEF BufferOK
<1>4. CallOK'
  <2>1. fresh' \in BOOLEAN
    BY Zenon DEF FeedByte
  <2> QED BY <2>1 DEF FeedByte, CallOK, connVars
<1> QED BY <1>1, <1>2, <1>3, <1>4

LEMMA ErrorType == TypeInv /\ (Garbage \/ TooLarge \/ BadJson) => TypeInv'
<1> SUFFICES ASSUME TypeInv, Garbage \/ TooLarge \/ BadJson PROVE TypeInv'
  OBVIOUS
<1>1. pc = "frame"
  BY DEF Garbage, TooLarge, BadJson, MayFeed, Framing
<1>2. {"LEADING_GARBAGE", "TOO_LARGE", "BAD_JSON"} \subseteq Details
  BY DEF Details
<1> QED BY <1>1, <1>2, DiscardType DEF Garbage, TooLarge, BadJson

(* The fields of a decoded message are of the kinds the server stores. *)
LEMMA MessageOK ==
  ASSUME NEW m \in Messages, NEW i \in Info
  PROVE  /\ m.kind \in EventTypes
         /\ m.device \in Devices /\ m.shot \in Shots
         /\ Flag(m.ready, i.ready) \in {"on", "off"}
         /\ Flag(m.detected, i.detected) \in {"on", "off"}
<1>1. m.kind \in EventTypes
  BY ServerAssumption DEF Kinds, EventTypes
<1>2. m.device \in Devices /\ m.shot \in Shots
  BY DEF Devices, Shots
<1>3. m.ready \in OptFlag /\ m.detected \in OptFlag
  BY ServerAssumption
<1> QED BY <1>1, <1>2, <1>3 DEF Flag, OptFlag, Info

LEMMA DeliverType ==
  ASSUME TypeInv, NEW m \in Messages, DeliverMessage(m)
  PROVE  TypeInv'
<1> USE DEF TypeInv
<1> DEFINE i  == info[cur]
           c  == i.conn
           ready    == Flag(m.ready, i.ready)
           detected == Flag(m.detected, i.detected)
           code == IF RejectIncomplete /\ m.incomplete THEN 501 ELSE 200
           e1 == IF idle_reported[cur] THEN emit(events, "CLIENT_ACTIVE", c, "none") ELSE events
           e2 == IF m.device \in {NoDevice, i.device} THEN e1
                 ELSE IF i.device = NoDevice THEN emit(e1, "CLIENT_IDENTIFIED", c, "none")
                 ELSE emit(e1, "WARNING", c, "DEVICE_ID_CHANGED")
           e3 == IF ready = i.ready /\ detected = i.detected THEN e2
                 ELSE emit(e2, "CLIENT_STATE", c, StateDetail(ready, detected))
           shot   == IF m.kind = "SHOT" THEN m.shot ELSE i.last_shot
           device == IF i.device = NoDevice THEN m.device ELSE i.device
<1>1. cur \in Slots /\ c \in ConnIds /\ i \in Info /\ now \in Times /\ used[cur]
  BY DEF DeliverMessage, MayFeed, Framing, TableOK, CallOK, HostOK
<1>2. /\ m.kind \in EventTypes /\ m.device \in Devices /\ m.shot \in Shots
      /\ ready \in {"on", "off"} /\ detected \in {"on", "off"}
  BY <1>1, MessageOK
<1>3. TableOK'
  <2>1. shot \in Shots /\ device \in Devices /\ 0 \in 0..ErrorCap
    BY <1>1, <1>2, ServerAssumption DEF Info
  <2>2. info' = [info EXCEPT ![cur] =
                   [i EXCEPT !.last_message = now, !.errors = 0, !.last_shot = shot,
                             !.device = device, !.ready = ready, !.detected = detected]]
    BY DEF DeliverMessage
  <2> HIDE DEF shot, device, ready, detected
  <2>3. info' \in [Slots -> Info] /\ \A s \in Slots : info'[s].conn = info[s].conn
    BY <1>1, <1>2, <2>1, <2>2 DEF TableOK, Info
  <2>4. idle_reported' \in [Slots -> BOOLEAN]
    BY <1>1 DEF DeliverMessage, TableOK
  <2> QED BY <2>3, <2>4 DEF TableOK, DeliverMessage
<1>4. RingsOK'
  <2>1. /\ {"CLIENT_ACTIVE", "CLIENT_IDENTIFIED", "WARNING", "CLIENT_STATE"} \subseteq EventTypes
        /\ {"none", "repeated", "DEVICE_ID_CHANGED"} \subseteq Details
    BY DEF EventTypes, Details
  <2>2. StateDetail(ready, detected) \in Details
    BY <1>2 DEF StateDetail, Details
  <2> HIDE DEF ready, detected
  <2>3. QueueOK(e1)
    BY <1>1, <2>1, EmitConn DEF RingsOK
  <2> HIDE DEF e1
  <2>4. QueueOK(e2)
    BY <1>1, <2>1, <2>3, EmitConn
  <2> HIDE DEF e2
  <2>5. QueueOK(e3)
    BY <1>1, <2>1, <2>2, <2>4, EmitConn
  <2>6. QueueOK(events')
    <3>1. events' = emit(e3, m.kind, c, IF Repeated(i, m) THEN "repeated" ELSE "none")
      BY Zenon DEF DeliverMessage, SameState, e1, e2, ready, detected
    <3> HIDE DEF e3, c
    <3> QED BY <1>1, <1>2, <2>1, <2>5, <3>1, EmitConn
  <2>7. code \in Codes /\ Unknown \in Body
    BY DEF Codes, Body, Players
  <2>8. writes' \in Seq(WriteRequest)
    <3>1. writes' = queue_write(writes, c, code, Unknown)
      BY DEF DeliverMessage
    <3> QED BY <1>1, <2>7, <3>1, QueueWriteOK DEF RingsOK
  <2> QED BY <2>6, <2>8 DEF RingsOK
<1>5. BufferOK'
  <2> DEFINE f == feed_state(framer[cur], NextByte)
             new == Drop(rx[cur], scan[cur] + 1)
  <2>1. NextByte \in Byte /\ scan[cur] < Len(rx[cur])
    BY NextByteOK DEF DeliverMessage, MayFeed, Framing
  <2>2. FramerOK(f) /\ f \in FramerState
    BY <1>1, <2>1, FeedOK DEF BufferOK, FramerOK
  <2>3. new \in Seq(Byte) /\ Len(new) <= RxCapacity
    <3>1. rx[cur] \in Seq(Byte) /\ scan[cur] + 1 \in 0..Len(rx[cur])
      BY <1>1, <2>1 DEF BufferOK
    <3>2. new \in Seq(Byte) /\ Len(new) = Len(rx[cur]) - (scan[cur] + 1)
      BY <3>1, CutOK
    <3> QED BY <1>1, <3>1, <3>2, ServerAssumption DEF BufferOK, RxCapacity
  <2>4. /\ framer' = [framer EXCEPT ![cur] = f]
        /\ rx' = [rx EXCEPT ![cur] = new]
        /\ scan' = [scan EXCEPT ![cur] = 0]
    BY DEF DeliverMessage
  <2> HIDE DEF f, new
  <2> QED BY <1>1, <2>2, <2>3, <2>4 DEF BufferOK
<1>6. HostOK'
  BY HostSame DEF DeliverMessage, HostOK
<1>7. CallOK'
  <2>1. fresh' \in BOOLEAN
    BY Zenon DEF DeliverMessage
  <2> QED BY <2>1 DEF DeliverMessage, CallOK
<1> QED BY <1>3, <1>4, <1>5, <1>6, <1>7

LEMMA FrameDoneType == TypeInv /\ FrameDone => TypeInv'
<1> SUFFICES ASSUME TypeInv, FrameDone PROVE TypeInv'
  OBVIOUS
<1> USE DEF TypeInv
<1>1. TableOK' /\ RingsOK'
  BY TableSame, RingsSame DEF FrameDone
<1>2. HostOK'
  BY HostSame DEF FrameDone, HostOK
<1>3. BufferOK'
  <2>1. cur \in Slots /\ scan[cur] = Len(rx[cur])
    BY DEF FrameDone, CallOK
  <2>2. /\ ObjectRx \in Seq(Byte) /\ ObjectScan \in Nat
        /\ ObjectScan <= Len(ObjectRx) /\ Len(ObjectRx) <= RxCapacity
    BY <2>1, ObjectOK, ServerAssumption DEF BufferOK, CallOK, RxCapacity
  <2> QED BY <2>1, <2>2 DEF FrameDone, BufferOK
<1>4. CallOK'
  <2>1. CASE data # <<>> /\ took
    BY <2>1 DEF FrameDone, CallOK, connVars
  <2>2. CASE ~(data # <<>> /\ took)
    BY <2>2, ReturnOK DEF FrameDone
  <2> QED BY <2>1, <2>2
<1> QED BY <1>1, <1>2, <1>3, <1>4

(* The host's announcements: they set host state and start a loop. *)
LEMMA SetPlayerType ==
  ASSUME TypeInv, NEW p \in PlayerInputs, NEW t \in Times, SetPlayer(p, t)
  PROVE  TypeInv'
<1> USE DEF TypeInv
<1>1. TableOK' /\ BufferOK' /\ RingsOK'
  BY TableSame, BufferSame, RingsSame DEF SetPlayer
<1>2. HostOK'
  <2>1. player_set' \in BOOLEAN
    BY Zenon DEF SetPlayer
  <2>2. p \in Players
    BY DEF Players
  <2> QED BY <2>1, <2>2 DEF SetPlayer, HostOK
<1>3. CallOK'
  <2>1. p \in Body
    BY DEF Body, Players
  <2>2. CASE Announce(201, p)
    BY <2>1, <2>2, AnnounceOK
  <2>3. CASE UNCHANGED callVars
    BY <2>3, IdleCallOK DEF SetPlayer
  <2> QED BY <2>2, <2>3 DEF SetPlayer
<1> QED BY <1>1, <1>2, <1>3

LEMMA SetSessionType ==
  ASSUME TypeInv, NEW state \in SessionInputs, NEW t \in Times, SetSessionState(state, t)
  PROVE  TypeInv'
<1> USE DEF TypeInv
<1>1. TableOK' /\ BufferOK' /\ RingsOK'
  BY TableSame, BufferSame, RingsSame DEF SetSessionState
<1>2. HostOK'
  BY ServerAssumption DEF SetSessionState, HostOK
<1>3. CallOK'
  <2> DEFINE code == IF state = "ACTIVE" THEN 202 ELSE 203
  <2>1. code \in {201, 202, 203} /\ Unknown \in Body
    BY DEF Body, Players
  <2>2. CASE Announce(code, Unknown)
    <3> HIDE DEF code
    <3> QED BY <2>1, <2>2, AnnounceOK
  <2>3. CASE UNCHANGED callVars
    BY <2>3, IdleCallOK DEF SetSessionState
  <2> QED BY <2>2, <2>3 DEF SetSessionState
<1> QED BY <1>1, <1>2, <1>3

(* What send_player_info sends is a player. *)
LEMMA ArgsArePlayers == HostOK => PlayerArgs \subseteq Body
BY DEF HostOK, PlayerArgs, Body, Players

LEMMA SendAllType ==
  ASSUME TypeInv, NEW p \in PlayerArgs, NEW t \in Times, SendPlayerInfoAll(p, t)
  PROVE  TypeInv'
<1> USE DEF TypeInv
<1>1. TableOK' /\ BufferOK' /\ RingsOK'
  BY TableSame, BufferSame, RingsSame DEF SendPlayerInfoAll
<1>2. HostOK'
  BY HostSame DEF SendPlayerInfoAll
<1>3. CallOK'
  BY AnnounceOK, ArgsArePlayers DEF SendPlayerInfoAll
<1> QED BY <1>1, <1>2, <1>3

LEMMA SendOneType ==
  ASSUME TypeInv, NEW c \in ConnIds, NEW p \in PlayerArgs, NEW t \in Times,
         SendPlayerInfo(c, p, t)
  PROVE  TypeInv'
<1> USE DEF TypeInv
<1>1. TableOK' /\ BufferOK'
  BY TableSame, BufferSame DEF SendPlayerInfo
<1>2. RingsOK'
  <2>1. 201 \in Codes /\ p \in Body
    BY ArgsArePlayers DEF Codes
  <2>2. CASE IsOpen(c)
    BY <2>1, <2>2, QueueWriteOK, SendEventOK DEF SendPlayerInfo, RingsOK
  <2>3. CASE ~IsOpen(c)
    BY <2>3, RingsSame DEF SendPlayerInfo
  <2> QED BY <2>2, <2>3
<1>3. HostOK'
  BY HostSame DEF SendPlayerInfo
<1>4. CallOK'
  BY IdleCallOK DEF SendPlayerInfo
<1> QED BY <1>1, <1>2, <1>3, <1>4

LEMMA AnnounceSlotType == TypeInv /\ AnnounceToSlot => TypeInv'
<1> SUFFICES ASSUME TypeInv, AnnounceToSlot PROVE TypeInv'
  OBVIOUS
<1> USE DEF TypeInv
<1>1. TableOK' /\ BufferOK'
  BY TableSame, BufferSame DEF AnnounceToSlot
<1>2. RingsOK'
  <2>1. CASE used[cur]
    <3>1. info[cur].conn \in ConnIds
      BY <2>1 DEF TableOK, CallOK
    <3>2. item.code \in Codes /\ item.body \in Body
      BY DEF CallOK, Codes
    <3> QED BY <2>1, <3>1, <3>2, QueueWriteOK, SendEventOK DEF AnnounceToSlot, RingsOK
  <2>2. CASE ~used[cur]
    BY <2>2, RingsSame DEF AnnounceToSlot
  <2> QED BY <2>1, <2>2
<1>3. HostOK'
  BY HostSame DEF AnnounceToSlot, HostOK
<1>4. CallOK'
  BY NextSlotOK DEF AnnounceToSlot
<1> QED BY <1>1, <1>2, <1>3, <1>4

(* Tick and Close only start a loop at the first slot. *)
LEMMA LoopStartType ==
  ASSUME TypeInv, (\E t \in Times : Tick(t)) \/ Close
  PROVE  TypeInv'
<1> USE DEF TypeInv
<1>1. TableOK' /\ BufferOK' /\ RingsOK'
  BY TableSame, BufferSame, RingsSame DEF Tick, Close
<1>2. HostOK'
  BY HostSame DEF Tick, Close, HostOK
<1>3. CallOK'
  BY SlotsOK DEF Tick, Close, CallOK
<1> QED BY <1>1, <1>2, <1>3

LEMMA TickSlotType == TypeInv /\ TickSlot => TypeInv'
<1> SUFFICES ASSUME TypeInv, TickSlot PROVE TypeInv'
  OBVIOUS
<1> USE DEF TypeInv
<1>1. BufferOK'
  BY BufferSame DEF TickSlot
<1>2. HostOK'
  BY HostSame DEF TickSlot, HostOK
<1>3. CallOK'
  BY NextSlotOK DEF TickSlot
<1>4. TableOK'
  <2>1. idle_reported' = [idle_reported EXCEPT ![cur] = TRUE] \/ UNCHANGED idle_reported
    BY DEF TickSlot
  <2>2. idle_reported' \in [Slots -> BOOLEAN]
    BY <2>1 DEF TableOK
  <2>3. UNCHANGED <<used, info, next_write, polled_at>>
    BY DEF TickSlot
  <2> QED BY <2>2, <2>3 DEF TableOK
<1>5. RingsOK'
  <2>1. CASE used[cur] /\ idle_deadline(cur) <= now
    <3>1. info[cur].conn \in ConnIds
      BY <2>1 DEF TableOK, CallOK
    <3>2. "CLIENT_IDLE" \in EventTypes /\ "none" \in Details
      BY DEF EventTypes, Details
    <3> QED BY <2>1, <3>1, <3>2, EmitConn DEF TickSlot, RingsOK
  <2>2. CASE ~(used[cur] /\ idle_deadline(cur) <= now)
    BY <2>2, RingsSame DEF TickSlot
  <2> QED BY <2>1, <2>2
<1> QED BY <1>1, <1>2, <1>3, <1>4, <1>5

LEMMA PollWriteType == TypeInv /\ PollWrite => TypeInv'
<1> SUFFICES ASSUME TypeInv, PollWrite PROVE TypeInv'
  OBVIOUS
<1> USE DEF TypeInv
<1>1. PICK i \in 1..Len(writes) :
        LET s == find_conn(writes[i].conn)
        IN  /\ writes' = RemoveEntry(writes, i)
            /\ IF IsOpen(writes[i].conn) /\ WriteSpacing > 0
               THEN /\ polled_at' = [polled_at EXCEPT ![s] = now]
                    /\ next_write' = [next_write EXCEPT ![s] = now + WriteSpacing]
               ELSE UNCHANGED <<polled_at, next_write>>
  BY DEF PollWrite
<1>2. RingsOK'
  BY <1>1, RemoveEntryKeeps DEF PollWrite, RingsOK
<1>3. TableOK'
  <2>1. CASE IsOpen(writes[i].conn) /\ WriteSpacing > 0
    <3>1. find_conn(writes[i].conn) \in Slots
      BY <2>1, FindConn
    <3>2. now + WriteSpacing \in 0..(MaxNow + WriteSpacing)
      BY ServerAssumption DEF HostOK, Times
    <3> QED BY <1>1, <2>1, <3>1, <3>2 DEF PollWrite, TableOK, HostOK
  <2>2. CASE ~(IsOpen(writes[i].conn) /\ WriteSpacing > 0)
    BY <1>1, <2>2, TableSame DEF PollWrite, connVars
  <2> QED BY <2>1, <2>2
<1>4. BufferOK'
  BY BufferSame DEF PollWrite
<1>5. HostOK'
  BY HostSame DEF PollWrite, HostOK
<1>6. CallOK'
  BY DEF PollWrite, CallOK, callVars
<1> QED BY <1>2, <1>3, <1>4, <1>5, <1>6

LEMMA PollEventType == TypeInv /\ PollEvent => TypeInv'
<1> SUFFICES ASSUME TypeInv, PollEvent PROVE TypeInv'
  OBVIOUS
<1> USE DEF TypeInv
<1>1. TableOK' /\ BufferOK'
  BY TableSame, BufferSame DEF PollEvent
<1>2. RingsOK'
  BY PollOK DEF PollEvent, RingsOK
<1>3. HostOK'
  BY HostSame DEF PollEvent, HostOK
<1>4. CallOK'
  BY DEF PollEvent, CallOK, callVars
<1> QED BY <1>1, <1>2, <1>3, <1>4

LEMMA CloseSlotType == TypeInv /\ CloseSlot => TypeInv'
<1> SUFFICES ASSUME TypeInv, CloseSlot PROVE TypeInv'
  OBVIOUS
<1> USE DEF TypeInv
<1>1. BufferOK'
  BY BufferSame DEF CloseSlot
<1>2. HostOK'
  <2>1. closed' \in BOOLEAN
    BY Zenon DEF CloseSlot
  <2> QED BY <2>1 DEF CloseSlot, HostOK
<1>3. CallOK'
  BY NextSlotOK DEF CloseSlot
<1>4. TableOK'
  <2>1. used' = [used EXCEPT ![cur] = FALSE] \/ UNCHANGED used
    BY DEF CloseSlot
  <2>2. used' \in [Slots -> BOOLEAN] /\ \A s \in Slots : used'[s] => used[s]
    BY <2>1 DEF TableOK
  <2>3. UNCHANGED <<info, idle_reported, next_write, polled_at>>
    BY DEF CloseSlot
  <2> QED BY <2>2, <2>3 DEF TableOK
<1>5. RingsOK'
  <2>1. CASE used[cur]
    <3>1. info[cur].conn \in ConnIds
      BY <2>1 DEF TableOK, CallOK
    <3>2. "CONNECTION_CLOSED" \in EventTypes /\ "SERVER_CLOSED" \in Details
      BY DEF EventTypes, Details
    <3>3. QueueOK(events')
      BY <2>1, <3>1, <3>2, EmitConn DEF CloseSlot, RingsOK
    <3>4. writes' \in Seq(WriteRequest)
      BY <2>1, DropWritesFor DEF CloseSlot, RingsOK
    <3> QED BY <3>3, <3>4 DEF RingsOK
  <2>2. CASE ~used[cur]
    BY <2>2, RingsSame DEF CloseSlot
  <2> QED BY <2>1, <2>2
<1> QED BY <1>1, <1>2, <1>3, <1>4, <1>5
-----------------------------------------------------------------------------
LEMMA NextTypeInv == TypeInv /\ [Next]_vars => TypeInv'
<1> SUFFICES ASSUME TypeInv, [Next]_vars PROVE TypeInv'
  OBVIOUS
<1>1. CASE HostCall
  <2>1. PICK t \in now..MaxNow :
          \/ \E c \in ConnIds : \/ OnConnectionOpened(c, t)
                                \/ OnConnectionClosed(c, t)
                                \/ \E d \in Reads : OnBytes(c, d, t)
                                \/ \E p \in PlayerArgs : SendPlayerInfo(c, p, t)
          \/ \E p \in PlayerInputs : SetPlayer(p, t)
          \/ \E p \in PlayerArgs : SendPlayerInfoAll(p, t)
          \/ \E state \in SessionInputs : SetSessionState(state, t)
          \/ Tick(t)
    BY <1>1 DEF HostCall
  <2>2. t \in Times
    BY ServerAssumption DEF TypeInv, HostOK, Times
  <2>3. Reads \subseteq Seq(Byte)
    BY ServerAssumption
  <2> QED BY <2>1, <2>2, <2>3, OpenedType, ClosedType, OnBytesType, SendOneType, SetPlayerType,
             SendAllType, SetSessionType, LoopStartType
<1>2. CASE Poll
  BY <1>2, PollWriteType, PollEventType DEF Poll
<1>3. CASE Close
  BY <1>3, LoopStartType
<1>4. CASE CallStep
  BY <1>4, FillType, SkipType, RetainType, LoseType, ErrorType, FeedType, DeliverType,
     FrameDoneType, AnnounceSlotType, TickSlotType, CloseSlotType DEF CallStep
<1>5. CASE UNCHANGED vars
  BY <1>5, TableSame, BufferSame, RingsSame
  DEF TypeInv, vars, HostOK, CallOK, hostVars, callVars, connVars
<1> QED BY <1>1, <1>2, <1>3, <1>4, <1>5 DEF Next

LEMMA Typed == Spec => []TypeInv
BY InitTypeInv, NextTypeInv, PTL DEF Spec

(* Every variable of the server keeps its type, for every table, ring and  *)
(* buffer size and every sequence of calls.                                *)
THEOREM TypeCorrect == Spec => []TypeOK
BY Typed, TypeInvImplies, PTL
-----------------------------------------------------------------------------
(***************************************************************************)
(* The write ring and the slot reserved by an object that on_bytes opened: *)
(* only deliver_message and protocol_error write while the object is       *)
(* fresh, and both end it.                                                 *)
(***************************************************************************)
RingInv ==
  /\ Len(writes) <= WriteRing
  /\ fresh => pc \in {"fill", "frame"} /\ ~write_ring_full(writes)

(* queue_write never passes the capacity of the ring. *)
LEMMA QueueWriteLen ==
  ASSUME NEW w \in Seq(WriteRequest), Len(w) <= WriteRing, NEW c \in ConnIds,
         NEW code \in Codes, NEW body \in Body
  PROVE  /\ queue_write(w, c, code, body) \in Seq(WriteRequest)
         /\ Len(queue_write(w, c, code, body)) <= WriteRing
<1>1. [conn |-> c, code |-> code, body |-> body] \in WriteRequest
  BY DEF WriteRequest
<1> QED BY <1>1, WriteAssumption DEF queue_write, can_queue, write_ring_full

(* The address and the codes the server queues are the ring's. *)
LEMMA CurConn ==
  ASSUME TypeInv, used[cur] PROVE info[cur].conn \in ConnIds /\ cur \in Slots
BY DEF TypeInv, TableOK, CallOK

LEMMA CodesOK == {200, 201, 202, 203, 501} \subseteq Codes /\ Unknown \in Body
BY DEF Codes, Body, Players

LEMMA InitRingInv == Init => RingInv
<1> SUFFICES ASSUME Init PROVE RingInv
  OBVIOUS
<1>1. ~fresh
  BY Zenon DEF Init
<1>2. Len(writes) <= WriteRing
  BY WriteAssumption DEF Init
<1> QED BY <1>1, <1>2 DEF RingInv

(* Steps that start or end a call, or belong to no on_bytes, have no fresh *)
(* object behind them.                                                     *)
LEMMA NotFresh ==
  ASSUME Len(writes') <= WriteRing, ~fresh' PROVE RingInv'
BY DEF RingInv

(* Host calls find the server between calls. *)
LEMMA HostCallRing ==
  ASSUME TypeInv, RingInv, HostCall \/ Poll \/ Close
  PROVE  RingInv'
<1>1. pc = "host"
  BY DEF HostCall, Poll, Close, OnConnectionOpened, OnConnectionClosed, OnBytes, SendPlayerInfo,
         SetPlayer, SendPlayerInfoAll, SetSessionState, Tick, PollWrite, PollEvent, Idle
<1>2. ~fresh
  BY <1>1 DEF RingInv
<1>3. ~fresh'
  BY <1>2 DEF HostCall, Poll, Close, OnConnectionOpened, OnConnectionClosed, OnBytes,
              SendPlayerInfo, SetPlayer, SendPlayerInfoAll, SetSessionState, Tick, PollWrite,
              PollEvent, Announce, callVars
<1>4. writes \in Seq(WriteRequest) /\ Len(writes) <= WriteRing
  BY DEF TypeInv, RingsOK, RingInv
<1>5. ASSUME NEW c \in ConnIds, NEW t, OnConnectionOpened(c, t) PROVE Len(writes') <= WriteRing
  <2> DEFINE tellPlayer == AnnouncePlayer /\ player_set /\ player_has_anything(player)
             tellReady  == AnnounceReady /\ session = "ACTIVE"
             w2 == IF tellPlayer THEN queue_write(writes, c, 201, player) ELSE writes
  <2>1. writes' = IF tellReady THEN queue_write(w2, c, 202, Unknown) ELSE w2
    BY <1>5 DEF OnConnectionOpened
  <2>2. player \in Body
    BY DEF TypeInv, HostOK, Body
  <2>3. w2 \in Seq(WriteRequest) /\ Len(w2) <= WriteRing
    BY <1>4, <2>2, CodesOK, QueueWriteLen
  <2> HIDE DEF w2, tellReady
  <2> QED BY <2>1, <2>3, CodesOK, QueueWriteLen
<1>6. ASSUME NEW c \in ConnIds, NEW t, OnConnectionClosed(c, t) PROVE Len(writes') <= WriteRing
  <2>1. writes' = drop_writes_for(writes, c)
    BY <1>6 DEF OnConnectionClosed
  <2>2. Len(writes') \in Nat /\ Len(writes') <= Len(writes)
    BY <1>4, <2>1, DropWritesFor
  <2> QED BY <1>4, <2>2, WriteAssumption
<1>7. ASSUME NEW c \in ConnIds, NEW p \in PlayerArgs, NEW t, SendPlayerInfo(c, p, t)
      PROVE Len(writes') <= WriteRing
  <2>1. p \in Body
    BY ArgsArePlayers DEF TypeInv
  <2> QED BY <1>4, <1>7, <2>1, CodesOK, QueueWriteLen DEF SendPlayerInfo
<1>8. ASSUME PollWrite PROVE Len(writes') <= WriteRing
  <2>1. PICK i \in 1..Len(writes) : writes' = RemoveEntry(writes, i)
    BY <1>8 DEF PollWrite
  <2>2. Len(writes') = Len(writes) - 1
    BY <1>4, <2>1, RemoveEntryKeeps
  <2> QED BY <1>4, <2>2, WriteAssumption
<1>9. Len(writes') <= WriteRing
  <2>1. CASE UNCHANGED writes
    BY <1>4, <2>1
  <2>2. CASE writes' # writes
    BY <1>5, <1>6, <1>7, <1>8, <2>2
    DEF HostCall, Poll, Close, OnBytes, SetPlayer, SendPlayerInfoAll, SetSessionState, Tick,
        PollEvent
  <2> QED BY <2>1, <2>2
<1> QED BY <1>3, <1>9, NotFresh

(* The only step that makes an object fresh found a slot free. *)
LEMMA FeedRing == TypeInv /\ RingInv /\ FeedByte => RingInv'
<1> SUFFICES ASSUME TypeInv, RingInv, FeedByte PROVE RingInv'
  OBVIOUS
<1>1. pc = "frame" /\ UNCHANGED <<pc, writes>>
  BY DEF FeedByte, MayFeed, Framing
<1>2. CASE fresh
  BY <1>1, <1>2 DEF RingInv
<1>3. CASE ~in_message(framer[cur])
  <2>1. ~write_ring_full(writes)
    BY <1>3 DEF FeedByte, MayFeed, MustRefuse
  <2> QED BY <1>1, <2>1 DEF RingInv
<1>4. CASE ~fresh /\ in_message(framer[cur])
  <2>1. ~fresh'
    BY <1>4, Zenon DEF FeedByte
  <2> QED BY <1>1, <2>1 DEF RingInv
<1> QED BY <1>2, <1>3, <1>4

LEMMA CallStepRing == TypeInv /\ RingInv /\ CallStep => RingInv'
<1> SUFFICES ASSUME TypeInv, RingInv, CallStep PROVE RingInv'
  OBVIOUS
<1>1. writes \in Seq(WriteRequest) /\ Len(writes) <= WriteRing
  BY DEF TypeInv, RingsOK, RingInv
<1>2. CASE FillRx \/ SkipWhitespace
  BY <1>2 DEF FillRx, SkipWhitespace, Framing, callVars, RingInv
<1>3. CASE RefuseAndRetain \/ RefuseAndLose
  <2>1. ~fresh' /\ UNCHANGED writes
    BY <1>3 DEF RefuseAndRetain, RefuseAndLose, Return
  <2> QED BY <1>1, <2>1, NotFresh
<1>4. CASE Garbage \/ TooLarge \/ BadJson
  <2>1. PICK reason : Discard(reason)
    BY <1>4 DEF Garbage, TooLarge, BadJson
  <2>2. used[cur]
    BY <1>4 DEF Garbage, TooLarge, BadJson, MayFeed, Framing, TypeInv, CallOK
  <2>3. ~fresh' /\ writes' = queue_write(writes, info[cur].conn, 501, Unknown)
    BY <2>1 DEF Discard, protocol_error, Return
  <2>4. Len(writes') <= WriteRing
    BY <1>1, <2>2, <2>3, CurConn, CodesOK, QueueWriteLen
  <2> QED BY <2>3, <2>4, NotFresh
<1>5. CASE FeedByte
  BY <1>5, FeedRing
<1>6. ASSUME NEW m \in Messages, DeliverMessage(m) PROVE RingInv'
  <2> DEFINE code == IF RejectIncomplete /\ m.incomplete THEN 501 ELSE 200
  <2>1. ~fresh' /\ writes' = queue_write(writes, info[cur].conn, code, Unknown)
    BY <1>6 DEF DeliverMessage
  <2>2. code \in Codes
    BY DEF Codes
  <2>3. used[cur]
    BY <1>6 DEF DeliverMessage, MayFeed, Framing, TypeInv, CallOK
  <2> HIDE DEF code
  <2>4. Len(writes') <= WriteRing
    BY <1>1, <2>1, <2>2, <2>3, CurConn, CodesOK, QueueWriteLen
  <2> QED BY <2>1, <2>4, NotFresh
<1>7. CASE FrameDone
  BY <1>7 DEF FrameDone, Return, RingInv
<1>8. CASE AnnounceToSlot
  <2>1. ~fresh
    BY <1>8 DEF AnnounceToSlot, RingInv
  <2>2. ~fresh'
    BY <1>8, <2>1 DEF AnnounceToSlot, NextSlot, Return
  <2>3. Len(writes') <= WriteRing
    <3>1. item.code \in Codes /\ item.body \in Body
      BY DEF TypeInv, CallOK, Codes
    <3>2. CASE used[cur]
      BY <1>1, <1>8, <3>1, <3>2, CurConn, QueueWriteLen DEF AnnounceToSlot
    <3>3. CASE ~used[cur]
      BY <1>1, <1>8, <3>3 DEF AnnounceToSlot
    <3> QED BY <3>2, <3>3
  <2> QED BY <2>2, <2>3, NotFresh
<1>9. CASE TickSlot \/ CloseSlot
  <2>1. ~fresh
    BY <1>9 DEF TickSlot, CloseSlot, RingInv
  <2>2. ~fresh'
    BY <1>9, <2>1 DEF TickSlot, CloseSlot, NextSlot, Return
  <2>3. writes' = writes \/ writes' = drop_writes_for(writes, info[cur].conn)
    BY <1>9 DEF TickSlot, CloseSlot
  <2>4. Len(writes') \in Nat /\ Len(writes') <= Len(writes)
    BY <1>1, <2>3, DropWritesFor
  <2>5. Len(writes') <= WriteRing
    BY <1>1, <2>4, WriteAssumption
  <2> QED BY <2>2, <2>5, NotFresh
<1> QED BY <1>2, <1>3, <1>4, <1>5, <1>6, <1>7, <1>8, <1>9 DEF CallStep

LEMMA RingInvHolds == Spec => []RingInv
<1>1. TypeInv /\ RingInv /\ [Next]_vars => RingInv'
  <2> SUFFICES ASSUME TypeInv, RingInv, [Next]_vars PROVE RingInv'
    OBVIOUS
  <2>1. CASE UNCHANGED vars
    BY <2>1 DEF vars, callVars, RingInv
  <2> QED BY <2>1, HostCallRing, CallStepRing DEF Next
<1> QED BY <1>1, InitRingInv, Typed, PTL DEF Spec

(* Rings and buffers never outgrow create()'s allocation. *)
THEOREM AllocationRespected == Spec => []WithinAllocation
<1>1. TypeInv /\ RingInv => WithinAllocation
  BY DEF TypeInv, RingInv, RingsOK, QueueOK, BufferOK, WithinAllocation
<1> QED BY <1>1, Typed, RingInvHolds, PTL

(* The write slot an object found free stays free for as long as the call  *)
(* that opened it runs.                                                    *)
THEOREM SlotStaysReserved == Spec => []ReservedSlot
<1>1. RingInv => ReservedSlot
  BY DEF RingInv, ReservedSlot
<1> QED BY <1>1, RingInvHolds, PTL

(* If the acknowledgement's text fits a request, an object that one call   *)
(* opens and closes is answered, once, to its own connection.              *)
THEOREM FreshAnswered ==
  ASSUME AckFits PROVE Spec => FreshMessageAnswered
<1> DEFINE Answered == /\ Len(writes') = Len(writes) + 1
                       /\ SubSeq(writes', 1, Len(writes)) = writes
                       /\ writes'[Len(writes')].conn = info[cur].conn
<1>1. TypeInv /\ RingInv /\ [Next]_vars =>
        [(\E m \in Messages : DeliverMessage(m)) /\ fresh => Answered]_vars
  <2> SUFFICES ASSUME TypeInv, RingInv, fresh, NEW m \in Messages, DeliverMessage(m)
               PROVE  Answered
    OBVIOUS
  <2> DEFINE code == IF RejectIncomplete /\ m.incomplete THEN 501 ELSE 200
             x == [conn |-> info[cur].conn, code |-> code, body |-> Unknown]
  <2>1. ~write_ring_full(writes)
    BY DEF RingInv
  <2>2. can_queue(writes, code)
    BY <2>1, AckFits DEF can_queue, Encodes
  <2>3. writes' = queue_write(writes, info[cur].conn, code, Unknown)
    BY DEF DeliverMessage
  <2>4. writes' = Append(writes, x)
    BY <2>2, <2>3 DEF queue_write
  <2>5. writes \in Seq(WriteRequest)
    BY DEF TypeInv, RingsOK
  <2>6. used[cur]
    BY DEF DeliverMessage, MayFeed, Framing, TypeInv, CallOK
  <2>7. code \in Codes
    BY DEF Codes
  <2> HIDE DEF code
  <2>8. x \in WriteRequest /\ x.conn = info[cur].conn
    BY <2>6, <2>7, CurConn, CodesOK DEF WriteRequest
  <2> HIDE DEF x
  <2> QED BY <2>4, <2>5, <2>8
<1> QED BY <1>1, Typed, RingInvHolds, PTL DEF Spec, FreshMessageAnswered
-----------------------------------------------------------------------------
(***************************************************************************)
(* Queued writes and the connections they name.  Closing the server walks  *)
(* the table, so the slots it has passed are free; closed servers stay     *)
(* between calls.                                                          *)
(***************************************************************************)
OwnerInv ==
  /\ NoOrphanWrites
  /\ closed => pc = "host" /\ \A s \in Slots : ~used[s]
  /\ pc = "closing" => \A r \in 1..(cur - 1) : ~used[r]

LEMMA InitOwnerInv == Init => OwnerInv
<1> SUFFICES ASSUME Init PROVE OwnerInv
  OBVIOUS
<1>1. \A s \in Slots : ~used[s]
  BY DEF Init
<1>2. ~closed /\ pc = "host" /\ Len(writes) = 0
  BY DEF Init
<1> QED BY <1>1, <1>2 DEF OwnerInv, NoOrphanWrites

(* Connection d is open after the step. *)
OpenAfter(d) == \E s \in Slots : used'[s] /\ info'[s].conn = d

LEMMA OwnersAfter ==
  ASSUME \A k \in 1..Len(writes') : OpenAfter(writes'[k].conn),
         \A r, s \in Slots : used'[r] /\ used'[s] /\ info'[r].conn = info'[s].conn => r = s
  PROVE  NoOrphanWrites'
BY DEF NoOrphanWrites, IsOpen, OpenAfter

(* A step that opens and closes no slot, and queues at most for a          *)
(* connection that is open, leaves no orphan.                              *)
LEMMA OwnersKept ==
  ASSUME NoOrphanWrites, UNCHANGED used,
         \A s \in Slots : info'[s].conn = info[s].conn,
         \A k \in 1..Len(writes') :
            \/ \E j \in 1..Len(writes) : writes'[k] = writes[j]
            \/ IsOpen(writes'[k].conn)
  PROVE  NoOrphanWrites'
<1>1. \A c : IsOpen(c) => OpenAfter(c)
  BY DEF IsOpen, OpenAfter
<1>2. \A k \in 1..Len(writes') : OpenAfter(writes'[k].conn)
  BY <1>1 DEF NoOrphanWrites
<1>3. \A r, s \in Slots : used'[r] /\ used'[s] /\ info'[r].conn = info'[s].conn => r = s
  BY DEF NoOrphanWrites
<1> QED BY <1>2, <1>3, OwnersAfter

(* What queue_write adds is addressed as asked. *)
LEMMA QueueWriteEntries ==
  ASSUME NEW w \in Seq(WriteRequest), NEW c \in ConnIds, NEW code \in Codes, NEW body \in Body,
         NEW r, r = queue_write(w, c, code, body)
  PROVE  \A k \in 1..Len(r) : (\E j \in 1..Len(w) : r[k] = w[j]) \/ r[k].conn = c
<1> DEFINE x == [conn |-> c, code |-> code, body |-> body]
<1>1. x \in WriteRequest /\ x.conn = c
  BY DEF WriteRequest
<1>2. r = w \/ r = Append(w, x)
  BY DEF queue_write
<1> HIDE DEF x
<1> QED BY <1>1, <1>2

(* The running call's slot is an open connection. *)
LEMMA CurIsOpen ==
  ASSUME TypeInv, used[cur] PROVE IsOpen(info[cur].conn)
BY DEF TypeInv, CallOK, IsOpen

(* deliver_message and protocol_error change no connection's id. *)
LEMMA DeliverKeepsConn ==
  ASSUME TypeInv, NEW m \in Messages, DeliverMessage(m)
  PROVE  \A s \in Slots : info'[s].conn = info[s].conn
<1> DEFINE i == info[cur]
           new == [i EXCEPT !.last_message = now,
                            !.errors = 0,
                            !.last_shot = IF m.kind = "SHOT" THEN m.shot ELSE i.last_shot,
                            !.device = IF i.device = NoDevice THEN m.device ELSE i.device,
                            !.ready = Flag(m.ready, i.ready),
                            !.detected = Flag(m.detected, i.detected)]
<1>1. cur \in Slots /\ info \in [Slots -> Info]
  BY DEF TypeInv, CallOK, TableOK
<1>2. info' = [info EXCEPT ![cur] = new]
  BY DEF DeliverMessage
<1>3. new.conn = info[cur].conn
  BY <1>1 DEF Info
<1> HIDE DEF new
<1> QED BY <1>1, <1>2, <1>3

LEMMA DiscardKeepsConn ==
  ASSUME TypeInv, NEW reason, Discard(reason)
  PROVE  \A s \in Slots : info'[s].conn = info[s].conn
<1> DEFINE errors == Least(info[cur].errors + 1, ErrorCap)
<1>1. cur \in Slots /\ info \in [Slots -> Info]
  BY DEF TypeInv, CallOK, TableOK
<1>2. info' = [info EXCEPT ![cur].errors = errors]
  BY DEF Discard, protocol_error
<1> HIDE DEF errors
<1> QED BY <1>1, <1>2 DEF Info

(* Opening: the id was not open, and it takes a slot nobody had. *)
LEMMA OpenedOwners ==
  ASSUME TypeInv, NoOrphanWrites, NEW c \in ConnIds, NEW t \in Times, OnConnectionOpened(c, t)
  PROVE  NoOrphanWrites'
<1> DEFINE tellPlayer == AnnouncePlayer /\ player_set /\ player_has_anything(player)
           tellReady  == AnnounceReady /\ session = "ACTIVE"
           w2 == IF tellPlayer THEN queue_write(writes, c, 201, player) ELSE writes
           w3 == IF tellReady THEN queue_write(w2, c, 202, Unknown) ELSE w2
<1>1. PICK s \in Slots : /\ ~used[s]
                         /\ used' = [used EXCEPT ![s] = TRUE]
                         /\ info' = [info EXCEPT ![s] = NewInfo(c, t)]
                         /\ writes' = w3
  BY DEF OnConnectionOpened
<1>2. ~IsOpen(c) /\ used \in [Slots -> BOOLEAN] /\ info \in [Slots -> Info]
  BY DEF OnConnectionOpened, TypeInv, TableOK
<1>3. NewInfo(c, t).conn = c
  BY NewInfoOK
<1>4. OpenAfter(c)
  BY <1>1, <1>2, <1>3 DEF OpenAfter
<1>5. \A d : IsOpen(d) => OpenAfter(d)
  BY <1>1, <1>2 DEF IsOpen, OpenAfter
<1>6. writes \in Seq(WriteRequest) /\ player \in Body
  BY DEF TypeInv, RingsOK, HostOK, Body
<1>7. \A k \in 1..Len(w3) : (\E j \in 1..Len(writes) : w3[k] = writes[j]) \/ w3[k].conn = c
  <2>1. /\ w2 \in Seq(WriteRequest)
        /\ \A k \in 1..Len(w2) : (\E j \in 1..Len(writes) : w2[k] = writes[j]) \/ w2[k].conn = c
    <3>1. CASE tellPlayer
      <4>1. w2 = queue_write(writes, c, 201, player)
        BY <3>1
      <4> HIDE DEF w2
      <4>2. w2 \in Seq(WriteRequest)
        BY <1>6, <4>1, CodesOK, QueueWriteOK
      <4> QED BY <1>6, <4>1, <4>2, CodesOK, QueueWriteEntries
    <3>2. CASE ~tellPlayer
      BY <1>6, <3>2
    <3> QED BY <3>1, <3>2
  <2> HIDE DEF w2
  <2>2. CASE tellReady
    <3>1. w3 = queue_write(w2, c, 202, Unknown)
      BY <2>2
    <3>2. \A k \in 1..Len(w3) : (\E j \in 1..Len(w2) : w3[k] = w2[j]) \/ w3[k].conn = c
      BY <2>1, <3>1, CodesOK, QueueWriteEntries
    <3> HIDE DEF w3
    <3> QED BY <2>1, <3>2
  <2>3. CASE ~tellReady
    BY <2>1, <2>3
  <2> QED BY <2>2, <2>3
<1> HIDE DEF w3
<1>8. \A k \in 1..Len(writes') : OpenAfter(writes'[k].conn)
  BY <1>1, <1>4, <1>5, <1>7 DEF NoOrphanWrites
<1>9. ASSUME NEW p \in Slots, NEW q \in Slots, used'[p], used'[q],
             info'[p].conn = info'[q].conn
      PROVE  p = q
  <2>1. \A r \in Slots : used[r] => info[r].conn # c
    BY <1>2 DEF IsOpen
  <2>2. \A r \in Slots : r # s => used'[r] = used[r] /\ info'[r] = info[r]
    BY <1>1, <1>2
  <2>3. info'[s].conn = c
    BY <1>1, <1>2, <1>3
  <2> QED BY <1>9, <2>1, <2>2, <2>3 DEF NoOrphanWrites
<1> QED BY <1>8, <1>9, OwnersAfter

(* Closing a slot: its writes go with it, and nobody else's. *)
LEMMA SlotClosedOwners ==
  ASSUME TypeInv, NoOrphanWrites, NEW s \in Slots, used[s],
         used' = [used EXCEPT ![s] = FALSE], UNCHANGED info,
         writes' = drop_writes_for(writes, info[s].conn)
  PROVE  NoOrphanWrites'
<1>1. writes \in Seq(WriteRequest) /\ used \in [Slots -> BOOLEAN]
  BY DEF TypeInv, RingsOK, TableOK
<1>2. \A k \in 1..Len(writes') :
        \E j \in 1..Len(writes) : writes'[k] = writes[j] /\ writes[j].conn # info[s].conn
  BY <1>1, DropWritesFor
<1>3. \A d : IsOpen(d) /\ d # info[s].conn => OpenAfter(d)
  BY <1>1 DEF IsOpen, OpenAfter
<1>4. \A k \in 1..Len(writes') : OpenAfter(writes'[k].conn)
  BY <1>2, <1>3 DEF NoOrphanWrites
<1>5. \A r \in Slots : used'[r] => used[r]
  BY <1>1
<1>6. \A p, q \in Slots : used'[p] /\ used'[q] /\ info'[p].conn = info'[q].conn => p = q
  BY <1>5 DEF NoOrphanWrites
<1> QED BY <1>4, <1>6, OwnersAfter

(* A call the host may make meets an open server between calls. *)
LEMMA HostCallOwners ==
  ASSUME TypeInv, OwnerInv, HostCall
  PROVE  OwnerInv'
<1>1. PICK t \in now..MaxNow :
        \/ \E c \in ConnIds : \/ OnConnectionOpened(c, t)
                              \/ OnConnectionClosed(c, t)
                              \/ \E d \in Reads : OnBytes(c, d, t)
                              \/ \E p \in PlayerArgs : SendPlayerInfo(c, p, t)
        \/ \E p \in PlayerInputs : SetPlayer(p, t)
        \/ \E p \in PlayerArgs : SendPlayerInfoAll(p, t)
        \/ \E state \in SessionInputs : SetSessionState(state, t)
        \/ Tick(t)
  BY DEF HostCall
<1>2. t \in Times /\ writes \in Seq(WriteRequest)
  BY ServerAssumption DEF TypeInv, HostOK, Times, RingsOK
<1>3. ~closed' /\ pc' # "closing"
  <2>1. ~closed /\ pc = "host"
    BY <1>1 DEF OnConnectionOpened, OnConnectionClosed, OnBytes, SendPlayerInfo, SetPlayer,
                SendPlayerInfoAll, SetSessionState, Tick, Idle
  <2>2. UNCHANGED closed
    BY <1>1 DEF OnConnectionOpened, OnConnectionClosed, OnBytes, SendPlayerInfo, SetPlayer,
                SendPlayerInfoAll, SetSessionState, Tick, hostVars
  <2>3. pc' # "closing"
    BY <1>1, <2>1 DEF OnConnectionOpened, OnConnectionClosed, OnBytes, SendPlayerInfo, SetPlayer,
                      SendPlayerInfoAll, SetSessionState, Tick, Announce, callVars
  <2> QED BY <2>1, <2>2, <2>3
<1>4. NoOrphanWrites'
  <2>1. ASSUME NEW c \in ConnIds, OnConnectionOpened(c, t) PROVE NoOrphanWrites'
    BY <1>2, <2>1, OpenedOwners DEF OwnerInv
  <2>2. ASSUME NEW c \in ConnIds, OnConnectionClosed(c, t) PROVE NoOrphanWrites'
    <3>1. find_conn(c) \in Slots /\ used[find_conn(c)] /\ info[find_conn(c)].conn = c
      BY <2>2, FindConn DEF OnConnectionClosed
    <3> QED BY <2>2, <3>1, SlotClosedOwners DEF OnConnectionClosed, OwnerInv
  <2>3. ASSUME NEW c \in ConnIds, NEW p \in PlayerArgs, SendPlayerInfo(c, p, t), IsOpen(c)
        PROVE  NoOrphanWrites'
    <3>1. /\ IsOpen(c) /\ UNCHANGED <<used, info>>
          /\ writes' = queue_write(writes, c, 201, p) /\ p \in Body
      BY <2>3, ArgsArePlayers DEF SendPlayerInfo, connVars, TypeInv
    <3>2. \A k \in 1..Len(writes') :
            (\E j \in 1..Len(writes) : writes'[k] = writes[j]) \/ writes'[k].conn = c
      BY <1>2, <3>1, CodesOK, QueueWriteEntries
    <3> QED BY <3>1, <3>2, OwnersKept DEF OwnerInv
  <2>4. CASE UNCHANGED <<writes, used, info>>
    BY <2>4, OwnersKept DEF OwnerInv
  <2> QED BY <1>1, <2>1, <2>2, <2>3, <2>4
          DEF OnBytes, SendPlayerInfo, SetPlayer, SendPlayerInfoAll, SetSessionState, Tick,
              connVars
<1> QED BY <1>3, <1>4 DEF OwnerInv

LEMMA PollOwners ==
  ASSUME TypeInv, OwnerInv, Poll PROVE OwnerInv'
<1>1. writes \in Seq(WriteRequest)
  BY DEF TypeInv, RingsOK
<1>2. UNCHANGED <<used, info, closed, pc, cur>>
  BY DEF Poll, PollWrite, PollEvent, connVars, hostVars, callVars
<1>3. \A k \in 1..Len(writes') : \E j \in 1..Len(writes) : writes'[k] = writes[j]
  <2>1. CASE PollWrite
    <3>1. PICK i \in 1..Len(writes) : writes' = RemoveEntry(writes, i)
      BY <2>1 DEF PollWrite
    <3>2. LET r == RemoveEntry(writes, i)
          IN  \A k \in 1..Len(r) : \E j \in 1..Len(writes) : r[k] = writes[j]
      BY <1>1, RemoveEntryKeeps
    <3> HIDE DEF RemoveEntry
    <3> QED BY <3>1, <3>2, Zenon
  <2>2. CASE PollEvent
    BY <1>1, <2>2 DEF PollEvent
  <2> QED BY <2>1, <2>2 DEF Poll
<1>4. NoOrphanWrites'
  BY <1>2, <1>3, OwnersKept DEF OwnerInv
<1> QED BY <1>2, <1>4 DEF OwnerInv

(* on_bytes and the announcements write to the slot they work on. *)
LEMMA SlotWriteOwners ==
  ASSUME TypeInv, OwnerInv, used[cur], UNCHANGED used,
         \A s \in Slots : info'[s].conn = info[s].conn,
         NEW code \in Codes, NEW body \in Body,
         writes' = queue_write(writes, info[cur].conn, code, body)
  PROVE  NoOrphanWrites'
<1>1. info[cur].conn \in ConnIds /\ IsOpen(info[cur].conn) /\ writes \in Seq(WriteRequest)
  BY CurConn, CurIsOpen DEF TypeInv, RingsOK
<1>2. \A k \in 1..Len(writes') :
        (\E j \in 1..Len(writes) : writes'[k] = writes[j]) \/ writes'[k].conn = info[cur].conn
  BY <1>1, QueueWriteEntries
<1> QED BY <1>1, <1>2, OwnersKept DEF OwnerInv

(* One pass of gsp_server_close's loop: the next slot, or the seal. *)
LEMMA CloseWalk ==
  ASSUME cur \in Slots, CloseSlot, NoOrphanWrites', \A r \in 1..cur : ~used'[r]
  PROVE  OwnerInv'
<1>1. CASE cur = MaxConnections
  <2>1. pc' = "host" /\ \A s \in Slots : ~used'[s]
    BY <1>1 DEF CloseSlot, NextSlot, Return, Slots
  <2> QED BY <2>1 DEF OwnerInv
<1>2. CASE cur # MaxConnections
  <2>1. ~closed' /\ cur' = cur + 1
    BY <1>2 DEF CloseSlot, NextSlot
  <2>2. 1..(cur' - 1) = 1..cur
    BY <2>1, SlotsOK
  <2> QED BY <2>1, <2>2 DEF OwnerInv
<1> QED BY <1>1, <1>2

LEMMA CloseSlotOwners ==
  ASSUME TypeInv, OwnerInv, CloseSlot PROVE OwnerInv'
<1>1. cur \in Slots /\ pc = "closing" /\ used \in [Slots -> BOOLEAN]
  BY DEF CloseSlot, TypeInv, CallOK, TableOK
<1>2. UNCHANGED info
  BY DEF CloseSlot
<1>3. CASE used[cur]
  <2>1. used' = [used EXCEPT ![cur] = FALSE] /\ writes' = drop_writes_for(writes, info[cur].conn)
    BY <1>3 DEF CloseSlot
  <2>2. NoOrphanWrites' /\ \A r \in 1..cur : ~used'[r]
    <3>1. NoOrphanWrites'
      BY <1>1, <1>2, <1>3, <2>1, SlotClosedOwners DEF OwnerInv
    <3>2. ASSUME NEW r \in 1..cur PROVE ~used'[r]
      BY <1>1, <2>1, ServerAssumption DEF OwnerInv, Slots
    <3> QED BY <3>1, <3>2
  <2> QED BY <1>1, <2>2, CloseWalk
<1>4. CASE ~used[cur]
  <2>1. UNCHANGED <<used, writes>>
    BY <1>4 DEF CloseSlot
  <2>2. NoOrphanWrites' /\ \A r \in 1..cur : ~used'[r]
    <3>1. NoOrphanWrites'
      BY <1>2, <2>1, OwnersKept DEF OwnerInv
    <3>2. ASSUME NEW r \in 1..cur PROVE ~used'[r]
      BY <1>1, <1>4, <2>1, ServerAssumption DEF OwnerInv, Slots
    <3> QED BY <3>1, <3>2
  <2> QED BY <1>1, <2>2, CloseWalk
<1> QED BY <1>3, <1>4

LEMMA CallStepOwners ==
  ASSUME TypeInv, OwnerInv, CallStep PROVE OwnerInv'
<1>1. CASE CloseSlot
  BY <1>1, CloseSlotOwners
<1>2. CASE FillRx \/ SkipWhitespace \/ RefuseAndRetain \/ RefuseAndLose \/ FeedByte \/ FrameDone
           \/ TickSlot
  <2>1. pc \notin {"host", "closing"} /\ UNCHANGED <<writes, used, info, closed>>
    BY <1>2 DEF FillRx, SkipWhitespace, RefuseAndRetain, RefuseAndLose, FeedByte, FrameDone,
                TickSlot, Framing, MayFeed, connVars, hostVars
  <2>2. pc' # "closing"
    BY <1>2, <2>1 DEF FillRx, SkipWhitespace, RefuseAndRetain, RefuseAndLose, FeedByte, FrameDone,
                      TickSlot, NextSlot, Return, callVars
  <2>3. NoOrphanWrites'
    BY <2>1, OwnersKept DEF OwnerInv
  <2> QED BY <2>1, <2>2, <2>3 DEF OwnerInv
<1>3. CASE Garbage \/ TooLarge \/ BadJson
  <2>1. PICK reason : Discard(reason)
    BY <1>3 DEF Garbage, TooLarge, BadJson
  <2>2. pc = "frame" /\ used[cur]
    BY <1>3 DEF Garbage, TooLarge, BadJson, MayFeed, Framing, TypeInv, CallOK
  <2>3. /\ UNCHANGED <<used, closed>> /\ pc' = "host"
        /\ writes' = queue_write(writes, info[cur].conn, 501, Unknown)
    BY <2>1 DEF Discard, protocol_error, Return, hostVars
  <2>4. NoOrphanWrites'
    BY <2>1, <2>2, <2>3, DiscardKeepsConn, CodesOK, SlotWriteOwners
  <2> QED BY <2>2, <2>3, <2>4 DEF OwnerInv
<1>4. ASSUME NEW m \in Messages, DeliverMessage(m) PROVE OwnerInv'
  <2> DEFINE code == IF RejectIncomplete /\ m.incomplete THEN 501 ELSE 200
  <2>1. pc = "frame" /\ used[cur] /\ UNCHANGED <<used, closed, pc>>
    BY <1>4 DEF DeliverMessage, MayFeed, Framing, TypeInv, CallOK, hostVars
  <2>2. writes' = queue_write(writes, info[cur].conn, code, Unknown)
    BY <1>4 DEF DeliverMessage
  <2>3. code \in Codes
    BY DEF Codes
  <2> HIDE DEF code
  <2>4. NoOrphanWrites'
    BY <1>4, <2>1, <2>2, <2>3, DeliverKeepsConn, CodesOK, SlotWriteOwners
  <2> QED BY <2>1, <2>4 DEF OwnerInv
<1>5. CASE AnnounceToSlot
  <2>1. pc = "announce" /\ UNCHANGED <<used, info, closed>>
    BY <1>5 DEF AnnounceToSlot, connVars, hostVars
  <2>2. pc' # "closing"
    BY <1>5, <2>1 DEF AnnounceToSlot, NextSlot, Return
  <2>3. item.code \in Codes /\ item.body \in Body
    BY DEF TypeInv, CallOK, Codes
  <2>4. NoOrphanWrites'
    <3>1. CASE used[cur]
      BY <1>5, <2>1, <2>3, <3>1, SlotWriteOwners DEF AnnounceToSlot
    <3>2. CASE ~used[cur]
      <4>1. UNCHANGED writes
        BY <1>5, <3>2 DEF AnnounceToSlot
      <4> QED BY <2>1, <4>1, OwnersKept DEF OwnerInv
    <3> QED BY <3>1, <3>2
  <2> QED BY <2>1, <2>2, <2>4 DEF OwnerInv
<1> QED BY <1>1, <1>2, <1>3, <1>4, <1>5 DEF CallStep

LEMMA OwnerInvHolds == Spec => []OwnerInv
<1>1. TypeInv /\ OwnerInv /\ [Next]_vars => OwnerInv'
  <2> SUFFICES ASSUME TypeInv, OwnerInv, [Next]_vars PROVE OwnerInv'
    OBVIOUS
  <2>1. CASE Close
    <3>1. pc' = "closing" /\ cur' = 1 /\ UNCHANGED <<used, info, writes, closed>> /\ ~closed
      BY <2>1 DEF Close, Idle, connVars, hostVars
    <3>2. NoOrphanWrites'
      BY <3>1, OwnersKept DEF OwnerInv
    <3> QED BY <3>1, <3>2 DEF OwnerInv
  <2>2. CASE UNCHANGED vars
    <3>1. UNCHANGED <<used, info, writes, closed, pc, cur>>
      BY <2>2 DEF vars, connVars, hostVars, callVars
    <3>2. NoOrphanWrites'
      BY <3>1, OwnersKept DEF OwnerInv
    <3> QED BY <3>1, <3>2 DEF OwnerInv
  <2> QED BY <2>1, <2>2, HostCallOwners, PollOwners, CallStepOwners DEF Next
<1> QED BY <1>1, InitOwnerInv, Typed, PTL DEF Spec

(* No write outlives its connection, and no connection id is open twice. *)
THEOREM WritesHaveOwners == Spec => []NoOrphanWrites
<1>1. OwnerInv => NoOrphanWrites
  BY DEF OwnerInv
<1> QED BY <1>1, OwnerInvHolds, PTL

(* A closed server has nothing open and nothing left to write. *)
THEOREM ClosedIsSealed == Spec => []SealedWhenClosed
<1>1. TypeInv /\ OwnerInv => SealedWhenClosed
  <2> SUFFICES ASSUME TypeInv, OwnerInv, closed
               PROVE  writes = <<>> /\ \A s \in Slots : ~used[s]
    BY DEF SealedWhenClosed
  <2>1. \A s \in Slots : ~used[s]
    BY DEF OwnerInv
  <2>2. \A k \in 1..Len(writes) : FALSE
    BY <2>1 DEF OwnerInv, NoOrphanWrites, IsOpen
  <2>3. writes \in Seq(WriteRequest)
    BY DEF TypeInv, RingsOK
  <2>4. Len(writes) = 0
    BY <2>2, <2>3
  <2> QED BY <2>1, <2>3, <2>4
<1> QED BY <1>1, Typed, OwnerInvHolds, PTL
-----------------------------------------------------------------------------
(***************************************************************************)
(* Objects under assembly.  Except for the bytes frame_pending is working  *)
(* through, everything buffered of an unfinished object has been scanned;  *)
(* so a pass of the outer loop that comes back for more finds room.        *)
(***************************************************************************)
Assembling(s) ==
  in_message(framer[s]) =>
    /\ scan[s] <= MaxMessageBytes
    /\ (pc = "frame" /\ s = cur) \/ scan[s] = Len(rx[s])

AssemblyInv ==
  /\ \A s \in Slots : Assembling(s)
  /\ pc = "fill" /\ took => data # <<>> /\ Len(rx[cur]) <= MaxMessageBytes

LEMMA ResetIsOutside == ~in_message(framer_reset)
BY DEF in_message, framer_reset

LEMMA InitAssembly == Init => AssemblyInv
<1> SUFFICES ASSUME Init PROVE AssemblyInv
  OBVIOUS
<1>1. \A s \in Slots : framer[s] = framer_reset
  BY DEF Init
<1>2. pc = "host"
  BY DEF Init
<1> QED BY <1>1, <1>2, ResetIsOutside DEF AssemblyInv, Assembling

(* A step that touches no buffer and runs outside frame_pending. *)
LEMMA AssemblySame ==
  ASSUME AssemblyInv, pc # "frame", UNCHANGED rxVars,
         pc' # "fill" \/ took' = FALSE
  PROVE  AssemblyInv'
BY DEF AssemblyInv, Assembling, rxVars

LEMMA HostAssembly ==
  ASSUME TypeInv, AssemblyInv, HostCall \/ Poll \/ Close
  PROVE  AssemblyInv'
<1>1. pc = "host"
  BY DEF HostCall, Poll, Close, OnConnectionOpened, OnConnectionClosed, OnBytes, SendPlayerInfo,
         SetPlayer, SendPlayerInfoAll, SetSessionState, Tick, PollWrite, PollEvent, Idle
<1>2. pc' # "fill" \/ took' = FALSE
  BY <1>1 DEF HostCall, Poll, Close, OnConnectionOpened, OnConnectionClosed, OnBytes,
              SendPlayerInfo, SetPlayer, SendPlayerInfoAll, SetSessionState, Tick, PollWrite,
              PollEvent, Announce, callVars
<1>3. ASSUME NEW c, NEW t, OnConnectionOpened(c, t) PROVE AssemblyInv'
  <2>1. PICK s \in Slots : /\ framer' = [framer EXCEPT ![s] = framer_reset]
                           /\ rx' = [rx EXCEPT ![s] = <<>>]
                           /\ scan' = [scan EXCEPT ![s] = 0]
    BY <1>3 DEF OnConnectionOpened
  <2>2. framer'[s] = framer_reset
        /\ \A r \in Slots : r # s => framer'[r] = framer[r] /\ rx'[r] = rx[r] /\ scan'[r] = scan[r]
    BY <2>1 DEF TypeInv, BufferOK
  <2>3. pc' = "host"
    BY <1>1, <1>3 DEF OnConnectionOpened, callVars
  <2> QED BY <1>1, <2>2, <2>3, ResetIsOutside DEF AssemblyInv, Assembling
<1>4. CASE UNCHANGED rxVars
  BY <1>1, <1>2, <1>4, AssemblySame
<1> QED BY <1>3, <1>4 DEF HostCall, Poll, Close, OnConnectionClosed, OnBytes, SendPlayerInfo,
           SetPlayer, SendPlayerInfoAll, SetSessionState, Tick, PollWrite, PollEvent

(* A step of frame_pending that works on cur's buffer alone. *)
LEMMA CurAssembly ==
  ASSUME TypeInv, AssemblyInv, pc = "frame",
         NEW f, NEW b, NEW n,
         framer' = [framer EXCEPT ![cur] = f], rx' = [rx EXCEPT ![cur] = b],
         scan' = [scan EXCEPT ![cur] = n],
         in_message(f) => /\ n <= MaxMessageBytes
                          /\ (pc' = "frame" /\ cur' = cur) \/ n = Len(b),
         pc' # "fill"
  PROVE  AssemblyInv'
<1>1. cur \in Slots
  BY DEF TypeInv, CallOK
<1>2. /\ framer'[cur] = f /\ rx'[cur] = b /\ scan'[cur] = n
      /\ \A r \in Slots : r # cur => framer'[r] = framer[r] /\ rx'[r] = rx[r] /\ scan'[r] = scan[r]
  BY <1>1 DEF TypeInv, BufferOK
<1> QED BY <1>1, <1>2 DEF AssemblyInv, Assembling

(* Coming back for more input, rx holds an object that still fits. *)
LEMMA FrameDoneAssembly ==
  ASSUME TypeInv, AssemblyInv, FrameDone PROVE AssemblyInv'
<1>1. cur \in Slots /\ scan[cur] = Len(rx[cur]) /\ pc = "frame"
  BY DEF FrameDone, TypeInv, CallOK
<1>2. /\ framer' = framer /\ rx' = [rx EXCEPT ![cur] = ObjectRx]
      /\ scan' = [scan EXCEPT ![cur] = ObjectScan]
  BY DEF FrameDone
<1>3. /\ rx'[cur] = ObjectRx /\ scan'[cur] = ObjectScan
      /\ \A r \in Slots : r # cur => rx'[r] = rx[r] /\ scan'[r] = scan[r]
  BY <1>1, <1>2 DEF TypeInv, BufferOK
<1>4. Len(ObjectRx) \in Nat /\ Len(ObjectRx) = ObjectScan
  BY <1>1, ObjectOK DEF TypeInv, BufferOK
<1>5. ObjectScan <= MaxMessageBytes
  BY <1>1, ServerAssumption DEF ObjectScan, AssemblyInv, Assembling
<1>6. \A s \in Slots : Assembling(s)'
  BY <1>1, <1>2, <1>3, <1>4, <1>5 DEF AssemblyInv, Assembling
<1>7. pc' = "fill" => data' # <<>> /\ Len(rx'[cur']) <= MaxMessageBytes
  BY <1>3, <1>4, <1>5 DEF FrameDone, Return
<1> QED BY <1>6, <1>7 DEF AssemblyInv

LEMMA CallStepAssembly ==
  ASSUME TypeInv, AssemblyInv, CallStep PROVE AssemblyInv'
<1>1. CASE FillRx
  <2>1. cur \in Slots /\ pc' = "frame" /\ UNCHANGED <<framer, scan, cur>> /\ pc = "fill"
    BY <1>1 DEF FillRx, TypeInv, CallOK
  <2>2. \A r \in Slots : r # cur => rx'[r] = rx[r]
    BY <1>1 DEF FillRx, TypeInv, BufferOK
  <2> QED BY <2>1, <2>2 DEF AssemblyInv, Assembling
<1>2. CASE SkipWhitespace
  <2>1. /\ pc = "frame" /\ UNCHANGED <<pc, framer, rx, cur>> /\ ~in_message(framer[cur])
        /\ scan' = [scan EXCEPT ![cur] = scan[cur] + 1] /\ cur \in Slots
    BY <1>2 DEF SkipWhitespace, Framing, callVars, TypeInv, CallOK
  <2>2. \A r \in Slots : r # cur => scan'[r] = scan[r]
    BY <2>1 DEF TypeInv, BufferOK
  <2> QED BY <2>1, <2>2 DEF AssemblyInv, Assembling
<1>3. CASE RefuseAndRetain
  <2>1. /\ pc = "frame" /\ pc' = "host" /\ ~in_message(framer[cur]) /\ UNCHANGED framer
        /\ rx' = [rx EXCEPT ![cur] = ObjectRx \o data] /\ scan' = [scan EXCEPT ![cur] = 0]
        /\ cur \in Slots
    BY <1>3 DEF RefuseAndRetain, Framing, MustRefuse, Return, TypeInv, CallOK
  <2>2. \A r \in Slots : r # cur => scan'[r] = scan[r] /\ rx'[r] = rx[r]
    BY <2>1 DEF TypeInv, BufferOK
  <2> QED BY <2>1, <2>2 DEF AssemblyInv, Assembling
<1>4. CASE RefuseAndLose \/ Garbage \/ TooLarge \/ BadJson
  <2>1. pc = "frame" /\ pc' = "host" /\ reset_rx(cur)
    BY <1>4 DEF RefuseAndLose, Garbage, TooLarge, BadJson, MayFeed, Framing, Discard, Return
  <2> QED BY <2>1, CurAssembly, ResetIsOutside DEF reset_rx
<1>5. CASE FeedByte
  <2>1. /\ pc = "frame" /\ pc' = "frame" /\ cur' = cur /\ ObjectScan + 1 <= MaxMessageBytes
        /\ framer' = [framer EXCEPT ![cur] = feed_state(framer[cur], NextByte)]
        /\ rx' = [rx EXCEPT ![cur] = ObjectRx]
        /\ scan' = [scan EXCEPT ![cur] = ObjectScan + 1]
    BY <1>5 DEF FeedByte, WithinBound, MayFeed, Framing
  <2> QED BY <2>1, CurAssembly
<1>6. ASSUME NEW m \in Messages, DeliverMessage(m) PROVE AssemblyInv'
  <2>1. /\ pc = "frame" /\ pc' = "frame" /\ cur' = cur
        /\ framer' = [framer EXCEPT ![cur] = feed_state(framer[cur], NextByte)]
        /\ rx' = [rx EXCEPT ![cur] = Drop(rx[cur], scan[cur] + 1)]
        /\ scan' = [scan EXCEPT ![cur] = 0]
    BY <1>6 DEF DeliverMessage, MayFeed, Framing
  <2>2. NextByte \in Byte /\ FramerOK(framer[cur]) /\ feed_step(framer[cur], NextByte) = "CLOSE"
    BY <1>6, NextByteOK DEF DeliverMessage, MayFeed, TypeInv, BufferOK, CallOK
  <2>3. feed_state(framer[cur], NextByte) = framer_reset
    BY <2>2, FeedStep
  <2> QED BY <2>1, <2>3, CurAssembly, ResetIsOutside
<1>7. CASE FrameDone
  BY <1>7, FrameDoneAssembly
<1>8. CASE AnnounceToSlot \/ TickSlot \/ CloseSlot
  <2>1. pc \in {"announce", "tick", "closing"} /\ UNCHANGED rxVars
    BY <1>8 DEF AnnounceToSlot, TickSlot, CloseSlot
  <2>2. pc' # "fill"
    BY <1>8, <2>1 DEF AnnounceToSlot, TickSlot, CloseSlot, NextSlot, Return
  <2> QED BY <2>1, <2>2, AssemblySame
<1> QED BY <1>1, <1>2, <1>3, <1>4, <1>5, <1>6, <1>7, <1>8 DEF CallStep

LEMMA AssemblyInvHolds == Spec => []AssemblyInv
<1>1. TypeInv /\ AssemblyInv /\ [Next]_vars => AssemblyInv'
  <2> SUFFICES ASSUME TypeInv, AssemblyInv, [Next]_vars PROVE AssemblyInv'
    OBVIOUS
  <2>1. CASE UNCHANGED vars
    BY <2>1 DEF vars, rxVars, callVars, AssemblyInv, Assembling
  <2> QED BY <2>1, HostAssembly, CallStepAssembly DEF Next
<1> QED BY <1>1, InitAssembly, Typed, PTL DEF Spec

(* Between calls an unfinished object is scanned to its last byte and fits *)
(* the bound, so the next read has room to go on.                          *)
THEOREM UnfinishedObjectsFit == Spec => []UnfinishedFits
<1>1. AssemblyInv => UnfinishedFits
  BY DEF AssemblyInv, Assembling, UnfinishedFits
<1> QED BY <1>1, AssemblyInvHolds, PTL
-----------------------------------------------------------------------------
(***************************************************************************)
(* Termination.  Unseen is what frame_pending has not looked at; every     *)
(* pass of its loop takes one byte off it, and FillRx moves bytes from the *)
(* heavier input to it.                                                    *)
(***************************************************************************)
Unseen == Len(rx[cur]) - scan[cur]

(* Inside on_bytes the work left is a sum of three naturals. *)
LEMMA WorkInBytes ==
  ASSUME TypeInv, pc \in {"fill", "frame"}
  PROVE  /\ Len(data) \in Nat /\ Unseen \in Nat
         /\ pc = "fill" => WorkLeft = 3 * Len(data) + Unseen + 1
         /\ pc = "frame" => WorkLeft = 3 * Len(data) + Unseen + (IF took THEN 2 ELSE 0)
         /\ WorkLeft \in Nat
<1>1. Len(data) \in Nat
  BY DEF TypeInv, CallOK
<1>2. Unseen \in Nat
  BY DEF TypeInv, CallOK, BufferOK, Unseen
<1>3. WorkLeft = 3 * Len(data) + Unseen
                   + (IF pc = "fill" THEN 1 ELSE IF took THEN 2 ELSE 0)
  BY DEF WorkLeft, Unseen
<1> HIDE DEF Unseen
<1> QED BY <1>1, <1>2, <1>3

(* A pass of frame_pending that leaves the input alone and has seen one    *)
(* byte more.                                                              *)
LEMMA OneByteLess ==
  ASSUME TypeInv, TypeInv', pc = "frame", pc' = "frame",
         UNCHANGED <<data, took>>, Unseen' = Unseen - 1
  PROVE  WorkLeft' \in 0..(WorkLeft - 1)
<1>1. /\ Len(data) \in Nat /\ Unseen \in Nat /\ WorkLeft \in Nat
      /\ WorkLeft = 3 * Len(data) + Unseen + (IF took THEN 2 ELSE 0)
  BY WorkInBytes
<1>2. WorkLeft' = 3 * Len(data') + Unseen' + (IF took' THEN 2 ELSE 0)
  BY DEF WorkLeft, Unseen
<1>3. Unseen' \in Nat
  BY DEF TypeInv, CallOK, BufferOK, Unseen
<1> QED BY <1>1, <1>2, <1>3

LEMMA FillWork ==
  ASSUME TypeInv, TypeInv', FillRx PROVE WorkLeft' \in 0..(WorkLeft - 1)
<1> DEFINE take == Least(RxCapacity - Len(rx[cur]), Len(data))
<1>1. /\ pc = "fill" /\ pc' = "frame" /\ UNCHANGED <<scan, cur>>
      /\ rx' = [rx EXCEPT ![cur] = rx[cur] \o SubSeq(data, 1, take)]
      /\ data' = Drop(data, take) /\ took' = (take > 0)
  BY DEF FillRx
<1>2. /\ rx[cur] \in Seq(Byte) /\ Len(rx[cur]) <= RxCapacity /\ scan[cur] \in Nat
      /\ data \in Seq(Byte) /\ cur \in Slots
  BY DEF TypeInv, CallOK, BufferOK
<1>3. take \in 0..Len(data)
  <2>1. Len(data) \in Nat /\ Len(rx[cur]) \in Nat /\ RxCapacity \in Nat
    BY <1>2, ServerAssumption DEF RxCapacity
  <2>2. RxCapacity - Len(rx[cur]) \in Nat
    BY <1>2, <2>1
  <2> QED BY <2>1, <2>2 DEF Least
<1> HIDE DEF take
<1>4. Len(data') = Len(data) - take /\ Len(SubSeq(data, 1, take)) = take
      /\ SubSeq(data, 1, take) \in Seq(Byte)
  BY <1>1, <1>2, <1>3, CutOK
<1>5. rx'[cur'] = rx[cur] \o SubSeq(data, 1, take)
  BY <1>1, <1>2 DEF TypeInv, BufferOK
<1>6. Len(rx'[cur']) = Len(rx[cur]) + take
  BY <1>2, <1>4, <1>5
<1>7. Unseen' = Unseen + take
  BY <1>1, <1>2, <1>3, <1>6 DEF Unseen
<1>8. Len(data) \in Nat /\ Unseen \in Nat /\ WorkLeft = 3 * Len(data) + Unseen + 1
  BY <1>1, WorkInBytes
<1>9. WorkLeft' = 3 * Len(data') + Unseen' + (IF take > 0 THEN 2 ELSE 0)
  BY <1>1 DEF WorkLeft, Unseen
<1> QED BY <1>3, <1>4, <1>7, <1>8, <1>9

(* A pass of frame_pending that stays in its loop sees one byte. *)
LEMMA SeenOneByte ==
  ASSUME TypeInv, SkipWhitespace \/ FeedByte \/ \E m \in Messages : DeliverMessage(m)
  PROVE  Unseen' = Unseen - 1
<1>1. UNCHANGED cur /\ scan[cur] < Len(rx[cur])
  BY DEF SkipWhitespace, FeedByte, DeliverMessage, MayFeed, Framing, callVars
<1>2. /\ rx \in [Slots -> Seq(Byte)] /\ scan \in [Slots -> Nat] /\ cur \in Slots
      /\ rx[cur] \in Seq(Byte) /\ scan[cur] \in Nat /\ Len(rx[cur]) \in Nat
  BY DEF TypeInv, CallOK, BufferOK
<1>3. CASE SkipWhitespace
  <2>1. rx' = rx /\ scan'[cur] = scan[cur] + 1
    BY <1>2, <1>3 DEF SkipWhitespace
  <2> QED BY <1>1, <1>2, <2>1 DEF Unseen
<1>4. CASE FeedByte
  <2>1. rx'[cur] = ObjectRx /\ scan'[cur] = ObjectScan + 1
    BY <1>2, <1>4 DEF FeedByte
  <2>2. /\ ObjectRx \in Seq(Byte) /\ ObjectScan \in Nat
        /\ Len(ObjectRx) - ObjectScan = Len(rx[cur]) - scan[cur]
    BY ObjectOK DEF TypeInv
  <2>3. Len(ObjectRx) - (ObjectScan + 1) = Len(rx[cur]) - scan[cur] - 1
    BY <1>2, <2>2
  <2> QED BY <1>1, <2>1, <2>3 DEF Unseen
<1>5. CASE \E m \in Messages : DeliverMessage(m)
  <2>1. rx'[cur] = Drop(rx[cur], scan[cur] + 1) /\ scan'[cur] = 0
    BY <1>2, <1>5 DEF DeliverMessage
  <2>2. scan[cur] + 1 \in 0..Len(rx[cur])
    BY <1>1, <1>2
  <2>3. Len(rx'[cur]) = Len(rx[cur]) - (scan[cur] + 1)
    BY <1>2, <2>1, <2>2, CutOK
  <2> QED BY <1>1, <1>2, <2>1, <2>3 DEF Unseen
<1> QED BY <1>3, <1>4, <1>5

LEMMA FrameWork ==
  ASSUME TypeInv, TypeInv', SkipWhitespace \/ FeedByte \/ \E m \in Messages : DeliverMessage(m)
  PROVE  WorkLeft' \in 0..(WorkLeft - 1)
<1>1. pc = "frame" /\ pc' = "frame" /\ UNCHANGED <<data, took>>
  BY DEF SkipWhitespace, FeedByte, DeliverMessage, MayFeed, Framing, callVars
<1> QED BY <1>1, SeenOneByte, OneByteLess

(* frame_pending is called again only after a pass that copied something. *)
LEMMA FrameDoneWork ==
  ASSUME TypeInv, FrameDone PROVE pc' = "host" \/ WorkLeft' \in 0..(WorkLeft - 1)
<1> SUFFICES ASSUME data # <<>>, took PROVE WorkLeft' \in 0..(WorkLeft - 1)
  BY DEF FrameDone, Return
<1>1. /\ pc = "frame" /\ pc' = "fill" /\ UNCHANGED <<data, took, cur>>
      /\ scan[cur] = Len(rx[cur])
      /\ rx' = [rx EXCEPT ![cur] = ObjectRx] /\ scan' = [scan EXCEPT ![cur] = ObjectScan]
  BY DEF FrameDone
<1>2. /\ rx'[cur] = ObjectRx /\ scan'[cur] = ObjectScan
  BY <1>1 DEF TypeInv, CallOK, BufferOK
<1>3. Len(ObjectRx) - ObjectScan = Len(rx[cur]) - scan[cur]
  BY ObjectOK DEF TypeInv
<1>4. Unseen' = Unseen
  BY <1>1, <1>2, <1>3 DEF Unseen
<1>5. /\ Len(data) \in Nat /\ Unseen \in Nat
      /\ WorkLeft = 3 * Len(data) + Unseen + (IF took THEN 2 ELSE 0)
  BY <1>1, WorkInBytes
<1>6. WorkLeft' = 3 * Len(data') + Unseen' + 1
  BY <1>1 DEF WorkLeft, Unseen
<1> QED BY <1>1, <1>4, <1>5, <1>6

(* The loops over the connection table. *)
LEMMA TableWork ==
  ASSUME TypeInv, AnnounceToSlot \/ TickSlot \/ CloseSlot
  PROVE  WorkLeft \in Nat /\ (pc' = "host" \/ WorkLeft' \in 0..(WorkLeft - 1))
<1>1. pc \in {"announce", "tick", "closing"} /\ NextSlot
  BY DEF AnnounceToSlot, TickSlot, CloseSlot
<1>2. cur \in 1..MaxConnections /\ MaxConnections \in Nat
  BY ServerAssumption DEF TypeInv, CallOK, Slots
<1>3. WorkLeft = MaxConnections - cur
  BY <1>1 DEF WorkLeft
<1>4. CASE cur = MaxConnections
  BY <1>1, <1>2, <1>3, <1>4 DEF NextSlot, Return
<1>5. CASE cur # MaxConnections
  <2>1. cur' = cur + 1 /\ pc' = pc
    BY <1>1, <1>5 DEF NextSlot
  <2>2. WorkLeft' = MaxConnections - (cur + 1)
    BY <1>1, <2>1 DEF WorkLeft
  <2> QED BY <1>2, <1>3, <1>5, <2>2
<1> QED BY <1>4, <1>5

(* Every call ends: no input, buffer content or ring makes one of the      *)
(* library's loops run for ever.                                           *)
THEOREM CallsTerminate == Spec => EveryCallEnds
<1>1. ASSUME TypeInv, TypeInv', [Next]_vars
      PROVE  [CallStep => /\ WorkLeft \in Nat
                          /\ pc' = "host" \/ WorkLeft' \in 0..(WorkLeft - 1)]_vars
  <2> SUFFICES ASSUME CallStep
               PROVE  WorkLeft \in Nat /\ (pc' = "host" \/ WorkLeft' \in 0..(WorkLeft - 1))
    OBVIOUS
  <2>1. CASE FillRx
    <3>1. pc = "fill"
      BY <2>1 DEF FillRx
    <3> QED BY <1>1, <2>1, <3>1, FillWork, WorkInBytes
  <2>2. CASE SkipWhitespace \/ FeedByte \/ \E m \in Messages : DeliverMessage(m)
    <3>1. pc = "frame"
      BY <2>2 DEF SkipWhitespace, FeedByte, DeliverMessage, MayFeed, Framing
    <3> QED BY <1>1, <2>2, <3>1, FrameWork, WorkInBytes
  <2>3. CASE RefuseAndRetain \/ RefuseAndLose \/ Garbage \/ TooLarge \/ BadJson
    <3>1. pc = "frame" /\ pc' = "host"
      BY <2>3 DEF RefuseAndRetain, RefuseAndLose, Garbage, TooLarge, BadJson, MayFeed, Framing,
                  Discard, Return
    <3> QED BY <1>1, <3>1, WorkInBytes
  <2>4. CASE FrameDone
    <3>1. pc = "frame"
      BY <2>4 DEF FrameDone
    <3> QED BY <1>1, <2>4, <3>1, FrameDoneWork, WorkInBytes
  <2>5. CASE AnnounceToSlot \/ TickSlot \/ CloseSlot
    BY <1>1, <2>5, TableWork
  <2> QED BY <2>1, <2>2, <2>3, <2>4, <2>5 DEF CallStep
<1> QED BY <1>1, Typed, PTL DEF Spec, EveryCallEnds
-----------------------------------------------------------------------------
(***************************************************************************)
(* The order of one connection's writes.  Longer(old, new) says that new   *)
(* is old with entries added at its end.                                   *)
(***************************************************************************)
Longer(old, new) ==
  /\ old \in Seq(WriteRequest) /\ new \in Seq(WriteRequest)
  /\ Len(old) <= Len(new)
  /\ \A k \in 1..Len(old) : new[k] = old[k]

LEMMA LongerIsPrefix ==
  ASSUME NEW old, NEW new, Longer(old, new)
  PROVE  Len(new) >= Len(old) /\ SubSeq(new, 1, Len(old)) = old
<1>1. /\ old \in Seq(WriteRequest) /\ new \in Seq(WriteRequest) /\ Len(old) <= Len(new)
      /\ \A k \in 1..Len(old) : new[k] = old[k]
  BY DEF Longer
<1> DEFINE r == SubSeq(new, 1, Len(old))
<1>2. r \in Seq(WriteRequest) /\ Len(r) = Len(old) /\ \A k \in 1..Len(r) : r[k] = new[k]
  BY <1>1
<1> HIDE DEF r
<1>3. r = old
  BY <1>1, <1>2, SeqEqual
<1> QED BY <1>1, <1>3 DEF r

LEMMA LongerTwice ==
  ASSUME NEW a, NEW b, NEW c, Longer(a, b), Longer(b, c) PROVE Longer(a, c)
<1>1. Len(a) \in Nat /\ Len(b) \in Nat /\ Len(c) \in Nat
  BY DEF Longer
<1>2. \A k \in 1..Len(a) : k \in 1..Len(b)
  BY <1>1 DEF Longer
<1> QED BY <1>1, <1>2 DEF Longer

LEMMA WritesForOK ==
  ASSUME NEW w \in Seq(WriteRequest), NEW c PROVE WritesFor(w, c) \in Seq(WriteRequest)
BY KeptEntries DEF WritesFor

LEMMA LongerSame ==
  ASSUME NEW w \in Seq(WriteRequest), NEW c PROVE Longer(WritesFor(w, c), WritesFor(w, c))
<1> DEFINE r == WritesFor(w, c)
<1>1. r \in Seq(WriteRequest)
  BY WritesForOK
<1> HIDE DEF r
<1>2. Longer(r, r)
  BY <1>1 DEF Longer
<1> QED BY <1>2 DEF r

(* queue_write adds to one connection's part and leaves the others alone. *)
LEMMA QueueWriteLonger ==
  ASSUME NEW w \in Seq(WriteRequest), NEW d \in ConnIds, NEW code \in Codes, NEW body \in Body,
         NEW c
  PROVE  Longer(WritesFor(w, c), WritesFor(queue_write(w, d, code, body), c))
<1> DEFINE x == [conn |-> d, code |-> code, body |-> body]
           r == WritesFor(w, c)
<1>1. x \in WriteRequest
  BY DEF WriteRequest
<1> HIDE DEF x
<1>2. CASE can_queue(w, code)
  <2>1. queue_write(w, d, code, body) = Append(w, x)
    BY <1>2 DEF queue_write, x
  <2>2. /\ r \in Seq(WriteRequest)
        /\ WritesFor(Append(w, x), c) = r \/ WritesFor(Append(w, x), c) = Append(r, x)
    BY <1>1, KeptAppend DEF WritesFor
  <2> HIDE DEF r
  <2>3. Longer(r, r) /\ Longer(r, Append(r, x))
    BY <1>1, <2>2 DEF Longer
  <2> QED BY <2>1, <2>2, <2>3 DEF r
<1>3. CASE ~can_queue(w, code)
  BY <1>3, LongerSame DEF queue_write
<1> QED BY <1>2, <1>3

(* What the three disjuncts of WritesKeepTheirPlace say of a step, for one *)
(* connection.                                                             *)
Keeps(c) ==
  LET old == WritesFor(writes, c)
      new == WritesFor(writes', c)
  IN  \/ new = <<>> /\ ~IsOpen(c)'
      \/ old # <<>> /\ new = Tail(old) /\ Len(writes') = Len(writes) - 1
      \/ Len(new) >= Len(old) /\ SubSeq(new, 1, Len(old)) = old

LEMMA AddedKeeps ==
  ASSUME NEW c, Longer(WritesFor(writes, c), WritesFor(writes', c)) PROVE Keeps(c)
BY LongerIsPrefix DEF Keeps

LEMMA SameKeeps ==
  ASSUME writes \in Seq(WriteRequest), NEW c, WritesFor(writes', c) = WritesFor(writes, c)
  PROVE  Keeps(c)
BY LongerSame, AddedKeeps

(* A connection is closed only with its writes, and with no other's. *)
LEMMA SlotClosedKeeps ==
  ASSUME TypeInv, NoOrphanWrites, NEW s \in Slots, used[s],
         used' = [used EXCEPT ![s] = FALSE], UNCHANGED info,
         writes' = drop_writes_for(writes, info[s].conn), NEW c
  PROVE  Keeps(c)
<1>1. writes \in Seq(WriteRequest) /\ used \in [Slots -> BOOLEAN]
  BY DEF TypeInv, RingsOK, TableOK
<1>2. WritesFor(writes', c) = IF c = info[s].conn THEN <<>> ELSE WritesFor(writes, c)
  BY <1>1, DropKeepsOthers
<1>3. CASE c = info[s].conn
  <2>1. ~IsOpen(c)'
    BY <1>1, <1>3 DEF IsOpen, NoOrphanWrites
  <2> QED BY <1>2, <1>3, <2>1 DEF Keeps
<1>4. CASE c # info[s].conn
  BY <1>1, <1>2, <1>4, SameKeeps
<1> QED BY <1>3, <1>4

(* poll_writes holds back by connection: what it takes is the first entry  *)
(* of its connection, since an earlier one would be held or taken with it. *)
LEMMA PolledIsFirst ==
  ASSUME TypeInv, PollWrite
  PROVE  \E i \in 1..Len(writes) :
           /\ writes' = RemoveEntry(writes, i)
           /\ ~Held(writes[i])
           /\ \A j \in 1..(i - 1) : writes[j].conn # writes[i].conn
<1>1. PICK i \in 1..Len(writes) :
        /\ ~Held(writes[i]) /\ \A j \in 1..(i - 1) : Held(writes[j])
        /\ writes' = RemoveEntry(writes, i)
  BY DEF PollWrite
<1>2. ASSUME NEW j \in 1..(i - 1), writes[j].conn = writes[i].conn PROVE FALSE
  BY <1>1, <1>2 DEF Held
<1> QED BY <1>1, <1>2

LEMMA PollKeeps ==
  ASSUME TypeInv, PollWrite, NEW c PROVE Keeps(c)
<1>1. writes \in Seq(WriteRequest)
  BY DEF TypeInv, RingsOK
<1>2. PICK i \in 1..Len(writes) :
        /\ writes' = RemoveEntry(writes, i)
        /\ \A j \in 1..(i - 1) : writes[j].conn # writes[i].conn
  BY PolledIsFirst
<1>3. IF writes[i].conn = c
      THEN WritesFor(writes, c) # <<>> /\ WritesFor(writes', c) = Tail(WritesFor(writes, c))
      ELSE WritesFor(writes', c) = WritesFor(writes, c)
  BY <1>1, <1>2, RemoveFirstOf
<1>4. Len(writes') = Len(writes) - 1
  BY <1>1, <1>2, RemoveEntryKeeps
<1>5. CASE writes[i].conn = c
  BY <1>3, <1>4, <1>5 DEF Keeps
<1>6. CASE writes[i].conn # c
  BY <1>1, <1>3, <1>6, SameKeeps
<1> QED BY <1>5, <1>6

(* on_connection_opened queues up to two writes, one after the other. *)
LEMMA OpenedKeeps ==
  ASSUME TypeInv, NEW d \in ConnIds, NEW t, OnConnectionOpened(d, t), NEW c
  PROVE  Keeps(c)
<1> DEFINE tellPlayer == AnnouncePlayer /\ player_set /\ player_has_anything(player)
           tellReady  == AnnounceReady /\ session = "ACTIVE"
           w2 == IF tellPlayer THEN queue_write(writes, d, 201, player) ELSE writes
           w3 == IF tellReady THEN queue_write(w2, d, 202, Unknown) ELSE w2
<1>1. writes' = w3
  BY DEF OnConnectionOpened
<1>2. writes \in Seq(WriteRequest) /\ player \in Body
  BY DEF TypeInv, RingsOK, HostOK, Body
<1>3. w2 \in Seq(WriteRequest)
  BY <1>2, CodesOK, QueueWriteOK
<1>4. Longer(WritesFor(writes, c), WritesFor(w2, c))
  BY <1>2, CodesOK, QueueWriteLonger, LongerSame
<1> HIDE DEF w2, tellReady
<1>5. Longer(WritesFor(w2, c), WritesFor(w3, c))
  BY <1>3, CodesOK, QueueWriteLonger, LongerSame
<1> HIDE DEF w3
<1> QED BY <1>1, <1>4, <1>5, LongerTwice, AddedKeeps

(* One write queued, or none. *)
LEMMA QueuedKeeps ==
  ASSUME TypeInv, NEW d \in ConnIds, NEW code \in Codes, NEW body \in Body,
         writes' = queue_write(writes, d, code, body), NEW c
  PROVE  Keeps(c)
<1>1. writes \in Seq(WriteRequest)
  BY DEF TypeInv, RingsOK
<1> QED BY <1>1, QueueWriteLonger, AddedKeeps

LEMMA HostCallKeeps ==
  ASSUME TypeInv, OwnerInv, HostCall, writes' # writes, NEW c PROVE Keeps(c)
<1>1. ASSUME NEW d \in ConnIds, NEW t, OnConnectionOpened(d, t) PROVE Keeps(c)
  BY <1>1, OpenedKeeps
<1>2. ASSUME NEW d \in ConnIds, NEW t, OnConnectionClosed(d, t) PROVE Keeps(c)
  <2>1. find_conn(d) \in Slots /\ used[find_conn(d)] /\ info[find_conn(d)].conn = d
    BY <1>2, FindConn DEF OnConnectionClosed
  <2> QED BY <1>2, <2>1, SlotClosedKeeps DEF OnConnectionClosed, OwnerInv
<1>3. ASSUME NEW d \in ConnIds, NEW p \in PlayerArgs, NEW t, SendPlayerInfo(d, p, t)
      PROVE  Keeps(c)
  <2>1. writes' = queue_write(writes, d, 201, p) /\ p \in Body
    BY <1>3, ArgsArePlayers DEF SendPlayerInfo, TypeInv
  <2> QED BY <2>1, CodesOK, QueuedKeeps
<1> QED BY <1>1, <1>2, <1>3
    DEF HostCall, OnBytes, SetPlayer, SendPlayerInfoAll, SetSessionState, Tick

LEMMA CallStepKeeps ==
  ASSUME TypeInv, OwnerInv, CallStep, writes' # writes, NEW c PROVE Keeps(c)
<1>1. ASSUME CloseSlot PROVE Keeps(c)
  <2>1. used[cur] /\ cur \in Slots
    BY <1>1 DEF CloseSlot, TypeInv, CallOK
  <2> QED BY <1>1, <2>1, SlotClosedKeeps DEF CloseSlot, OwnerInv
<1>2. ASSUME AnnounceToSlot PROVE Keeps(c)
  <2>1. used[cur] /\ writes' = queue_write(writes, info[cur].conn, item.code, item.body)
    BY <1>2 DEF AnnounceToSlot
  <2>2. item.code \in Codes /\ item.body \in Body
    BY DEF TypeInv, CallOK, Codes
  <2> QED BY <2>1, <2>2, CurConn, QueuedKeeps
<1>3. ASSUME NEW m \in Messages, DeliverMessage(m) PROVE Keeps(c)
  <2>1. PICK code \in Codes : writes' = queue_write(writes, info[cur].conn, code, Unknown)
    <3>1. writes' = queue_write(writes, info[cur].conn,
                                IF RejectIncomplete /\ m.incomplete THEN 501 ELSE 200, Unknown)
      BY <1>3 DEF DeliverMessage
    <3> QED BY <3>1, CodesOK
  <2>2. used[cur]
    BY <1>3 DEF DeliverMessage, MayFeed, Framing, TypeInv, CallOK
  <2> QED BY <2>1, <2>2, CodesOK, CurConn, QueuedKeeps
<1>4. ASSUME Garbage \/ TooLarge \/ BadJson PROVE Keeps(c)
  <2>1. writes' = queue_write(writes, info[cur].conn, 501, Unknown) /\ pc = "frame"
    BY <1>4 DEF Garbage, TooLarge, BadJson, Discard, protocol_error, MayFeed, Framing
  <2>2. used[cur]
    BY <2>1 DEF TypeInv, CallOK
  <2> QED BY <2>1, <2>2, CodesOK, CurConn, QueuedKeeps
<1> QED BY <1>1, <1>2, <1>3, <1>4
    DEF CallStep, FillRx, SkipWhitespace, RefuseAndRetain, RefuseAndLose, FeedByte, FrameDone,
        TickSlot

(* A connection's writes leave in the order they entered, and only its own *)
(* close takes them away unsent.                                           *)
THEOREM WritesStayInOrder == Spec => WritesKeepTheirPlace
<1>1. ASSUME TypeInv, OwnerInv, [Next]_vars
      PROVE  [\A c \in ConnIds : Keeps(c)]_writes
  <2> SUFFICES ASSUME writes' # writes, NEW c \in ConnIds PROVE Keeps(c)
    OBVIOUS
  <2>1. HostCall \/ Poll \/ CallStep
    BY <1>1 DEF Next, Close, vars
  <2>2. CASE Poll
    BY <1>1, <2>2, PollKeeps DEF Poll, PollEvent
  <2> QED BY <1>1, <2>1, <2>2, HostCallKeeps, CallStepKeeps
<1>2. [\A c \in ConnIds : Keeps(c)]_writes =>
        [\A c \in ConnIds :
           LET old == WritesFor(writes, c)
               new == WritesFor(writes', c)
           IN  \/ new = <<>> /\ ~IsOpen(c)'
               \/ old # <<>> /\ new = Tail(old) /\ Len(writes') = Len(writes) - 1
               \/ Len(new) >= Len(old) /\ SubSeq(new, 1, Len(old)) = old]_writes
  BY Zenon DEF Keeps
<1> QED BY <1>1, <1>2, Typed, OwnerInvHolds, PTL DEF Spec, WritesKeepTheirPlace
-----------------------------------------------------------------------------
(***************************************************************************)
(* The clock.  A poll leaves next_write a full spacing ahead of polled_at, *)
(* and no slot is ever held back for longer than one spacing from now: so  *)
(* with the spacing off nothing is held back at all.                       *)
(***************************************************************************)
SpacingInv ==
  \A s \in Slots :
    /\ polled_at[s] # TimeUnknown => polled_at[s] + WriteSpacing <= next_write[s]
    /\ next_write[s] <= now + WriteSpacing

LEMMA InitSpacing == Init => SpacingInv
BY ServerAssumption DEF Init, SpacingInv

(* Time passes and no slot's deadline moves. *)
LEMMA SpacingSame ==
  ASSUME TypeInv, SpacingInv, UNCHANGED <<next_write, polled_at>>, now' \in Times, now <= now'
  PROVE  SpacingInv'
<1>1. /\ next_write \in [Slots -> 0..(MaxNow + WriteSpacing)] /\ now \in Times
      /\ polled_at \in [Slots -> Times \cup {TimeUnknown}]
  BY DEF TypeInv, TableOK, HostOK
<1>2. MaxNow \in Nat /\ WriteSpacing \in Nat
  BY ServerAssumption
<1> QED BY <1>1, <1>2 DEF SpacingInv, Times

LEMMA HostCallSpacing == ASSUME TypeInv, SpacingInv, HostCall PROVE SpacingInv'
<1>1. PICK t \in now..MaxNow :
        \/ \E c \in ConnIds : \/ OnConnectionOpened(c, t)
                              \/ OnConnectionClosed(c, t)
                              \/ \E d \in Reads : OnBytes(c, d, t)
                              \/ \E p \in PlayerArgs : SendPlayerInfo(c, p, t)
        \/ \E p \in PlayerInputs : SetPlayer(p, t)
        \/ \E p \in PlayerArgs : SendPlayerInfoAll(p, t)
        \/ \E state \in SessionInputs : SetSessionState(state, t)
        \/ Tick(t)
  BY DEF HostCall
<1>2. /\ next_write \in [Slots -> 0..(MaxNow + WriteSpacing)] /\ now \in Times
      /\ polled_at \in [Slots -> Times \cup {TimeUnknown}]
      /\ MaxNow \in Nat /\ WriteSpacing \in Nat
  BY ServerAssumption DEF TypeInv, TableOK, HostOK
<1>3. now' = t /\ t \in Times /\ now <= t
  BY <1>1, <1>2 DEF OnConnectionOpened, OnConnectionClosed, OnBytes, SendPlayerInfo, SetPlayer,
                    SendPlayerInfoAll, SetSessionState, Tick, Times
<1>4. CASE \E c \in ConnIds : OnConnectionOpened(c, t)
  <2>1. PICK s \in Slots : /\ next_write' = [next_write EXCEPT ![s] = t]
                           /\ polled_at' = [polled_at EXCEPT ![s] = TimeUnknown]
    BY <1>4 DEF OnConnectionOpened
  <2> SUFFICES ASSUME NEW r \in Slots
               PROVE  /\ polled_at'[r] # TimeUnknown => polled_at'[r] + WriteSpacing <= next_write'[r]
                      /\ next_write'[r] <= now' + WriteSpacing
    BY DEF SpacingInv
  <2>2. CASE r = s
    BY <1>2, <1>3, <2>1, <2>2 DEF Times
  <2>3. CASE r # s
    <3>1. next_write'[r] = next_write[r] /\ polled_at'[r] = polled_at[r]
      BY <1>2, <2>1, <2>3
    <3> QED BY <1>2, <1>3, <3>1 DEF SpacingInv, Times
  <2> QED BY <2>2, <2>3
<1>5. CASE UNCHANGED <<next_write, polled_at>>
  BY <1>3, <1>5, SpacingSame
<1> QED BY <1>1, <1>4, <1>5
    DEF OnConnectionClosed, OnBytes, SendPlayerInfo, SetPlayer, SendPlayerInfoAll,
        SetSessionState, Tick, connVars

LEMMA PollSpacing == ASSUME TypeInv, SpacingInv, PollWrite PROVE SpacingInv'
<1>1. /\ next_write \in [Slots -> 0..(MaxNow + WriteSpacing)] /\ now \in Times
      /\ polled_at \in [Slots -> Times \cup {TimeUnknown}]
      /\ MaxNow \in Nat /\ WriteSpacing \in Nat /\ UNCHANGED now
  BY ServerAssumption DEF TypeInv, TableOK, HostOK, PollWrite
<1>2. CASE UNCHANGED <<polled_at, next_write>>
  BY <1>1, <1>2 DEF SpacingInv
<1>3. ASSUME NEW s, polled_at' = [polled_at EXCEPT ![s] = now],
             next_write' = [next_write EXCEPT ![s] = now + WriteSpacing]
      PROVE  SpacingInv'
  <2> SUFFICES ASSUME NEW r \in Slots
               PROVE  /\ polled_at'[r] # TimeUnknown => polled_at'[r] + WriteSpacing <= next_write'[r]
                      /\ next_write'[r] <= now' + WriteSpacing
    BY DEF SpacingInv
  <2>1. CASE r = s
    BY <1>1, <1>3, <2>1 DEF Times
  <2>2. CASE r # s
    <3>1. next_write'[r] = next_write[r] /\ polled_at'[r] = polled_at[r]
      BY <1>1, <1>3, <2>2
    <3> QED BY <1>1, <3>1 DEF SpacingInv
  <2> QED BY <2>1, <2>2
<1> QED BY <1>2, <1>3 DEF PollWrite

LEMMA SpacingInvHolds == Spec => []SpacingInv
<1>1. TypeInv /\ SpacingInv /\ [Next]_vars => SpacingInv'
  <2> SUFFICES ASSUME TypeInv, SpacingInv, [Next]_vars PROVE SpacingInv'
    OBVIOUS
  <2>1. CASE PollEvent \/ Close \/ CallStep \/ UNCHANGED vars
    <3>1. UNCHANGED <<next_write, polled_at, now>>
      BY <2>1 DEF PollEvent, Close, CallStep, FillRx, SkipWhitespace, RefuseAndRetain,
                  RefuseAndLose, Garbage, FeedByte, TooLarge, BadJson, Discard, DeliverMessage,
                  FrameDone, AnnounceToSlot, TickSlot, CloseSlot, vars, connVars
    <3>2. now \in Times /\ now <= now
      BY ServerAssumption DEF TypeInv, HostOK, Times
    <3> QED BY <3>1, <3>2, SpacingSame
  <2> QED BY <2>1, HostCallSpacing, PollSpacing DEF Next, Poll
<1> QED BY <1>1, InitSpacing, Typed, PTL DEF Spec

(* Two writes handed to the host for one connection are at least           *)
(* write_spacing_us apart, however calls and polls interleave.             *)
THEOREM WritesAreSpaced == Spec => SpacingKept
<1>1. ASSUME TypeInv, OwnerInv, SpacingInv
      PROVE  [\A s \in Slots :
                /\ PollWrite
                /\ used[s]
                /\ WritesFor(writes', info[s].conn) # WritesFor(writes, info[s].conn)
                => polled_at[s] = TimeUnknown \/ now - polled_at[s] >= WriteSpacing]_writes
  <2> SUFFICES ASSUME NEW s \in Slots, PollWrite, used[s], polled_at[s] # TimeUnknown,
                      WritesFor(writes', info[s].conn) # WritesFor(writes, info[s].conn)
               PROVE  now - polled_at[s] >= WriteSpacing
    OBVIOUS
  <2>1. /\ next_write \in [Slots -> 0..(MaxNow + WriteSpacing)] /\ now \in Times
        /\ polled_at \in [Slots -> Times \cup {TimeUnknown}]
        /\ MaxNow \in Nat /\ WriteSpacing \in Nat /\ writes \in Seq(WriteRequest)
    BY <1>1, ServerAssumption DEF TypeInv, TableOK, HostOK, RingsOK
  <2>2. PICK i \in 1..Len(writes) :
          /\ writes' = RemoveEntry(writes, i)
          /\ ~Held(writes[i])
          /\ \A j \in 1..(i - 1) : writes[j].conn # writes[i].conn
    BY <1>1, PolledIsFirst
  <2>3. writes[i].conn = info[s].conn
    BY <2>1, <2>2, RemoveFirstOf
  <2>4. IsOpen(writes[i].conn)
    BY <2>3 DEF IsOpen
  <2>5. find_conn(writes[i].conn) = s
    BY <1>1, <2>3, <2>4, FindConn DEF OwnerInv, NoOrphanWrites
  <2>6. ~(now < next_write[s])
    BY <2>2, <2>4, <2>5 DEF Held
  <2>7. polled_at[s] + WriteSpacing <= next_write[s]
    BY <1>1 DEF SpacingInv
  <2> QED BY <2>1, <2>6, <2>7 DEF Times
<1> QED BY <1>1, Typed, OwnerInvHolds, SpacingInvHolds, PTL DEF SpacingKept

(* The earliest of the deadlines next_due_us looks at is one of them. *)
LEMMA EarliestIsOne ==
  ASSUME NEW D, D \subseteq Nat, D # {}
  PROVE  LET d == CHOOSE d \in D : \A x \in D : d <= x
         IN  d \in D /\ \A x \in D : d <= x
<1>1. \E d \in D : \A x \in D : d <= x
  BY LeastNat
<1> QED BY <1>1, Zenon

(* A host that sleeps until next_due_us misses nothing and is not woken    *)
(* for nothing.                                                            *)
THEOREM DueTimeExact == Spec => []DueIsExact
<1>1. ASSUME TypeInv, OwnerInv, SpacingInv, pc = "host", ~closed
      PROVE  LET d == next_due_us
             IN  /\ \A t \in now..(d - 1) : ~IdleAt(t) /\ ~ReleasedAt(t)
                 /\ d # TimeNever => IdleAt(d) \/ ReleasedAt(d)
  <2> DEFINE open  == {s \in Slots : used[s]}
             held  == {s \in open : WriteSpacing > 0 /\ next_write[s] > now /\ HasWrite(s)}
             cands == {TimeNever} \cup {idle_deadline(s) : s \in open}
                                  \cup {next_write[s] : s \in held}
             d     == next_due_us
  <2>1. /\ next_write \in [Slots -> 0..(MaxNow + WriteSpacing)] /\ now \in Times
        /\ info \in [Slots -> Info]
        /\ MaxNow \in Nat /\ WriteSpacing \in Nat /\ IdleAlarm \in Nat
        /\ writes \in Seq(WriteRequest)
    BY <1>1, ServerAssumption DEF TypeInv, TableOK, HostOK, RingsOK
  <2>2. TimeNever \in Nat
    BY <2>1 DEF TimeNever
  <2>3. \A s \in Slots : idle_deadline(s) \in Nat
    <3> SUFFICES ASSUME NEW s \in Slots PROVE idle_deadline(s) \in Nat
      OBVIOUS
    <3>1. /\ info[s].last_message \in Times \cup {TimeUnknown} /\ info[s].opened \in Times
      BY <2>1 DEF Info
    <3> QED BY <2>1, <2>2, <3>1 DEF idle_deadline, Times
  <2>4. \A s \in Slots : next_write[s] \in Nat
    BY <2>1
  <2>5. cands \subseteq Nat /\ cands # {}
    BY <2>2, <2>3, <2>4
  <2>6. d = CHOOSE x \in cands : \A y \in cands : x <= y
    BY <1>1, Zenon DEF next_due_us
  <2>7. d \in cands /\ \A x \in cands : d <= x
    <3> HIDE DEF cands, d
    <3> QED BY <2>5, <2>6, EarliestIsOne
  <2>8. d \in Nat /\ now \in Nat
    BY <2>1, <2>5, <2>7 DEF Times
  <2>9. \A s \in open : d <= idle_deadline(s)
    BY <2>7
  <2>10. \A s \in held : d <= next_write[s]
    BY <2>7
  <2>11. d = TimeNever \/ (\E s \in open : d = idle_deadline(s)) \/ \E s \in held : d = next_write[s]
    BY <2>7
  <2> HIDE DEF d, cands
  <2>12. ASSUME NEW k \in 1..Len(writes)
         PROVE  \E s \in open : find_conn(writes[k].conn) = s /\ HasWrite(s)
    <3>1. IsOpen(writes[k].conn)
      BY <1>1 DEF OwnerInv, NoOrphanWrites
    <3> QED BY <3>1, FindConn DEF HasWrite
  <2>13. ASSUME NEW t \in now..(d - 1) PROVE ~IdleAt(t)
    <3>1. ASSUME NEW s \in open, idle_deadline(s) <= t PROVE FALSE
      BY <2>3, <2>8, <2>9, <3>1
    <3> QED BY <3>1 DEF IdleAt
  <2>14. ASSUME NEW t \in now..(d - 1) PROVE ~ReleasedAt(t)
    <3> SUFFICES ASSUME NEW k \in 1..Len(writes), HeldAt(writes[k], now), ~HeldAt(writes[k], t)
                 PROVE  FALSE
      BY DEF ReleasedAt
    <3>1. PICK s \in open : find_conn(writes[k].conn) = s /\ HasWrite(s)
      BY <2>12
    <3>2. now < next_write[s] /\ ~(t < next_write[s])
      BY <3>1 DEF HeldAt
    <3>3. WriteSpacing > 0
      BY <1>1, <2>1, <2>4, <2>8, <3>2 DEF SpacingInv
    <3>4. s \in held
      BY <2>4, <2>8, <3>1, <3>2, <3>3
    <3> QED BY <2>4, <2>8, <2>10, <3>2, <3>4
  <2>15. ASSUME NEW s \in open, d = idle_deadline(s) PROVE IdleAt(d)
    BY <2>8, <2>15 DEF IdleAt
  <2>16. ASSUME NEW s \in held, d = next_write[s] PROVE ReleasedAt(d)
    <3>1. PICK k \in 1..Len(writes) : writes[k].conn = info[s].conn
      BY DEF HasWrite
    <3>2. IsOpen(writes[k].conn)
      BY <3>1 DEF IsOpen
    <3>3. find_conn(writes[k].conn) = s
      BY <1>1, <3>1, <3>2, FindConn DEF OwnerInv, NoOrphanWrites
    <3>4. HeldAt(writes[k], now) /\ ~HeldAt(writes[k], d)
      BY <2>8, <2>16, <3>3 DEF HeldAt
    <3> QED BY <3>4 DEF ReleasedAt
  <2> QED BY <2>11, <2>13, <2>14, <2>15, <2>16 DEF d
<1>2. TypeInv /\ OwnerInv /\ SpacingInv => DueIsExact
  BY <1>1 DEF DueIsExact
<1> QED BY <1>2, Typed, OwnerInvHolds, SpacingInvHolds, PTL
-----------------------------------------------------------------------------
(***************************************************************************)
(* The framer and the buffer.  The bytes of rx the framer has seen are the *)
(* bytes it was fed since it was last reset.                               *)
(***************************************************************************)
Seen(b, n) == SubSeq(b, 1, n)

SeenInv == \A s \in Slots : Scanned(Seen(rx[s], scan[s]), framer[s])

(* Outside an object nothing of the bytes before is left in the framer. *)
LEMMA OutsideIsReset ==
  ASSUME NEW f, FramerOK(f), ~in_message(f) PROVE f = framer_reset
<1>1. f \in FramerState /\ f.depth \in Nat
  BY DEF FramerOK, FramerState
<1>2. f.depth = 0 /\ ~f.in_string /\ ~f.escape
  BY <1>1 DEF FramerOK, in_message
<1> QED BY <1>1, <1>2, Cleared

(* Nothing seen, in a buffer of whatever content. *)
LEMMA NothingSeen == ASSUME NEW b \in Seq(Byte) PROVE Scanned(Seen(b, 0), framer_reset)
<1>1. Seen(b, 0) = <<>>
  BY DEF Seen
<1> QED BY <1>1, ScannedEmpty

(* The next byte of the buffer seen as well. *)
LEMMA OneMoreSeen ==
  ASSUME NEW b \in Seq(Byte), NEW n \in 0..(Len(b) - 1)
  PROVE  Seen(b, n + 1) = Append(Seen(b, n), b[n + 1])
<1> DEFINE u == Seen(b, n + 1)
           v == Append(Seen(b, n), b[n + 1])
<1>1. u \in Seq(Byte) /\ Len(u) = n + 1 /\ \A k \in 1..(n + 1) : u[k] = b[k]
  BY DEF Seen
<1>2. v \in Seq(Byte) /\ Len(v) = n + 1 /\ \A k \in 1..(n + 1) : v[k] = b[k]
  BY DEF Seen
<1> HIDE DEF u, v
<1>3. u = v
  BY <1>1, <1>2, SeqEqual
<1> QED BY <1>3 DEF u, v

(* What is added behind the bytes seen is not seen. *)
LEMMA SeenBefore ==
  ASSUME NEW b \in Seq(Byte), NEW in \in Seq(Byte), NEW n \in 0..Len(b)
  PROVE  Seen(b \o in, n) = Seen(b, n)
<1> DEFINE w == b \o in
           u == Seen(w, n)
           v == Seen(b, n)
<1>1. w \in Seq(Byte) /\ Len(w) = Len(b) + Len(in) /\ \A k \in 1..Len(b) : w[k] = b[k]
  BY ConcatProperties
<1> HIDE DEF w
<1>2. u \in Seq(Byte) /\ Len(u) = n /\ \A k \in 1..n : u[k] = b[k]
  BY <1>1 DEF Seen
<1>3. v \in Seq(Byte) /\ Len(v) = n /\ \A k \in 1..n : v[k] = b[k]
  BY DEF Seen
<1> HIDE DEF u, v
<1>4. u = v
  BY <1>2, <1>3, SeqEqual
<1> QED BY <1>4 DEF u, v, w

LEMMA InitSeen == Init => SeenInv
<1> SUFFICES ASSUME Init, NEW s \in Slots PROVE Scanned(Seen(rx[s], scan[s]), framer[s])
  BY DEF SeenInv
<1>1. rx[s] = <<>> /\ scan[s] = 0 /\ framer[s] = framer_reset
  BY DEF Init
<1>2. <<>> \in Seq(Byte)
  OBVIOUS
<1> QED BY <1>1, <1>2, NothingSeen

(* A step that changes one slot's buffer alone. *)
LEMMA SlotSeen ==
  ASSUME TypeInv, SeenInv, NEW s \in Slots, NEW f, NEW b, NEW n,
         framer' = [framer EXCEPT ![s] = f], rx' = [rx EXCEPT ![s] = b],
         scan' = [scan EXCEPT ![s] = n], Scanned(Seen(b, n), f)
  PROVE  SeenInv'
<1>1. /\ framer'[s] = f /\ rx'[s] = b /\ scan'[s] = n
      /\ \A r \in Slots : r # s => framer'[r] = framer[r] /\ rx'[r] = rx[r] /\ scan'[r] = scan[r]
  BY DEF TypeInv, BufferOK
<1> QED BY <1>1 DEF SeenInv

LEMMA SeenSame == SeenInv /\ UNCHANGED rxVars => SeenInv'
BY DEF SeenInv, rxVars

LEMMA HostSeen ==
  ASSUME TypeInv, SeenInv, HostCall \/ Poll \/ Close PROVE SeenInv'
<1>1. ASSUME NEW c \in ConnIds, NEW t, OnConnectionOpened(c, t) PROVE SeenInv'
  <2>1. PICK s \in Slots : /\ framer' = [framer EXCEPT ![s] = framer_reset]
                           /\ rx' = [rx EXCEPT ![s] = <<>>]
                           /\ scan' = [scan EXCEPT ![s] = 0]
    BY <1>1 DEF OnConnectionOpened
  <2>2. Scanned(Seen(<<>>, 0), framer_reset)
    <3>1. <<>> \in Seq(Byte)
      OBVIOUS
    <3> QED BY <3>1, NothingSeen
  <2> QED BY <2>1, <2>2, SlotSeen
<1> QED BY <1>1, SeenSame
    DEF HostCall, Poll, Close, OnConnectionClosed, OnBytes, SendPlayerInfo, SetPlayer,
        SendPlayerInfoAll, SetSessionState, Tick, PollWrite, PollEvent

(* on_bytes copies its input behind what has been seen. *)
LEMMA FillSeen == ASSUME TypeInv, SeenInv, FillRx PROVE SeenInv'
<1> DEFINE take == Least(RxCapacity - Len(rx[cur]), Len(data))
           in == SubSeq(data, 1, take)
<1>1. /\ cur \in Slots /\ rx[cur] \in Seq(Byte) /\ scan[cur] \in 0..Len(rx[cur])
      /\ data \in Seq(Byte) /\ rx \in [Slots -> Seq(Byte)] /\ Len(rx[cur]) <= RxCapacity
  BY DEF TypeInv, CallOK, BufferOK
<1>2. take \in 0..Len(data)
  BY <1>1, ServerAssumption DEF Least, RxCapacity
<1>3. rx' = [rx EXCEPT ![cur] = rx[cur] \o in] /\ UNCHANGED <<framer, scan>>
  BY DEF FillRx
<1> HIDE DEF take
<1>4. in \in Seq(Byte)
  BY <1>1, <1>2, CutOK
<1> HIDE DEF in
<1>5. Seen(rx[cur] \o in, scan[cur]) = Seen(rx[cur], scan[cur])
  BY <1>1, <1>4, SeenBefore
<1>6. \A r \in Slots : rx'[r] = IF r = cur THEN rx[cur] \o in ELSE rx[r]
  BY <1>1, <1>3
<1> QED BY <1>1, <1>3, <1>5, <1>6 DEF SeenInv

(* Whitespace between objects leaves the framer as it was. *)
LEMMA SkipSeen == ASSUME TypeInv, SeenInv, SkipWhitespace PROVE SeenInv'
<1> DEFINE f == framer[cur]
           b == rx[cur]
           n == scan[cur]
<1>1. /\ cur \in Slots /\ b \in Seq(Byte) /\ n \in 0..(Len(b) - 1) /\ FramerOK(f)
      /\ ~in_message(f) /\ b[n + 1] = "ws"
      /\ framer \in [Slots -> FramerState] /\ rx \in [Slots -> Seq(Byte)]
  BY DEF TypeInv, CallOK, BufferOK, SkipWhitespace, Framing, NextByte
<1>2. Scanned(Seen(b, n), f)
  BY <1>1 DEF SeenInv
<1>3. f = framer_reset
  BY <1>1, OutsideIsReset
<1>4. feed_step(f, "ws") = "SKIP" /\ feed_state(f, "ws") = framer_reset
  BY <1>3, ResetSkips
<1>5. "ws" \in Byte
  BY DEF Byte
<1>6. Scanned(Append(Seen(b, n), "ws"), framer_reset)
  BY <1>2, <1>4, <1>5, ScannedAppend
<1>7. Seen(b, n + 1) = Append(Seen(b, n), "ws")
  BY <1>1, OneMoreSeen
<1>8. /\ scan' = [scan EXCEPT ![cur] = n + 1]
      /\ framer' = [framer EXCEPT ![cur] = f] /\ rx' = [rx EXCEPT ![cur] = b]
  BY <1>1 DEF SkipWhitespace
<1> QED BY <1>1, <1>3, <1>6, <1>7, <1>8, SlotSeen

(* A byte of an object, or the one that opens it after what came before    *)
(* was compacted away.                                                     *)
LEMMA FeedSeen == ASSUME TypeInv, SeenInv, FeedByte PROVE SeenInv'
<1> DEFINE f == framer[cur]
           b == ObjectRx
           n == ObjectScan
<1>1. /\ cur \in Slots /\ rx[cur] \in Seq(Byte) /\ scan[cur] \in 0..(Len(rx[cur]) - 1)
      /\ FramerOK(f)
  BY DEF TypeInv, CallOK, BufferOK, FeedByte, MayFeed, Framing
<1>2. /\ b \in Seq(Byte) /\ n \in 0..(Len(b) - 1)
  BY <1>1, ObjectOK DEF TypeInv
<1>3. b[n + 1] = NextByte /\ NextByte \in Byte
  <2>1. CASE in_message(f)
    BY <1>1, <2>1 DEF ObjectRx, ObjectScan, NextByte
  <2>2. CASE ~in_message(f)
    <3>1. b = SubSeq(rx[cur], scan[cur] + 1, Len(rx[cur])) /\ n = 0
      BY <2>2 DEF ObjectRx, ObjectScan, Drop
    <3>2. b[1] = rx[cur][scan[cur] + 1] /\ rx[cur][scan[cur] + 1] \in Byte
      BY <1>1, <3>1
    <3> HIDE DEF b, n
    <3>3. n + 1 = 1
      BY <3>1
    <3> QED BY <3>2, <3>3 DEF NextByte
  <2> QED BY <2>1, <2>2
<1>4. Scanned(Seen(b, n), f)
  <2>1. CASE in_message(f)
    BY <1>1, <2>1 DEF SeenInv, ObjectRx, ObjectScan
  <2>2. CASE ~in_message(f)
    <3>1. n = 0 /\ f = framer_reset
      BY <1>1, <2>2, OutsideIsReset DEF ObjectScan
    <3> QED BY <1>2, <3>1, NothingSeen
  <2> QED BY <2>1, <2>2
<1>5. feed_step(f, NextByte) \notin {"CLOSE", "GARBAGE"}
  BY DEF FeedByte
<1>6. Scanned(Append(Seen(b, n), NextByte), feed_state(f, NextByte))
  BY <1>3, <1>4, <1>5, ScannedAppend
<1>7. Seen(b, n + 1) = Append(Seen(b, n), NextByte)
  BY <1>2, <1>3, OneMoreSeen
<1>8. /\ framer' = [framer EXCEPT ![cur] = feed_state(f, NextByte)]
      /\ rx' = [rx EXCEPT ![cur] = b] /\ scan' = [scan EXCEPT ![cur] = n + 1]
  BY DEF FeedByte
<1> QED BY <1>1, <1>6, <1>7, <1>8, SlotSeen

LEMMA CallStepSeen == ASSUME TypeInv, SeenInv, CallStep PROVE SeenInv'
<1>1. /\ cur \in Slots /\ framer \in [Slots -> FramerState] /\ FramerOK(framer[cur])
      /\ rx[cur] \in Seq(Byte) /\ data \in Seq(Byte) /\ scan[cur] \in 0..Len(rx[cur])
  BY DEF TypeInv, CallOK, BufferOK
<1>2. ObjectRx \in Seq(Byte)
  BY ObjectOK DEF TypeInv
<1>3. CASE RefuseAndRetain
  <2>1. /\ ~in_message(framer[cur]) /\ framer' = [framer EXCEPT ![cur] = framer[cur]]
        /\ rx' = [rx EXCEPT ![cur] = ObjectRx \o data] /\ scan' = [scan EXCEPT ![cur] = 0]
    BY <1>1, <1>3 DEF RefuseAndRetain, MustRefuse
  <2>2. framer[cur] = framer_reset
    BY <1>1, <2>1, OutsideIsReset
  <2>3. ObjectRx \o data \in Seq(Byte)
    BY <1>1, <1>2
  <2> QED BY <1>1, <2>1, <2>2, <2>3, NothingSeen, SlotSeen
<1>4. CASE RefuseAndLose \/ Garbage \/ TooLarge \/ BadJson
  <2>1. reset_rx(cur)
    BY <1>4 DEF RefuseAndLose, Garbage, TooLarge, BadJson, Discard
  <2>2. <<>> \in Seq(Byte)
    OBVIOUS
  <2> QED BY <1>1, <2>1, <2>2, NothingSeen, SlotSeen DEF reset_rx
<1>5. ASSUME NEW m \in Messages, DeliverMessage(m) PROVE SeenInv'
  <2>1. /\ framer' = [framer EXCEPT ![cur] = feed_state(framer[cur], NextByte)]
        /\ rx' = [rx EXCEPT ![cur] = Drop(rx[cur], scan[cur] + 1)]
        /\ scan' = [scan EXCEPT ![cur] = 0]
        /\ scan[cur] < Len(rx[cur])
    BY <1>5 DEF DeliverMessage, MayFeed, Framing
  <2>2. NextByte \in Byte /\ feed_step(framer[cur], NextByte) = "CLOSE"
    BY <1>5, NextByteOK DEF DeliverMessage, MayFeed, TypeInv
  <2>3. feed_state(framer[cur], NextByte) = framer_reset
    BY <1>1, <2>2, FeedStep
  <2>4. scan[cur] + 1 \in 0..Len(rx[cur])
    BY <1>1, <2>1
  <2>5. Drop(rx[cur], scan[cur] + 1) \in Seq(Byte)
    BY <1>1, <2>4, CutOK
  <2> QED BY <1>1, <2>1, <2>3, <2>5, NothingSeen, SlotSeen
<1>6. CASE FrameDone
  <2>1. /\ framer' = [framer EXCEPT ![cur] = framer[cur]]
        /\ rx' = [rx EXCEPT ![cur] = ObjectRx] /\ scan' = [scan EXCEPT ![cur] = ObjectScan]
    BY <1>1, <1>6 DEF FrameDone
  <2>2. Scanned(Seen(ObjectRx, ObjectScan), framer[cur])
    <3>1. CASE in_message(framer[cur])
      BY <1>1, <3>1 DEF SeenInv, ObjectRx, ObjectScan
    <3>2. CASE ~in_message(framer[cur])
      <4>1. ObjectScan = 0 /\ framer[cur] = framer_reset
        BY <1>1, <3>2, OutsideIsReset DEF ObjectScan
      <4> QED BY <1>2, <4>1, NothingSeen
    <3> QED BY <3>1, <3>2
  <2> QED BY <1>1, <2>1, <2>2, SlotSeen
<1>7. CASE AnnounceToSlot \/ TickSlot \/ CloseSlot
  BY <1>7, SeenSame DEF AnnounceToSlot, TickSlot, CloseSlot
<1> QED BY <1>3, <1>4, <1>5, <1>6, <1>7, FillSeen, SkipSeen, FeedSeen DEF CallStep

LEMMA SeenInvHolds == Spec => []SeenInv
<1>1. TypeInv /\ SeenInv /\ [Next]_vars => SeenInv'
  BY HostSeen, CallStepSeen, SeenSame DEF Next, vars
<1> QED BY <1>1, InitSeen, Typed, PTL DEF Spec

(* Whatever was reset, compacted, retained or refilled, the framer of a    *)
(* connection is the one its buffered bytes produce, and they hold no      *)
(* complete object.                                                        *)
THEOREM FramerFollowsBuffer == Spec => []FramerMatchesBuffer
<1>1. ASSUME TypeInv, SeenInv, NEW s \in Slots
      PROVE  LET seen == SubSeq(rx[s], 1, scan[s])
             IN  /\ frame_scan(seen)[scan[s]] = framer[s]
                 /\ gsp_frame_find(seen).status = "PENDING"
  <2>1. rx[s] \in Seq(Byte) /\ scan[s] \in 0..Len(rx[s])
    BY <1>1 DEF TypeInv, BufferOK
  <2> DEFINE seen == SubSeq(rx[s], 1, scan[s])
  <2>2. Len(seen) = scan[s]
    BY <2>1, CutOK
  <2>3. Scanned(seen, framer[s])
    BY <1>1 DEF SeenInv, Seen
  <2> HIDE DEF seen
  <2>4. frame_scan(seen)[scan[s]] = framer[s]
    BY <2>2, <2>3 DEF Scanned
  <2>5. gsp_frame_find(seen).status = "PENDING"
    BY <2>3, FindPending
  <2> QED BY <2>4, <2>5 DEF seen
<1>2. TypeInv /\ SeenInv => FramerMatchesBuffer
  BY <1>1 DEF FramerMatchesBuffer
<1> QED BY <1>2, Typed, SeenInvHolds, PTL
-----------------------------------------------------------------------------
(***************************************************************************)
(* The event log.  What the ring holds about one connection is read as a   *)
(* story: where it stands is a mode ("shut", "awake" or "idle"), the run   *)
(* of errors and the state last reported.  The invariant says of each      *)
(* connection that its part of the ring is coherent and ends where the     *)
(* connection stands, so the next event may follow.  Every part of it      *)
(* speaks of an entry and of what comes after it, so losing the oldest     *)
(* entry costs nothing.                                                    *)
(***************************************************************************)
Places(E, c) == {k \in 1..Len(E) : E[k].conn = c}

Adjacent(E, c) ==
  \A j, k \in Places(E, c) :
    j < k /\ (\A i \in Places(E, c) : i <= j \/ k <= i) =>
      (E[j].type = "CONNECTION_CLOSED" <=> E[k].type = "CONNECTION_OPENED")

Parted(E, c, a, S) ==
  \A j, k \in Places(E, c) :
    j < k /\ E[j].type = a /\ E[k].type = a =>
      \E i \in Places(E, c) : j < i /\ i < k /\ E[i].type \in S

Ends(E, c, mode) ==
  \A k \in Places(E, c) :
    (\A i \in Places(E, c) : i <= k) => (E[k].type = "CONNECTION_CLOSED" <=> mode = "shut")

Followed(E, c, a, S) ==
  \A k \in Places(E, c) : E[k].type = a => \E i \in Places(E, c) : k < i /\ E[i].type \in S

Marks == {"CLIENT_STATE", "CONNECTION_OPENED"}

Told(E, c, d) ==
  \A k \in Places(E, c) :
    E[k].type = "CLIENT_STATE" /\ (\A i \in Places(E, c) : E[i].type \in Marks => i <= k) =>
      E[k].detail = d

(* What ends a silence, and what ends a run of errors. *)
Wakes == {"CLIENT_ACTIVE", "CONNECTION_CLOSED"}
Calms == MessageTypes \cup {"CONNECTION_CLOSED"}

Coherent(E, c) ==
  /\ Adjacent(E, c)
  /\ Parted(E, c, "CLIENT_IDLE", Wakes)
  /\ Parted(E, c, "CLIENT_ACTIVE", {"CLIENT_IDLE"})
  /\ Parted(E, c, "CLOSE_REQUESTED", Calms)

Story(E, c, mode, errors, d) ==
  /\ Coherent(E, c)
  /\ Ends(E, c, mode)
  /\ mode # "idle" => Followed(E, c, "CLIENT_IDLE", Wakes)
  /\ mode = "idle" => Followed(E, c, "CLIENT_ACTIVE", {"CLIENT_IDLE"})
  /\ errors < CloseThreshold => Followed(E, c, "CLOSE_REQUESTED", Calms)
  /\ mode # "shut" => Told(E, c, d)

(* What a sequence without its oldest entry holds. *)
LEMMA TailPlaces ==
  ASSUME NEW E \in Seq(Event), E # <<>>
  PROVE  /\ Tail(E) \in Seq(Event) /\ Len(Tail(E)) = Len(E) - 1 /\ Len(E) \in Nat \ {0}
         /\ \A k \in 1..Len(Tail(E)) : Tail(E)[k] = E[k + 1]
OBVIOUS

(* ... and one with an entry more. *)
LEMMA AppendPlaces ==
  ASSUME NEW E \in Seq(Event), NEW ev \in Event
  PROVE  /\ Append(E, ev) \in Seq(Event) /\ Len(Append(E, ev)) = Len(E) + 1 /\ Len(E) \in Nat
         /\ \A k \in 1..Len(E) : Append(E, ev)[k] = E[k]
         /\ Append(E, ev)[Len(E) + 1] = ev
OBVIOUS

(* The oldest entry may go. *)
LEMMA StoryTail ==
  ASSUME NEW E \in Seq(Event), E # <<>>, NEW c, NEW mode, NEW errors, NEW d,
         Story(E, c, mode, errors, d)
  PROVE  Story(Tail(E), c, mode, errors, d)
<1> DEFINE F == Tail(E)
<1>1. /\ Len(F) = Len(E) - 1 /\ Len(E) \in Nat \ {0}
      /\ \A k \in 1..Len(F) : F[k] = E[k + 1]
  BY TailPlaces
<1> HIDE DEF F
<1>2. \A k \in Places(F, c) : k \in Nat /\ k + 1 \in Places(E, c) /\ F[k] = E[k + 1]
  BY <1>1 DEF Places
<1>3. \A i \in Places(E, c) : i \in Nat /\ (i > 1 => i - 1 \in Places(F, c) /\ F[i - 1] = E[i])
  BY <1>1 DEF Places
<1>4. \A k \in Places(F, c) : \A i \in Places(E, c) :
        k + 1 < i => i - 1 \in Places(F, c) /\ k < i - 1 /\ F[i - 1] = E[i]
  BY <1>2, <1>3
<1>5. ASSUME NEW a, NEW S, Followed(E, c, a, S) PROVE Followed(F, c, a, S)
  BY <1>2, <1>4, <1>5 DEF Followed
<1>6. ASSUME NEW a, NEW S, Parted(E, c, a, S) PROVE Parted(F, c, a, S)
  <2> SUFFICES ASSUME NEW j \in Places(F, c), NEW k \in Places(F, c), j < k,
                      F[j].type = a, F[k].type = a
               PROVE  \E i \in Places(F, c) : j < i /\ i < k /\ F[i].type \in S
    BY DEF Parted
  <2>1. PICK i \in Places(E, c) : j + 1 < i /\ i < k + 1 /\ E[i].type \in S
    BY <1>2, <1>6 DEF Parted
  <2>2. i - 1 \in Places(F, c) /\ j < i - 1 /\ i - 1 < k /\ F[i - 1].type \in S
    BY <2>1, <1>2, <1>3, <1>4
  <2> QED BY <2>2
<1>7. ASSUME Adjacent(E, c) PROVE Adjacent(F, c)
  <2> SUFFICES ASSUME NEW j \in Places(F, c), NEW k \in Places(F, c), j < k,
                      \A i \in Places(F, c) : i <= j \/ k <= i
               PROVE  F[j].type = "CONNECTION_CLOSED" <=> F[k].type = "CONNECTION_OPENED"
    BY DEF Adjacent
  <2>1. \A i \in Places(E, c) : i <= j + 1 \/ k + 1 <= i
    <3> SUFFICES ASSUME NEW i \in Places(E, c), j + 1 < i PROVE k + 1 <= i
      BY <1>2, <1>3
    <3>1. i - 1 \in Places(F, c) /\ j < i - 1 /\ i \in Nat
      BY <1>4, <1>3
    <3>2. i - 1 <= j \/ k <= i - 1
      BY <3>1
    <3> QED BY <3>1, <3>2, <1>2
  <2>2. j + 1 \in Places(E, c) /\ k + 1 \in Places(E, c) /\ j + 1 < k + 1
    BY <1>2
  <2>3. E[j + 1].type = "CONNECTION_CLOSED" <=> E[k + 1].type = "CONNECTION_OPENED"
    BY <2>1, <2>2, <1>7 DEF Adjacent
  <2> QED BY <2>3, <1>2
<1>8. ASSUME Ends(E, c, mode) PROVE Ends(F, c, mode)
  <2> SUFFICES ASSUME NEW k \in Places(F, c), \A i \in Places(F, c) : i <= k
               PROVE  F[k].type = "CONNECTION_CLOSED" <=> mode = "shut"
    BY DEF Ends
  <2>1. \A i \in Places(E, c) : i <= k + 1
    <3> SUFFICES ASSUME NEW i \in Places(E, c), k + 1 < i PROVE FALSE
      BY <1>2, <1>3
    <3> QED BY <1>4, <1>2, <1>3
  <2> QED BY <2>1, <1>2, <1>8 DEF Ends
<1>9. ASSUME Told(E, c, d) PROVE Told(F, c, d)
  <2> SUFFICES ASSUME NEW k \in Places(F, c), F[k].type = "CLIENT_STATE",
                      \A i \in Places(F, c) : F[i].type \in Marks => i <= k
               PROVE  F[k].detail = d
    BY DEF Told
  <2>1. \A i \in Places(E, c) : E[i].type \in Marks => i <= k + 1
    <3> SUFFICES ASSUME NEW i \in Places(E, c), E[i].type \in Marks, k + 1 < i PROVE FALSE
      BY <1>2, <1>3
    <3>1. i - 1 \in Places(F, c) /\ k < i - 1 /\ F[i - 1].type \in Marks
      BY <1>4
    <3>2. i - 1 <= k
      BY <3>1
    <3> QED BY <3>1, <3>2, <1>2, <1>3
  <2> QED BY <2>1, <1>2, <1>9 DEF Told
<1> QED BY <1>5, <1>6, <1>7, <1>8, <1>9 DEF Story, Coherent, F

(* An event of another connection leaves the story alone. *)
LEMMA StoryOther ==
  ASSUME NEW E \in Seq(Event), NEW ev \in Event, NEW c, ev.conn # c,
         NEW mode, NEW errors, NEW d, Story(E, c, mode, errors, d)
  PROVE  Story(Append(E, ev), c, mode, errors, d)
<1> DEFINE F == Append(E, ev)
<1>1. /\ Len(F) = Len(E) + 1 /\ Len(E) \in Nat
      /\ \A k \in 1..Len(E) : F[k] = E[k]
      /\ F[Len(E) + 1] = ev
  BY AppendPlaces
<1> HIDE DEF F
<1>2. Places(F, c) = Places(E, c) /\ \A k \in Places(E, c) : F[k] = E[k]
  BY <1>1 DEF Places
<1>3. Coherent(F, c)
  <2>1. ASSUME NEW a, NEW S, Parted(E, c, a, S) PROVE Parted(F, c, a, S)
    BY <1>2, <2>1 DEF Parted
  <2>2. ASSUME Adjacent(E, c) PROVE Adjacent(F, c)
    BY <1>2, <2>2 DEF Adjacent
  <2> QED BY <2>1, <2>2 DEF Story, Coherent
<1>4. Ends(F, c, mode)
  BY <1>2 DEF Story, Ends
<1>5. ASSUME NEW a, NEW S, Followed(E, c, a, S) PROVE Followed(F, c, a, S)
  BY <1>2, <1>5 DEF Followed
<1>6. ASSUME Told(E, c, d) PROVE Told(F, c, d)
  BY <1>2, <1>6 DEF Told
<1> QED BY <1>3, <1>4, <1>5, <1>6 DEF Story, F

(* What may happen next to a connection that stands at (mode, errors, d),  *)
(* and where it stands then.                                               *)
Allowed(type, detail, mode, errors, d, mode2, errors2, d2) ==
  /\ mode = "shut" <=> type = "CONNECTION_OPENED"
  /\ mode2 = "shut" <=> type = "CONNECTION_CLOSED"
  /\ type = "CLIENT_IDLE" => mode # "idle"
  /\ type = "CLIENT_ACTIVE" => mode = "idle"
  /\ type = "CLOSE_REQUESTED" => errors < CloseThreshold
  /\ mode2 # "idle" => (mode # "idle" /\ type # "CLIENT_IDLE") \/ type \in Wakes
  /\ mode2 = "idle" => (mode = "idle" /\ type # "CLIENT_ACTIVE") \/ type = "CLIENT_IDLE"
  /\ errors2 < CloseThreshold =>
       (errors < CloseThreshold /\ type # "CLOSE_REQUESTED") \/ type \in Calms
  /\ mode2 # "shut" =>
       \/ type = "CONNECTION_OPENED"
       \/ type = "CLIENT_STATE" /\ detail = d2
       \/ type # "CLIENT_STATE" /\ d2 = d

(* Such an event continues the story. *)
LEMMA StoryOwn ==
  ASSUME NEW E \in Seq(Event), NEW ev \in Event, NEW c, ev.conn = c,
         NEW mode, NEW errors, NEW d, NEW mode2, NEW errors2, NEW d2,
         Story(E, c, mode, errors, d),
         Allowed(ev.type, ev.detail, mode, errors, d, mode2, errors2, d2)
  PROVE  Story(Append(E, ev), c, mode2, errors2, d2)
<1> DEFINE F == Append(E, ev)
           n == Len(E) + 1
<1>1. /\ Len(F) = n /\ Len(E) \in Nat
      /\ \A k \in 1..Len(E) : F[k] = E[k]
      /\ F[n] = ev
  BY AppendPlaces
<1> HIDE DEF F
<1>2. Places(F, c) = Places(E, c) \cup {n}
  BY <1>1 DEF Places
<1>3. /\ n \in Nat /\ F[n] = ev
      /\ \A k \in Places(E, c) : k \in Nat /\ k < n /\ F[k] = E[k]
  BY <1>1 DEF Places
<1> HIDE DEF n
<1>4. ASSUME NEW a, NEW S, Parted(E, c, a, S), ev.type = a => Followed(E, c, a, S)
      PROVE  Parted(F, c, a, S)
  <2> SUFFICES ASSUME NEW j \in Places(F, c), NEW k \in Places(F, c), j < k,
                      F[j].type = a, F[k].type = a
               PROVE  \E i \in Places(F, c) : j < i /\ i < k /\ F[i].type \in S
    BY DEF Parted
  <2>1. j \in Places(E, c)
    BY <1>2, <1>3
  <2>2. CASE k \in Places(E, c)
    <3>1. PICK i \in Places(E, c) : j < i /\ i < k /\ E[i].type \in S
      BY <2>1, <2>2, <1>3, <1>4 DEF Parted
    <3> QED BY <3>1, <1>2, <1>3
  <2>3. CASE k = n
    <3>1. PICK i \in Places(E, c) : j < i /\ E[i].type \in S
      BY <2>1, <2>3, <1>3, <1>4 DEF Followed
    <3> QED BY <3>1, <2>3, <1>2, <1>3
  <2> QED BY <2>2, <2>3, <1>2
<1>5. ASSUME NEW a, NEW S, ev.type # a, Followed(E, c, a, S) \/ ev.type \in S
      PROVE  Followed(F, c, a, S)
  <2> SUFFICES ASSUME NEW k \in Places(F, c), F[k].type = a
               PROVE  \E i \in Places(F, c) : k < i /\ F[i].type \in S
    BY DEF Followed
  <2>1. k \in Places(E, c) /\ E[k].type = a /\ k < n
    BY <1>2, <1>3, <1>5
  <2>2. CASE ev.type \in S
    BY <2>1, <2>2, <1>2, <1>3
  <2>3. CASE Followed(E, c, a, S)
    <3>1. PICK i \in Places(E, c) : k < i /\ E[i].type \in S
      BY <2>1, <2>3 DEF Followed
    <3> QED BY <3>1, <1>2, <1>3
  <2> QED BY <2>2, <2>3, <1>5
<1>6. Adjacent(F, c)
  <2> SUFFICES ASSUME NEW j \in Places(F, c), NEW k \in Places(F, c), j < k,
                      \A i \in Places(F, c) : i <= j \/ k <= i
               PROVE  F[j].type = "CONNECTION_CLOSED" <=> F[k].type = "CONNECTION_OPENED"
    BY DEF Adjacent
  <2>1. j \in Places(E, c) /\ F[j] = E[j]
    BY <1>2, <1>3
  <2>2. CASE k \in Places(E, c)
    <3>1. \A i \in Places(E, c) : i <= j \/ k <= i
      BY <1>2
    <3>2. E[j].type = "CONNECTION_CLOSED" <=> E[k].type = "CONNECTION_OPENED"
      BY <3>1, <2>1, <2>2 DEF Story, Coherent, Adjacent
    <3> QED BY <3>2, <2>1, <2>2, <1>3
  <2>3. CASE k = n
    <3>1. \A i \in Places(E, c) : i <= j
      <4> SUFFICES ASSUME NEW i \in Places(E, c) PROVE i <= j
        OBVIOUS
      <4>1. i \in Places(F, c) /\ i < n /\ i \in Nat /\ n \in Nat
        BY <1>2, <1>3
      <4>2. i <= j \/ n <= i
        BY <4>1, <2>3
      <4> QED BY <4>1, <4>2
    <3>2. E[j].type = "CONNECTION_CLOSED" <=> mode = "shut"
      BY <3>1, <2>1 DEF Story, Ends
    <3>3. mode = "shut" <=> ev.type = "CONNECTION_OPENED"
      BY DEF Allowed
    <3> QED BY <3>2, <3>3, <2>1, <2>3, <1>3
  <2> QED BY <2>2, <2>3, <1>2
<1>7. Coherent(F, c)
  <2>1. Parted(F, c, "CLIENT_IDLE", Wakes)
    BY <1>4 DEF Story, Coherent, Allowed
  <2>2. Parted(F, c, "CLIENT_ACTIVE", {"CLIENT_IDLE"})
    BY <1>4 DEF Story, Coherent, Allowed
  <2>3. Parted(F, c, "CLOSE_REQUESTED", Calms)
    BY <1>4 DEF Story, Coherent, Allowed
  <2> QED BY <1>6, <2>1, <2>2, <2>3 DEF Coherent
<1>8. Ends(F, c, mode2)
  <2> SUFFICES ASSUME NEW k \in Places(F, c), \A i \in Places(F, c) : i <= k
               PROVE  F[k].type = "CONNECTION_CLOSED" <=> mode2 = "shut"
    BY DEF Ends
  <2>1. n <= k
    BY <1>2
  <2>2. k = n
    BY <2>1, <1>2, <1>3
  <2> QED BY <2>2, <1>3 DEF Allowed
<1>9. mode2 # "idle" => Followed(F, c, "CLIENT_IDLE", Wakes)
  <2> SUFFICES ASSUME mode2 # "idle" PROVE Followed(F, c, "CLIENT_IDLE", Wakes)
    OBVIOUS
  <2>1. ev.type # "CLIENT_IDLE" /\ (Followed(E, c, "CLIENT_IDLE", Wakes) \/ ev.type \in Wakes)
    BY DEF Story, Allowed, Wakes
  <2> QED BY <2>1, <1>5
<1>10. mode2 = "idle" => Followed(F, c, "CLIENT_ACTIVE", {"CLIENT_IDLE"})
  <2> SUFFICES ASSUME mode2 = "idle" PROVE Followed(F, c, "CLIENT_ACTIVE", {"CLIENT_IDLE"})
    OBVIOUS
  <2>1. /\ ev.type # "CLIENT_ACTIVE"
        /\ Followed(E, c, "CLIENT_ACTIVE", {"CLIENT_IDLE"}) \/ ev.type \in {"CLIENT_IDLE"}
    BY DEF Story, Allowed
  <2> QED BY <2>1, <1>5
<1>11. errors2 < CloseThreshold => Followed(F, c, "CLOSE_REQUESTED", Calms)
  <2> SUFFICES ASSUME errors2 < CloseThreshold PROVE Followed(F, c, "CLOSE_REQUESTED", Calms)
    OBVIOUS
  <2>1. /\ ev.type # "CLOSE_REQUESTED"
        /\ Followed(E, c, "CLOSE_REQUESTED", Calms) \/ ev.type \in Calms
    BY DEF Story, Allowed, Calms, MessageTypes
  <2> QED BY <2>1, <1>5
<1>12. mode2 # "shut" => Told(F, c, d2)
  <2> SUFFICES ASSUME mode2 # "shut",
                      NEW k \in Places(F, c), F[k].type = "CLIENT_STATE",
                      \A i \in Places(F, c) : F[i].type \in Marks => i <= k
               PROVE  F[k].detail = d2
    BY DEF Told
  <2>1. CASE ev.type \in Marks
    <3>1. n <= k
      BY <2>1, <1>2, <1>3
    <3>2. k = n
      BY <3>1, <1>2, <1>3
    <3> QED BY <3>2, <1>3 DEF Allowed
  <2>2. CASE ev.type \notin Marks
    <3>1. k \in Places(E, c) /\ F[k] = E[k]
      BY <2>2, <1>2, <1>3 DEF Marks
    <3>2. \A i \in Places(E, c) : E[i].type \in Marks => i <= k
      BY <1>2, <1>3
    <3>3. mode # "shut" /\ d2 = d
      BY <2>2 DEF Allowed, Marks
    <3> QED BY <3>1, <3>2, <3>3 DEF Story, Told
  <2> QED BY <2>1, <2>2
<1> QED BY <1>7, <1>8, <1>9, <1>10, <1>11, <1>12 DEF Story, F

(* Pushing an event: the oldest entry goes first if the ring is full. *)
LEMMA PushItems ==
  ASSUME NEW q, QueueOK(q), NEW ev \in Event
  PROVE  LET F == ring_push_event(q, ev).items
         IN  /\ q.items \in Seq(Event)
             /\ F = Append(q.items, ev) \/ (q.items # <<>> /\ F = Append(Tail(q.items), ev))
<1>1. q.items \in Seq(Event) /\ (~Room(q) => q.items # <<>>)
  BY EventAssumption DEF QueueOK, Room
<1>2. ring_push_event(q, ev).items =
        IF Room(q) THEN Append(q.items, ev) ELSE Append(Tail(q.items), ev)
  BY DEF ring_push_event, QueueOK
<1> QED BY <1>1, <1>2

LEMMA PushOwn ==
  ASSUME NEW q, QueueOK(q), NEW ev \in Event, NEW c, ev.conn = c,
         NEW mode, NEW errors, NEW d, NEW mode2, NEW errors2, NEW d2,
         Story(q.items, c, mode, errors, d),
         Allowed(ev.type, ev.detail, mode, errors, d, mode2, errors2, d2)
  PROVE  Story(ring_push_event(q, ev).items, c, mode2, errors2, d2)
<1>1. q.items \in Seq(Event)
  BY PushItems
<1>2. CASE ring_push_event(q, ev).items = Append(q.items, ev)
  BY <1>1, <1>2, StoryOwn
<1>3. CASE q.items # <<>> /\ ring_push_event(q, ev).items = Append(Tail(q.items), ev)
  <2>1. Tail(q.items) \in Seq(Event)
    BY <1>1, <1>3, TailPlaces
  <2>2. Story(Tail(q.items), c, mode, errors, d)
    BY <1>1, <1>3, StoryTail
  <2>3. Story(Append(Tail(q.items), ev), c, mode2, errors2, d2)
    BY <2>1, <2>2, StoryOwn
  <2> QED BY <2>3, <1>3
<1> QED BY <1>2, <1>3, PushItems

LEMMA PushOther ==
  ASSUME NEW q, QueueOK(q), NEW ev \in Event, NEW c, ev.conn # c,
         NEW mode, NEW errors, NEW d, Story(q.items, c, mode, errors, d)
  PROVE  Story(ring_push_event(q, ev).items, c, mode, errors, d)
<1>1. q.items \in Seq(Event)
  BY PushItems
<1>2. CASE ring_push_event(q, ev).items = Append(q.items, ev)
  BY <1>1, <1>2, StoryOther
<1>3. CASE q.items # <<>> /\ ring_push_event(q, ev).items = Append(Tail(q.items), ev)
  <2>1. Tail(q.items) \in Seq(Event)
    BY <1>1, <1>3, TailPlaces
  <2>2. Story(Tail(q.items), c, mode, errors, d)
    BY <1>1, <1>3, StoryTail
  <2>3. Story(Append(Tail(q.items), ev), c, mode, errors, d)
    BY <2>1, <2>2, StoryOther
  <2> QED BY <2>3, <1>3
<1> QED BY <1>2, <1>3, PushItems

(* emit is one push, or two: the second is the warning, which belongs to   *)
(* no connection.                                                          *)
Emits(q, type, c, detail, ev, w, q1, q2) ==
  /\ ev \in Event /\ ev.type = type /\ ev.conn = c /\ ev.detail = detail
  /\ w \in Event /\ w.conn = 0
  /\ QueueOK(q1) /\ q1.items = q.items
  /\ QueueOK(q2) /\ q2.items = ring_push_event(q1, ev).items
  /\ \/ emit(q, type, c, detail).items = q2.items
     \/ emit(q, type, c, detail).items = ring_push_event(q2, w).items

LEMMA EmitPushes ==
  ASSUME NEW q, QueueOK(q), NEW type \in EventTypes, NEW c \in Nat, NEW detail \in Details
  PROVE  \E ev, w, q1, q2 : Emits(q, type, c, detail, ev, w, q1, q2)
<1> DEFINE ev == [type |-> type, conn |-> c, detail |-> detail,
                  sequence |-> q.sequence, value |-> 0]
           q1 == Numbered(q)
           p  == ring_push_event(q1, ev)
           p2 == [p EXCEPT !.drop_warned = "said"]
           q2 == Numbered(p2)
           w  == DropWarning(p)
<1>1. ev \in Event /\ ev.type = type /\ ev.conn = c /\ ev.detail = detail
  BY EventAssumption DEF Event, QueueOK, Counter
<1>2. QueueOK(q1) /\ q1.items = q.items
  BY NumberedOK DEF Numbered, QueueOK
<1>3. emit(q, type, c, detail) = IF p.drop_warned = "owed" THEN ring_push_event(q2, w) ELSE p
  BY DEF emit
<1> HIDE DEF ev, q1
<1>4. QueueOK(p)
  BY <1>1, <1>2, PushOK
<1> HIDE DEF p
<1>5. w \in Event /\ w.conn = 0
  BY <1>4 DEF DropWarning, Event, EventTypes, Details, QueueOK
<1>6. QueueOK(p2) /\ p2.items = p.items
  BY <1>4 DEF QueueOK, Warned
<1> HIDE DEF p2, w
<1>7. QueueOK(q2) /\ q2.items = p2.items
  BY <1>6, NumberedOK DEF Numbered, QueueOK
<1> HIDE DEF q2
<1>8. q2.items = ring_push_event(q1, ev).items
  BY <1>6, <1>7 DEF p
<1>9. \/ emit(q, type, c, detail).items = q2.items
      \/ emit(q, type, c, detail).items = ring_push_event(q2, w).items
  BY <1>3, <1>6, <1>7
<1>10. Emits(q, type, c, detail, ev, w, q1, q2)
  BY <1>1, <1>2, <1>5, <1>7, <1>8, <1>9 DEF Emits
<1> QED BY <1>10

(* An event that is allowed continues the story of its connection ... *)
LEMMA EmitOwn ==
  ASSUME NEW q, QueueOK(q), NEW type \in EventTypes, NEW c \in ConnIds, NEW detail \in Details,
         NEW mode, NEW errors, NEW d, NEW mode2, NEW errors2, NEW d2,
         Story(q.items, c, mode, errors, d),
         Allowed(type, detail, mode, errors, d, mode2, errors2, d2)
  PROVE  Story(emit(q, type, c, detail).items, c, mode2, errors2, d2)
<1>1. c \in Nat /\ c # 0
  BY ServerAssumption
<1>2. PICK ev, w, q1, q2 : Emits(q, type, c, detail, ev, w, q1, q2)
  BY <1>1, EmitPushes
<1>3. Story(q2.items, c, mode2, errors2, d2)
  BY <1>2, PushOwn DEF Emits
<1>4. Story(ring_push_event(q2, w).items, c, mode2, errors2, d2)
  BY <1>1, <1>2, <1>3, PushOther DEF Emits
<1> QED BY <1>2, <1>3, <1>4 DEF Emits

(* ... and the story of every other one is what it was. *)
Elsewhere(E, F, c) ==
  \A x \in ConnIds \ {c} : \A mode, errors, d :
    Story(E, x, mode, errors, d) => Story(F, x, mode, errors, d)

LEMMA EmitOther ==
  ASSUME NEW q, QueueOK(q), NEW type \in EventTypes, NEW c \in ConnIds, NEW detail \in Details
  PROVE  Elsewhere(q.items, emit(q, type, c, detail).items, c)
<1> SUFFICES ASSUME NEW x \in ConnIds \ {c}, NEW mode, NEW errors, NEW d,
                    Story(q.items, x, mode, errors, d)
             PROVE  Story(emit(q, type, c, detail).items, x, mode, errors, d)
  BY DEF Elsewhere
<1>1. c \in Nat /\ x # 0 /\ x # c
  BY ServerAssumption
<1>2. PICK ev, w, q1, q2 : Emits(q, type, c, detail, ev, w, q1, q2)
  BY <1>1, EmitPushes
<1>3. Story(q2.items, x, mode, errors, d)
  BY <1>1, <1>2, PushOther DEF Emits
<1>4. Story(ring_push_event(q2, w).items, x, mode, errors, d)
  BY <1>1, <1>2, <1>3, PushOther DEF Emits
<1> QED BY <1>2, <1>3, <1>4 DEF Emits

LEMMA ElsewhereSame == ASSUME NEW E, NEW c PROVE Elsewhere(E, E, c)
BY DEF Elsewhere

LEMMA ElsewhereTwice ==
  ASSUME NEW E, NEW F, NEW G, NEW c, Elsewhere(E, F, c), Elsewhere(F, G, c)
  PROVE  Elsewhere(E, G, c)
BY DEF Elsewhere
-----------------------------------------------------------------------------
(* Where the connection in a slot stands. *)
ModeOf(s) == IF idle_reported[s] THEN "idle" ELSE "awake"

SlotStory(s) ==
  Story(events.items, info[s].conn, ModeOf(s), info[s].errors,
        StateDetail(info[s].ready, info[s].detected))

ShutStory(c) == Story(events.items, c, "shut", 0, "none")

StoryInv ==
  /\ \A s \in Slots : used[s] => SlotStory(s)
  /\ \A c \in ConnIds : ~IsOpen(c) => ShutStory(c)

(* An empty log tells any story. *)
LEMMA EmptyStory == ASSUME NEW c, NEW mode, NEW errors, NEW d PROVE Story(<<>>, c, mode, errors, d)
<1>1. Places(<<>>, c) = {}
  BY DEF Places
<1> QED BY <1>1 DEF Story, Coherent, Adjacent, Parted, Ends, Followed, Told

LEMMA InitStory == Init => StoryInv
<1> SUFFICES ASSUME Init PROVE StoryInv
  OBVIOUS
<1>1. events.items = <<>>
  BY DEF Init, EmptyQueue
<1> QED BY <1>1, EmptyStory DEF StoryInv, SlotStory, ShutStory

LEMMA StorySame ==
  ASSUME StoryInv, UNCHANGED <<used, info, idle_reported, events>>
  PROVE  StoryInv'
<1>1. \A c \in ConnIds : IsOpen(c)' <=> IsOpen(c)
  BY DEF IsOpen
<1>2. \A s \in Slots : SlotStory(s)' <=> SlotStory(s)
  BY DEF SlotStory, ModeOf
<1>3. \A c \in ConnIds : ShutStory(c)' <=> ShutStory(c)
  BY DEF ShutStory
<1> QED BY <1>1, <1>2, <1>3 DEF StoryInv

(* A step that concerns one connection and its slot has that one's story   *)
(* to continue.                                                            *)
LEMMA StoryAfter ==
  ASSUME TypeInv, NoOrphanWrites, StoryInv, NEW s \in Slots, NEW c \in ConnIds,
         IF used[s] THEN info[s].conn = c ELSE ~IsOpen(c),
         \A r \in Slots \ {s} : /\ used'[r] = used[r]
                                /\ info'[r] = info[r]
                                /\ idle_reported'[r] = idle_reported[r],
         Elsewhere(events.items, events'.items, c),
         IF used'[s] THEN info'[s].conn = c /\ SlotStory(s)' ELSE ShutStory(c)'
  PROVE  StoryInv'
<1>1. \A r \in Slots \ {s} : used[r] => info[r].conn \in ConnIds \ {c}
  <2>1. \A r \in Slots : used[r] => info[r].conn \in ConnIds
    BY DEF TypeInv, TableOK
  <2>2. \A r \in Slots \ {s} : used[r] => info[r].conn # c
    BY DEF NoOrphanWrites, IsOpen
  <2> QED BY <2>1, <2>2
<1>2. ASSUME NEW r \in Slots, used'[r] PROVE SlotStory(r)'
  <2>1. CASE r = s
    BY <2>1, <1>2
  <2>2. CASE r # s
    <3>1. used[r] /\ info'[r] = info[r] /\ ModeOf(r)' = ModeOf(r)
      BY <1>2, <2>2 DEF ModeOf
    <3>2. SlotStory(r)
      BY <3>1 DEF StoryInv
    <3>3. Story(events'.items, info[r].conn, ModeOf(r), info[r].errors,
                StateDetail(info[r].ready, info[r].detected))
      BY <3>1, <3>2, <1>1, <2>2 DEF SlotStory, Elsewhere
    <3> QED BY <3>1, <3>3 DEF SlotStory
  <2> QED BY <2>1, <2>2
<1>3. ASSUME NEW x \in ConnIds, ~IsOpen(x)' PROVE ShutStory(x)'
  <2>1. CASE x = c
    BY <2>1, <1>3 DEF IsOpen
  <2>2. CASE x # c
    <3>1. ~IsOpen(x)
      <4> SUFFICES ASSUME NEW r \in Slots, used[r], info[r].conn = x PROVE FALSE
        BY DEF IsOpen
      <4>1. r # s
        BY <2>2
      <4> QED BY <4>1, <1>3 DEF IsOpen
    <3>2. ShutStory(x)
      BY <3>1 DEF StoryInv
    <3> QED BY <3>2, <2>2 DEF ShutStory, Elsewhere
  <2> QED BY <2>1, <2>2
<1> QED BY <1>2, <1>3 DEF StoryInv

(* Events that change nothing of where a connection stands. *)
Remarks == {"WARNING", "CLIENT_IDENTIFIED", "PLAYER_INFO_SENT", "SESSION_STATE_SENT",
            "PROTOCOL_ERROR"}

LEMMA RemarkAllowed ==
  ASSUME NEW type \in Remarks, NEW detail, NEW mode \in {"awake", "idle"}, NEW errors, NEW d
  PROVE  Allowed(type, detail, mode, errors, d, mode, errors, d) /\ type \in EventTypes
BY DEF Allowed, Remarks, EventTypes

(* A remark, or none, keeps every story. *)
LEMMA RemarkStory ==
  ASSUME NEW q, QueueOK(q), NEW type \in Remarks, NEW c \in ConnIds, NEW detail \in Details,
         NEW mode \in {"awake", "idle"}, NEW errors, NEW d, Story(q.items, c, mode, errors, d),
         NEW e, e = q \/ e = emit(q, type, c, detail)
  PROVE  QueueOK(e) /\ Story(e.items, c, mode, errors, d) /\ Elsewhere(q.items, e.items, c)
<1>1. Allowed(type, detail, mode, errors, d, mode, errors, d) /\ type \in EventTypes
  BY RemarkAllowed
<1>2. Story(emit(q, type, c, detail).items, c, mode, errors, d)
  BY <1>1, EmitOwn
<1>3. Elsewhere(q.items, emit(q, type, c, detail).items, c)
  BY <1>1, EmitOther
<1>4. QueueOK(emit(q, type, c, detail))
  BY <1>1, EmitConn
<1> QED BY <1>2, <1>3, <1>4, ElsewhereSame

LEMMA SendStory ==
  ASSUME NEW q, QueueOK(q), NEW w, NEW c \in ConnIds, NEW code,
         NEW mode \in {"awake", "idle"}, NEW errors, NEW d, Story(q.items, c, mode, errors, d)
  PROVE  /\ QueueOK(send_event(q, w, c, code))
         /\ Story(send_event(q, w, c, code).items, c, mode, errors, d)
         /\ Elsewhere(q.items, send_event(q, w, c, code).items, c)
<1> DEFINE type == SentType(code)
           e    == send_event(q, w, c, code)
<1>1. type \in Remarks /\ "none" \in Details
  BY DEF SentType, Remarks, Details
<1>2. e = q \/ e = emit(q, type, c, "none")
  BY DEF send_event
<1> HIDE DEF type, e
<1>3. PICK detail \in Details : detail = "none"
  BY <1>1
<1>4. e = q \/ e = emit(q, type, c, detail)
  BY <1>2, <1>3
<1>5. QueueOK(e) /\ Story(e.items, c, mode, errors, d) /\ Elsewhere(q.items, e.items, c)
  BY <1>1, <1>4, RemarkStory
<1> QED BY <1>5 DEF e

LEMMA ModeType == ASSUME NEW s PROVE ModeOf(s) \in {"awake", "idle"}
BY DEF ModeOf
-----------------------------------------------------------------------------
(* Step by step. *)

(* A connection opens: its story was shut. *)
LEMMA OpenedStory ==
  ASSUME TypeInv, NoOrphanWrites, StoryInv, NEW c \in ConnIds, NEW t, OnConnectionOpened(c, t)
  PROVE  StoryInv'
<1> DEFINE tellPlayer == AnnouncePlayer /\ player_set /\ player_has_anything(player)
           tellReady  == AnnounceReady /\ session = "ACTIVE"
           e1 == emit(events, "CONNECTION_OPENED", c, "none")
           w2 == IF tellPlayer THEN queue_write(writes, c, 201, player) ELSE writes
           e2 == IF tellPlayer THEN send_event(e1, writes, c, 201) ELSE e1
           e3 == IF tellReady THEN send_event(e2, w2, c, 202) ELSE e2
           d0 == StateDetail("off", "off")
<1>1. PICK s \in Slots :
        /\ ~used[s]
        /\ used' = [used EXCEPT ![s] = TRUE]
        /\ info' = [info EXCEPT ![s] = NewInfo(c, t)]
        /\ idle_reported' = [idle_reported EXCEPT ![s] = FALSE]
        /\ events' = e3
  BY DEF OnConnectionOpened
<1>2. /\ ~IsOpen(c) /\ QueueOK(events)
      /\ used \in [Slots -> BOOLEAN] /\ info \in [Slots -> Info]
      /\ idle_reported \in [Slots -> BOOLEAN]
  BY DEF OnConnectionOpened, TypeInv, TableOK, RingsOK
<1>3. Story(events.items, c, "shut", 0, "none")
  BY <1>2 DEF StoryInv, ShutStory
<1>4. "CONNECTION_OPENED" \in EventTypes /\ "none" \in Details
  BY DEF EventTypes, Details
<1>5. Allowed("CONNECTION_OPENED", "none", "shut", 0, "none", "awake", 0, d0)
  BY DEF Allowed, Wakes, Calms
<1> HIDE DEF d0
<1>6. Story(e1.items, c, "awake", 0, d0)
  BY <1>2, <1>3, <1>4, <1>5, EmitOwn
<1>7. Elsewhere(events.items, e1.items, c) /\ QueueOK(e1)
  BY <1>2, <1>4, EmitOther, EmitConn
<1>8. PICK awake \in {"awake", "idle"}, zero \in Int, code1 \in Int, code2 \in Int :
        awake = "awake" /\ zero = 0 /\ code1 = 201 /\ code2 = 202
  OBVIOUS
<1>9. e2 = e1 \/ e2 = send_event(e1, writes, c, code1)
  BY <1>8
<1>10. e3 = e2 \/ e3 = send_event(e2, w2, c, code2)
  BY <1>8
<1> HIDE DEF e1, w2, e2, e3, tellPlayer, tellReady
<1>11. QueueOK(e2) /\ Story(e2.items, c, awake, zero, d0) /\ Elsewhere(e1.items, e2.items, c)
  <2>1. QueueOK(e1) /\ Story(e1.items, c, awake, zero, d0)
    BY <1>6, <1>7, <1>8
  <2>2. CASE e2 = e1
    BY <2>1, <2>2, ElsewhereSame
  <2>3. CASE e2 = send_event(e1, writes, c, code1)
    BY <2>1, <2>3, SendStory
  <2> QED BY <2>2, <2>3, <1>9
<1>12. QueueOK(e3) /\ Story(e3.items, c, awake, zero, d0) /\ Elsewhere(e2.items, e3.items, c)
  <2>1. CASE e3 = e2
    BY <2>1, <1>11, ElsewhereSame
  <2>2. CASE e3 = send_event(e2, w2, c, code2)
    BY <2>2, <1>11, SendStory
  <2> QED BY <2>1, <2>2, <1>10
<1>13. Elsewhere(events.items, e3.items, c)
  BY <1>7, <1>11, <1>12, ElsewhereTwice
<1>14. used'[s] /\ info'[s] = NewInfo(c, t) /\ ~idle_reported'[s]
  BY <1>1, <1>2
<1>15. SlotStory(s)' /\ info'[s].conn = c
  <2>1. ModeOf(s)' = "awake"
    BY <1>14 DEF ModeOf
  <2>2. /\ info'[s].conn = c /\ info'[s].errors = 0
        /\ info'[s].ready = "off" /\ info'[s].detected = "off"
    BY <1>14 DEF NewInfo
  <2>3. StateDetail(info'[s].ready, info'[s].detected) = d0
    BY <2>2 DEF d0
  <2> QED BY <2>1, <2>2, <2>3, <1>1, <1>8, <1>12 DEF SlotStory
<1>16. \A r \in Slots \ {s} : /\ used'[r] = used[r]
                              /\ info'[r] = info[r]
                              /\ idle_reported'[r] = idle_reported[r]
  BY <1>1, <1>2
<1> QED BY <1>1, <1>2, <1>13, <1>14, <1>15, <1>16, StoryAfter

(* The connection in a slot closes. *)
LEMMA SlotClosedStory ==
  ASSUME TypeInv, NoOrphanWrites, StoryInv, NEW s \in Slots, used[s], NEW detail \in Details,
         used' = [used EXCEPT ![s] = FALSE], UNCHANGED <<info, idle_reported>>,
         events' = emit(events, "CONNECTION_CLOSED", info[s].conn, detail)
  PROVE  StoryInv'
<1> DEFINE c == info[s].conn
           d == StateDetail(info[s].ready, info[s].detected)
<1>1. c \in ConnIds /\ QueueOK(events) /\ used \in [Slots -> BOOLEAN]
  BY DEF TypeInv, TableOK, RingsOK
<1>2. Story(events.items, c, ModeOf(s), info[s].errors, d)
  BY DEF StoryInv, SlotStory
<1>3. ModeOf(s) # "shut"
  BY DEF ModeOf
<1> HIDE DEF d
<1>4. "CONNECTION_CLOSED" \in EventTypes
  BY DEF EventTypes
<1>5. Allowed("CONNECTION_CLOSED", detail, ModeOf(s), info[s].errors, d, "shut", 0, "none")
  BY <1>3 DEF Allowed, Wakes, Calms
<1>6. Story(events'.items, c, "shut", 0, "none")
  BY <1>1, <1>2, <1>4, <1>5, EmitOwn
<1>7. Elsewhere(events.items, events'.items, c)
  BY <1>1, <1>4, EmitOther
<1>8. ~used'[s] /\ ShutStory(c)'
  BY <1>1, <1>6 DEF ShutStory
<1>9. \A r \in Slots \ {s} : /\ used'[r] = used[r]
                             /\ info'[r] = info[r]
                             /\ idle_reported'[r] = idle_reported[r]
  BY <1>1
<1> QED BY <1>1, <1>7, <1>8, <1>9, StoryAfter

(* What is said of the connection in a slot moves its story to where the   *)
(* slot now stands.                                                        *)
LEMMA SlotMoved ==
  ASSUME TypeInv, NoOrphanWrites, StoryInv, NEW s \in Slots, used[s], UNCHANGED used,
         info'[s].conn = info[s].conn,
         \A r \in Slots \ {s} : info'[r] = info[r] /\ idle_reported'[r] = idle_reported[r],
         Elsewhere(events.items, events'.items, info[s].conn),
         SlotStory(s)'
  PROVE  StoryInv'
<1>1. info[s].conn \in ConnIds
  BY DEF TypeInv, TableOK
<1>2. used'[s] /\ \A r \in Slots \ {s} : used'[r] = used[r]
  OBVIOUS
<1> QED BY <1>1, <1>2, StoryAfter

(* A remark, or none, about the connection in a slot. *)
LEMMA SlotRemarked ==
  ASSUME TypeInv, NoOrphanWrites, StoryInv, NEW s \in Slots, used[s],
         UNCHANGED <<used, info, idle_reported>>,
         NEW type \in Remarks, NEW detail \in Details,
         events' = events \/ events' = emit(events, type, info[s].conn, detail)
  PROVE  StoryInv'
<1> DEFINE c == info[s].conn
           mode == ModeOf(s)
           d == StateDetail(info[s].ready, info[s].detected)
           errors == info[s].errors
<1>1. c \in ConnIds /\ QueueOK(events) /\ mode \in {"awake", "idle"}
  BY ModeType DEF TypeInv, TableOK, RingsOK
<1>2. Story(events.items, c, mode, errors, d)
  BY DEF StoryInv, SlotStory
<1>3. mode' = mode /\ d' = d /\ errors' = errors
  BY DEF ModeOf
<1>4. events' = events \/ events' = emit(events, type, c, detail)
  OBVIOUS
<1>5. SlotStory(s)' <=> Story(events'.items, c, mode, errors, d)
  BY <1>3 DEF SlotStory
<1> HIDE DEF mode, d, errors, c
<1>6. Story(events'.items, c, mode, errors, d) /\ Elsewhere(events.items, events'.items, c)
  BY <1>1, <1>2, <1>4, RemarkStory
<1> QED BY <1>5, <1>6, SlotMoved DEF c

LEMMA SlotSent ==
  ASSUME TypeInv, NoOrphanWrites, StoryInv, NEW s \in Slots, used[s],
         UNCHANGED <<used, info, idle_reported>>, NEW code,
         events' = send_event(events, writes, info[s].conn, code)
  PROVE  StoryInv'
<1> DEFINE type == SentType(code)
<1>1. type \in Remarks /\ "none" \in Details
  BY DEF SentType, Remarks, Details
<1>2. events' = events \/ events' = emit(events, type, info[s].conn, "none")
  BY DEF send_event
<1> HIDE DEF type
<1>3. PICK detail \in Details : detail = "none"
  BY <1>1
<1>4. events' = events \/ events' = emit(events, type, info[s].conn, detail)
  BY <1>2, <1>3
<1> QED BY <1>1, <1>4, SlotRemarked

(* One event, or none where the connection already stands as it says. *)
LEMMA EmitMoves ==
  ASSUME NEW q, QueueOK(q), NEW type \in EventTypes, NEW c \in ConnIds, NEW detail \in Details,
         NEW mode, NEW errors, NEW d, NEW mode2, NEW errors2, NEW d2,
         Story(q.items, c, mode, errors, d),
         Allowed(type, detail, mode, errors, d, mode2, errors2, d2),
         NEW e, e = emit(q, type, c, detail)
  PROVE  QueueOK(e) /\ Story(e.items, c, mode2, errors2, d2) /\ Elsewhere(q.items, e.items, c)
BY EmitOwn, EmitOther, EmitConn

(* deliver_message: the client wakes, is identified, changes state, and    *)
(* ends its run of errors, in this order.                                  *)
LEMMA DeliverStory ==
  ASSUME TypeInv, NoOrphanWrites, StoryInv, NEW m \in Messages, DeliverMessage(m)
  PROVE  StoryInv'
<1> DEFINE i  == info[cur]
           c  == i.conn
           ready    == Flag(m.ready, i.ready)
           detected == Flag(m.detected, i.detected)
           d0 == StateDetail(i.ready, i.detected)
           d2 == StateDetail(ready, detected)
           e1 == IF idle_reported[cur] THEN emit(events, "CLIENT_ACTIVE", c, "none") ELSE events
           e2 == IF m.device \in {NoDevice, i.device} THEN e1
                 ELSE IF i.device = NoDevice THEN emit(e1, "CLIENT_IDENTIFIED", c, "none")
                 ELSE emit(e1, "WARNING", c, "DEVICE_ID_CHANGED")
           e3 == IF SameState(i, ready, detected) THEN e2
                 ELSE emit(e2, "CLIENT_STATE", c, d2)
           detail == IF Repeated(i, m) THEN "repeated" ELSE "none"
           errors == i.errors
<1>1. /\ cur \in Slots /\ c \in ConnIds /\ i \in Info /\ used[cur] /\ QueueOK(events)
      /\ info \in [Slots -> Info] /\ idle_reported \in [Slots -> BOOLEAN]
  BY DEF DeliverMessage, MayFeed, Framing, TypeInv, TableOK, CallOK, RingsOK
<1>2. /\ m.kind \in EventTypes /\ m.kind \in MessageTypes
      /\ ready \in {"on", "off"} /\ detected \in {"on", "off"}
  BY <1>1, MessageOK, ServerAssumption DEF Kinds, MessageTypes
<1>3. Story(events.items, c, ModeOf(cur), errors, d0)
  BY <1>1 DEF StoryInv, SlotStory
<1>4. events' = emit(e3, m.kind, c, detail) /\ UNCHANGED used
  BY DEF DeliverMessage
<1>5. /\ info'[cur].conn = c /\ info'[cur].errors = 0
      /\ info'[cur].ready = ready /\ info'[cur].detected = detected
      /\ ~idle_reported'[cur]
      /\ \A r \in Slots \ {cur} : info'[r] = info[r] /\ idle_reported'[r] = idle_reported[r]
  <2> DEFINE shot   == IF m.kind = "SHOT" THEN m.shot ELSE i.last_shot
             device == IF i.device = NoDevice THEN m.device ELSE i.device
             new == [i EXCEPT !.last_message = now, !.errors = 0, !.last_shot = shot,
                              !.device = device, !.ready = ready, !.detected = detected]
  <2>1. info' = [info EXCEPT ![cur] = new] /\ idle_reported' = [idle_reported EXCEPT ![cur] = FALSE]
    BY DEF DeliverMessage
  <2> HIDE DEF shot, device, ready, detected
  <2>2. new.conn = c /\ new.errors = 0 /\ new.ready = ready /\ new.detected = detected
    BY <1>1 DEF Info
  <2> HIDE DEF new, i
  <2> QED BY <1>1, <2>1, <2>2
<1>6. d2 \in Details /\ detail \in Details
  BY <1>2 DEF StateDetail, Details
<1>7. SameState(i, ready, detected) => d2 = d0
  BY DEF SameState
<1> PICK s \in Slots : s = cur
  BY <1>1
<1>8. SlotStory(s)' <=> Story(events'.items, c, "awake", 0, d2)
  <2>1. ModeOf(s)' = "awake" /\ info'[s].errors = 0 /\ info'[s].conn = c
    BY <1>5 DEF ModeOf
  <2>2. StateDetail(info'[s].ready, info'[s].detected) = d2
    BY <1>5
  <2> QED BY <2>1, <2>2 DEF SlotStory
<1>9. /\ {"CLIENT_ACTIVE", "CLIENT_STATE"} \subseteq EventTypes
      /\ {"CLIENT_IDENTIFIED", "WARNING"} \subseteq Remarks
      /\ {"none", "DEVICE_ID_CHANGED"} \subseteq Details
  BY DEF EventTypes, Details, Remarks
<1> HIDE DEF i, c, ready, detected, d0, d2, detail, errors
<1>10. /\ QueueOK(e1) /\ Story(e1.items, c, "awake", errors, d0)
       /\ Elsewhere(events.items, e1.items, c)
  <2>1. CASE idle_reported[cur]
    <3>1. e1 = emit(events, "CLIENT_ACTIVE", c, "none") /\ ModeOf(cur) = "idle"
      BY <2>1 DEF ModeOf
    <3>2. Allowed("CLIENT_ACTIVE", "none", "idle", errors, d0, "awake", errors, d0)
      BY DEF Allowed, Wakes
    <3> HIDE DEF e1
    <3> QED BY <3>1, <3>2, <1>1, <1>3, <1>9, EmitMoves
  <2>2. CASE ~idle_reported[cur]
    BY <2>2, <1>1, <1>3, ElsewhereSame DEF ModeOf
  <2> QED BY <2>1, <2>2
<1>11. PICK awake \in {"awake", "idle"}, zero \in Int : awake = "awake" /\ zero = 0
  OBVIOUS
<1>12. QueueOK(e2) /\ Story(e2.items, c, awake, errors, d0) /\ Elsewhere(e1.items, e2.items, c)
  <2>1. QueueOK(e1) /\ Story(e1.items, c, awake, errors, d0)
    BY <1>10, <1>11
  <2>2. PICK ident \in Remarks, warning \in Remarks, none \in Details, changed \in Details :
          /\ ident = "CLIENT_IDENTIFIED" /\ warning = "WARNING"
          /\ none = "none" /\ changed = "DEVICE_ID_CHANGED"
    BY <1>9
  <2>3. e2 = e1 \/ e2 = emit(e1, ident, c, none) \/ e2 = emit(e1, warning, c, changed)
    BY <2>2
  <2> HIDE DEF e1, e2
  <2>4. CASE e2 = e1 \/ e2 = emit(e1, ident, c, none)
    BY <2>1, <2>4, <1>1, RemarkStory
  <2>5. CASE e2 = emit(e1, warning, c, changed)
    BY <2>1, <2>5, <1>1, RemarkStory
  <2> QED BY <2>3, <2>4, <2>5
<1>13. QueueOK(e3) /\ Story(e3.items, c, awake, errors, d2) /\ Elsewhere(e2.items, e3.items, c)
  <2>1. CASE SameState(i, ready, detected)
    BY <2>1, <1>7, <1>12, ElsewhereSame
  <2>2. CASE ~SameState(i, ready, detected)
    <3>1. Allowed("CLIENT_STATE", d2, awake, errors, d0, awake, errors, d2)
      BY <1>11 DEF Allowed
    <3>2. e3 = emit(e2, "CLIENT_STATE", c, d2)
      BY <2>2
    <3> HIDE DEF e2, e3
    <3> QED BY <3>1, <3>2, <1>1, <1>6, <1>9, <1>12, EmitMoves
  <2> QED BY <2>1, <2>2
<1> HIDE DEF e1, e2, e3
<1>14. Story(events'.items, c, awake, zero, d2) /\ Elsewhere(e3.items, events'.items, c)
  <2>1. Allowed(m.kind, detail, awake, errors, d2, awake, zero, d2)
    BY <1>2, <1>11 DEF Allowed, MessageTypes, Calms
  <2> QED BY <2>1, <1>1, <1>2, <1>4, <1>6, <1>13, EmitMoves
<1>15. Elsewhere(events.items, events'.items, c)
  BY <1>10, <1>12, <1>13, <1>14, ElsewhereTwice
<1>16. SlotStory(s)'
  BY <1>8, <1>11, <1>14
<1> QED BY <1>1, <1>4, <1>5, <1>15, <1>16, SlotMoved DEF c, i

(* The run of errors only matters below the threshold. *)
LEMMA StoryErrors ==
  ASSUME NEW E, NEW c, NEW mode, NEW errors, NEW errors2, NEW d, Story(E, c, mode, errors, d),
         errors2 < CloseThreshold => errors < CloseThreshold
  PROVE  Story(E, c, mode, errors2, d)
BY DEF Story

(* A protocol error: the one that reaches the threshold asks for the       *)
(* close, and the counter is below it again only after a good message.     *)
LEMMA DiscardStory ==
  ASSUME TypeInv, NoOrphanWrites, StoryInv, pc = "frame", NEW reason \in Details, Discard(reason)
  PROVE  StoryInv'
<1> DEFINE c      == info[cur].conn
           old    == info[cur].errors
           errors == Least(info[cur].errors + 1, ErrorCap)
           e      == emit(events, "PROTOCOL_ERROR", c, reason)
           d      == StateDetail(info[cur].ready, info[cur].detected)
           mode   == ModeOf(cur)
<1>1. /\ cur \in Slots /\ c \in ConnIds /\ used[cur] /\ QueueOK(events)
      /\ info \in [Slots -> Info] /\ mode \in {"awake", "idle"}
  BY ModeType DEF TypeInv, TableOK, CallOK, RingsOK
<1>2. Story(events.items, c, mode, old, d)
  BY <1>1 DEF StoryInv, SlotStory
<1>3. /\ UNCHANGED <<used, idle_reported>> /\ info' = [info EXCEPT ![cur].errors = errors]
      /\ events' = IF AtThreshold(errors) THEN emit(e, "CLOSE_REQUESTED", c, reason) ELSE e
  BY DEF Discard, protocol_error
<1>4. old \in Nat /\ CloseThreshold \in Nat /\ ErrorCap \in Nat /\ ErrorCap > CloseThreshold
  BY <1>1, ServerAssumption DEF Info
<1>5. /\ AtThreshold(errors) => old < CloseThreshold /\ ~(errors < CloseThreshold)
      /\ errors < CloseThreshold => old < CloseThreshold
  BY <1>4 DEF AtThreshold, Least
<1> HIDE DEF errors
<1>6. /\ info'[cur].conn = c /\ info'[cur].errors = errors
      /\ info'[cur].ready = info[cur].ready /\ info'[cur].detected = info[cur].detected
      /\ \A r \in Slots \ {cur} : info'[r] = info[r] /\ idle_reported'[r] = idle_reported[r]
  BY <1>1, <1>3 DEF Info
<1> PICK s \in Slots : s = cur
  BY <1>1
<1>7. SlotStory(s)' <=> Story(events'.items, c, mode, errors, d)
  <2>1. ModeOf(s)' = mode /\ info'[s].errors = errors /\ info'[s].conn = c
    BY <1>3, <1>6 DEF ModeOf
  <2>2. StateDetail(info'[s].ready, info'[s].detected) = d
    BY <1>6
  <2> QED BY <2>1, <2>2 DEF SlotStory
<1>8. "PROTOCOL_ERROR" \in Remarks /\ "CLOSE_REQUESTED" \in EventTypes
  BY DEF Remarks, EventTypes
<1> HIDE DEF c, old, d, mode
<1>9. QueueOK(e) /\ Story(e.items, c, mode, old, d) /\ Elsewhere(events.items, e.items, c)
  <2>1. PICK type \in Remarks : type = "PROTOCOL_ERROR"
    BY <1>8
  <2>2. e = emit(events, type, c, reason)
    BY <2>1
  <2> HIDE DEF e
  <2>3. Allowed(type, reason, mode, old, d, mode, old, d) /\ type \in EventTypes
    BY <1>1, RemarkAllowed
  <2> QED BY <1>1, <1>2, <2>2, <2>3, EmitMoves
<1> HIDE DEF e
<1>10. Story(events'.items, c, mode, errors, d) /\ Elsewhere(e.items, events'.items, c)
  <2>1. CASE AtThreshold(errors)
    <3>1. Allowed("CLOSE_REQUESTED", reason, mode, old, d, mode, errors, d)
      BY <2>1, <1>1, <1>5 DEF Allowed
    <3>2. events' = emit(e, "CLOSE_REQUESTED", c, reason)
      BY <2>1, <1>3
    <3> QED BY <3>1, <3>2, <1>1, <1>8, <1>9, EmitMoves
  <2>2. CASE ~AtThreshold(errors)
    <3>1. events' = e
      BY <2>2, <1>3
    <3>2. Story(e.items, c, mode, errors, d)
      BY <1>5, <1>9, StoryErrors
    <3> QED BY <3>1, <3>2, ElsewhereSame
  <2> QED BY <2>1, <2>2
<1>11. Elsewhere(events.items, events'.items, c)
  BY <1>9, <1>10, ElsewhereTwice
<1> QED BY <1>1, <1>3, <1>6, <1>7, <1>10, <1>11, SlotMoved DEF c

(* tick reports a silence once: the deadline of a client already reported  *)
(* is never.                                                               *)
LEMMA TickStory ==
  ASSUME TypeInv, NoOrphanWrites, StoryInv, TickSlot
  PROVE  StoryInv'
<1>1. CASE ~(used[cur] /\ idle_deadline(cur) <= now)
  BY <1>1, StorySame DEF TickSlot
<1>2. CASE used[cur] /\ idle_deadline(cur) <= now
  <2> DEFINE c      == info[cur].conn
             errors == info[cur].errors
             d      == StateDetail(info[cur].ready, info[cur].detected)
  <2>1. /\ cur \in Slots /\ c \in ConnIds /\ QueueOK(events)
        /\ idle_reported \in [Slots -> BOOLEAN]
    BY <1>2 DEF TypeInv, TableOK, CallOK, RingsOK
  <2>2. ~idle_reported[cur]
    <3>1. now \in 0..MaxNow /\ MaxNow \in Nat /\ IdleAlarm \in Nat /\ WriteSpacing \in Nat
      BY ServerAssumption DEF TypeInv, HostOK, Times
    <3>2. ~(TimeNever <= now)
      BY <3>1 DEF TimeNever
    <3> QED BY <1>2, <3>2 DEF idle_deadline
  <2>3. /\ UNCHANGED <<used, info>> /\ idle_reported' = [idle_reported EXCEPT ![cur] = TRUE]
        /\ events' = emit(events, "CLIENT_IDLE", c, "none")
    BY <1>2 DEF TickSlot
  <2>4. Story(events.items, c, "awake", errors, d)
    BY <1>2, <2>1, <2>2 DEF StoryInv, SlotStory, ModeOf
  <2>5. idle_reported'[cur] /\ \A r \in Slots \ {cur} : idle_reported'[r] = idle_reported[r]
    BY <2>1, <2>3
  <2> PICK s \in Slots : s = cur
    BY <2>1
  <2>6. SlotStory(s)' <=> Story(events'.items, c, "idle", errors, d)
    BY <2>3, <2>5 DEF SlotStory, ModeOf
  <2>7. "CLIENT_IDLE" \in EventTypes /\ "none" \in Details
    BY DEF EventTypes, Details
  <2> HIDE DEF c, errors, d
  <2>8. Allowed("CLIENT_IDLE", "none", "awake", errors, d, "idle", errors, d)
    BY DEF Allowed
  <2>9. Story(events'.items, c, "idle", errors, d) /\ Elsewhere(events.items, events'.items, c)
    BY <2>1, <2>3, <2>4, <2>7, <2>8, EmitMoves
  <2> QED BY <1>2, <2>1, <2>3, <2>5, <2>6, <2>9, SlotMoved DEF c
<1> QED BY <1>1, <1>2

(* Polling takes the oldest entry of whichever connection it is about. *)
LEMMA PollStory ==
  ASSUME TypeInv, StoryInv, PollEvent
  PROVE  StoryInv'
<1>1. /\ UNCHANGED <<used, info, idle_reported>> /\ events.items \in Seq(Event)
      /\ events'.items = IF events.items = <<>> THEN <<>> ELSE Tail(events.items)
  BY DEF PollEvent, connVars, poll_event, TypeInv, RingsOK, QueueOK
<1>2. ASSUME NEW c, NEW mode, NEW errors, NEW d, Story(events.items, c, mode, errors, d)
      PROVE  Story(events'.items, c, mode, errors, d)
  BY <1>1, <1>2, StoryTail
<1>3. \A s \in Slots : SlotStory(s) => SlotStory(s)'
  BY <1>1, <1>2 DEF SlotStory, ModeOf
<1>4. \A c \in ConnIds : ShutStory(c) => ShutStory(c)'
  BY <1>2 DEF ShutStory
<1>5. \A c \in ConnIds : IsOpen(c)' <=> IsOpen(c)
  BY <1>1 DEF IsOpen
<1> QED BY <1>1, <1>3, <1>4, <1>5 DEF StoryInv

LEMMA NextStory ==
  ASSUME TypeInv, NoOrphanWrites, StoryInv, [Next]_vars
  PROVE  StoryInv'
<1>1. CASE HostCall
  <2> USE <1>1
  <2>1. PICK t \in now..MaxNow :
          \/ \E c \in ConnIds : \/ OnConnectionOpened(c, t)
                                \/ OnConnectionClosed(c, t)
                                \/ \E d \in Reads : OnBytes(c, d, t)
                                \/ \E p \in PlayerArgs : SendPlayerInfo(c, p, t)
          \/ \E p \in PlayerInputs : SetPlayer(p, t)
          \/ \E p \in PlayerArgs : SendPlayerInfoAll(p, t)
          \/ \E state \in SessionInputs : SetSessionState(state, t)
          \/ Tick(t)
    BY DEF HostCall
  <2>2. ASSUME NEW c \in ConnIds, OnConnectionOpened(c, t) PROVE StoryInv'
    BY <2>2, OpenedStory
  <2>3. ASSUME NEW c \in ConnIds, OnConnectionClosed(c, t) PROVE StoryInv'
    <3> DEFINE s == find_conn(c)
    <3>1. s \in Slots /\ used[s] /\ info[s].conn = c
      BY <2>3, FindConn DEF OnConnectionClosed
    <3>2. /\ used' = [used EXCEPT ![s] = FALSE] /\ UNCHANGED <<info, idle_reported>>
          /\ events' = emit(events, "CONNECTION_CLOSED", c, "none")
      BY <2>3 DEF OnConnectionClosed
    <3>3. PICK none \in Details : none = "none"
      BY DEF Details
    <3> HIDE DEF s
    <3>4. events' = emit(events, "CONNECTION_CLOSED", info[s].conn, none)
      BY <3>1, <3>2, <3>3
    <3> QED BY <3>1, <3>2, <3>4, SlotClosedStory
  <2>4. ASSUME NEW c \in ConnIds, NEW p \in PlayerArgs, SendPlayerInfo(c, p, t), IsOpen(c)
        PROVE  StoryInv'
    <3> DEFINE s == find_conn(c)
    <3>1. s \in Slots /\ used[s] /\ info[s].conn = c
      BY <2>4, FindConn DEF SendPlayerInfo
    <3> HIDE DEF s
    <3>2. PICK code : code = 201
      OBVIOUS
    <3>3. /\ UNCHANGED <<used, info, idle_reported>>
          /\ events' = send_event(events, writes, info[s].conn, code)
      BY <2>4, <3>1, <3>2 DEF SendPlayerInfo, connVars
    <3> QED BY <3>1, <3>3, SlotSent
  <2>5. ASSUME \/ \E c \in ConnIds, d \in Reads : OnBytes(c, d, t)
               \/ \E c \in ConnIds, p \in PlayerArgs : SendPlayerInfo(c, p, t) /\ ~IsOpen(c)
               \/ \E p \in PlayerInputs : SetPlayer(p, t)
               \/ \E p \in PlayerArgs : SendPlayerInfoAll(p, t)
               \/ \E state \in SessionInputs : SetSessionState(state, t)
               \/ Tick(t)
        PROVE  StoryInv'
    <3>1. UNCHANGED <<used, info, idle_reported, events>>
      BY <2>5 DEF OnBytes, SendPlayerInfo, SetPlayer, SendPlayerInfoAll, SetSessionState, Tick,
                  connVars
    <3> QED BY <3>1, StorySame
  <2> QED BY <2>1, <2>2, <2>3, <2>4, <2>5
<1>2. CASE Poll \/ Close \/ UNCHANGED vars
  <2>1. CASE PollWrite \/ Close \/ UNCHANGED vars
    BY <2>1, StorySame DEF PollWrite, Close, connVars, vars
  <2> QED BY <1>2, <2>1, PollStory DEF Poll
<1>3. CASE RefuseAndRetain \/ RefuseAndLose
  <2>1. /\ UNCHANGED <<used, info, idle_reported>> /\ pc = "frame"
        /\ events' = emit(events, "WARNING", info[cur].conn, "WRITE_RING_FULL")
    BY <1>3 DEF RefuseAndRetain, RefuseAndLose, Framing, connVars
  <2>2. cur \in Slots /\ used[cur]
    BY <2>1 DEF TypeInv, CallOK
  <2>3. PICK type \in Remarks, detail \in Details : type = "WARNING" /\ detail = "WRITE_RING_FULL"
    BY DEF Remarks, Details
  <2> QED BY <2>1, <2>2, <2>3, SlotRemarked
<1>4. CASE Garbage \/ TooLarge \/ BadJson
  <2>1. pc = "frame" /\ \E reason \in Details : Discard(reason)
    BY <1>4 DEF Garbage, TooLarge, BadJson, MayFeed, Framing, Details
  <2> QED BY <2>1, DiscardStory
<1>5. CASE FillRx \/ SkipWhitespace \/ FeedByte \/ FrameDone
  BY <1>5, StorySame DEF FillRx, SkipWhitespace, FeedByte, FrameDone, connVars
<1>6. CASE AnnounceToSlot
  <2>1. CASE used[cur]
    <3>1. cur \in Slots
      BY DEF TypeInv, CallOK
    <3>2. /\ UNCHANGED <<used, info, idle_reported>>
          /\ events' = send_event(events, writes, info[cur].conn, item.code)
      BY <1>6, <2>1 DEF AnnounceToSlot, connVars
    <3> QED BY <2>1, <3>1, <3>2, SlotSent
  <2>2. CASE ~used[cur]
    BY <1>6, <2>2, StorySame DEF AnnounceToSlot, connVars
  <2> QED BY <2>1, <2>2
<1>7. CASE CloseSlot
  <2>1. CASE used[cur]
    <3>1. cur \in Slots
      BY DEF TypeInv, CallOK
    <3>2. PICK detail \in Details : detail = "SERVER_CLOSED"
      BY DEF Details
    <3>3. /\ used' = [used EXCEPT ![cur] = FALSE] /\ UNCHANGED <<info, idle_reported>>
          /\ events' = emit(events, "CONNECTION_CLOSED", info[cur].conn, detail)
      BY <1>7, <2>1, <3>2 DEF CloseSlot
    <3> QED BY <2>1, <3>1, <3>3, SlotClosedStory
  <2>2. CASE ~used[cur]
    BY <1>7, <2>2, StorySame DEF CloseSlot
  <2> QED BY <2>1, <2>2
<1> QED BY <1>1, <1>2, <1>3, <1>4, <1>5, <1>6, <1>7, TickStory, DeliverStory DEF Next, CallStep

LEMMA StoryHolds == Spec => []StoryInv
<1>1. TypeInv /\ OwnerInv /\ StoryInv /\ [Next]_vars => StoryInv'
  BY NextStory DEF OwnerInv
<1> QED BY <1>1, InitStory, Typed, OwnerInvHolds, PTL DEF Spec

(* Whatever the ring has dropped, what it holds about a connection makes   *)
(* sense: OPENED follows CLOSED and nothing else does, idle and active     *)
(* alternate, and a close is requested once per run of errors.             *)
THEOREM LogCoherent == Spec => []LogIsCoherent
<1>1. TypeInv /\ StoryInv => LogIsCoherent
  <2> SUFFICES ASSUME TypeInv, StoryInv PROVE LogIsCoherent
    OBVIOUS
  <2>1. \A c \in ConnIds : Coherent(events.items, c)
    BY DEF StoryInv, ShutStory, SlotStory, IsOpen, Story
  <2>2. \A c : OfConn(c) = Places(events.items, c)
    BY DEF OfConn, Places
  <2>3. \A a, S : (\A c \in ConnIds : Parted(events.items, c, a, S)) => Separated(a, S)
    BY <2>2 DEF Parted, Separated, TypeAt
  <2>4. /\ Separated("CLIENT_IDLE", Wakes) /\ Separated("CLIENT_ACTIVE", {"CLIENT_IDLE"})
        /\ Separated("CLOSE_REQUESTED", Calms)
    BY <2>1, <2>3 DEF Coherent
  <2>5. \A c \in ConnIds : Adjacent(events.items, c)
    BY <2>1 DEF Coherent
  <2> QED BY <2>2, <2>4, <2>5 DEF LogIsCoherent, Adjacent, TypeAt, Wakes, Calms
<1> QED BY <1>1, StoryHolds, Typed, PTL

(* The last CLIENT_STATE in the log of an open connection is its state. *)
THEOREM LogUpToDate == Spec => []LogTellsState
<1>1. StoryInv => LogTellsState
  <2> SUFFICES ASSUME StoryInv, NEW s \in Slots, used[s]
               PROVE  LET marks == {k \in OfConn(info[s].conn) : TypeAt(k) \in Marks}
                      IN  \A k \in marks :
                            TypeAt(k) = "CLIENT_STATE" /\ (\A i \in marks : i <= k) =>
                            events.items[k].detail = StateDetail(info[s].ready, info[s].detected)
    BY DEF LogTellsState, Marks
  <2>1. Told(events.items, info[s].conn, StateDetail(info[s].ready, info[s].detected))
    BY DEF StoryInv, SlotStory, Story, ModeOf
  <2> QED BY <2>1 DEF Told, OfConn, Places, TypeAt
<1> QED BY <1>1, StoryHolds, PTL
=============================================================================
