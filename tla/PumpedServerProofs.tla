------------------------- MODULE PumpedServerProofs -------------------------
(***************************************************************************)
(* What the host's pump adds to the server's safety: with the ring drained *)
(* and refused connections resumed before every other call, no send finds  *)
(* the ring full and no input is lost of a read that rx can hold.          *)
(***************************************************************************)
EXTENDS PumpedServer, ServerProofs

(***************************************************************************)
(* The pump's calls are the server's own, and Resume is on_bytes with no   *)
(* bytes: the server's invariants hold under the pump too.                 *)
(***************************************************************************)
BaseInv == TypeInv /\ RingInv /\ AssemblyInv

LEMMA InitBase == PumpedInit => BaseInv
BY InitTypeInv, InitRingInv, InitAssembly DEF BaseInv, PumpedInit

(* Resume hands on_bytes an open connection and no input. *)
LEMMA ResumeCalls ==
  ASSUME TypeInv, NEW s \in Slots, Resume(s)
  PROVE  /\ info[s].conn \in ConnIds /\ OnBytes(info[s].conn, <<>>, now)
         /\ writes = <<>>
BY DEF TypeInv, TableOK, Resume, Retained, Drained

LEMMA ResumeBase ==
  ASSUME BaseInv, NEW s \in Slots, Resume(s) PROVE BaseInv'
<1>1. /\ TypeInv /\ RingInv /\ AssemblyInv
      /\ info[s].conn \in ConnIds /\ OnBytes(info[s].conn, <<>>, now)
  BY ResumeCalls DEF BaseInv
<1>2. TypeInv'
  <2>1. <<>> \in Seq(Byte) /\ now \in Times
    BY <1>1 DEF TypeInv, HostOK
  <2> QED BY <1>1, <2>1, OnBytesType
<1>3. /\ pc = "host" /\ pc' = "fill" /\ took' = FALSE /\ fresh' = FALSE
      /\ UNCHANGED writes /\ UNCHANGED rxVars
  BY <1>1 DEF OnBytes, Idle
<1>4. RingInv'
  BY <1>1, <1>3, NotFresh DEF RingInv
<1>5. AssemblyInv'
  BY <1>1, <1>3, AssemblySame
<1> QED BY <1>2, <1>4, <1>5 DEF BaseInv

LEMMA PumpedBase == BaseInv /\ [PumpedNext]_pumpVars => BaseInv'
<1> SUFFICES ASSUME BaseInv, [PumpedNext]_pumpVars PROVE BaseInv'
  OBVIOUS
<1>1. TypeInv /\ RingInv /\ AssemblyInv
  BY DEF BaseInv
<1>2. CASE UNCHANGED vars
  <2>1. TypeInv'
    BY <1>1, <1>2, NextTypeInv
  <2>2. RingInv'
    BY <1>1, <1>2 DEF vars, callVars, RingInv
  <2>3. AssemblyInv'
    BY <1>1, <1>2 DEF vars, rxVars, callVars, AssemblyInv, Assembling
  <2> QED BY <2>1, <2>2, <2>3 DEF BaseInv
<1>3. CASE \E s \in Slots : Resume(s)
  BY <1>3, ResumeBase
<1>4. CASE HostCall \/ Poll \/ Close \/ CallStep
  <2>1. TypeInv'
    BY <1>1, <1>4, NextTypeInv DEF Next
  <2>2. RingInv'
    BY <1>1, <1>4, HostCallRing, CallStepRing
  <2>3. AssemblyInv'
    BY <1>1, <1>4, HostAssembly, CallStepAssembly
  <2> QED BY <2>1, <2>2, <2>3 DEF BaseInv
<1>5. CASE PumpedNext
  BY <1>3, <1>4, <1>5 DEF PumpedNext, PumpedCall
<1> QED BY <1>2, <1>5 DEF pumpVars

LEMMA PumpedBaseHolds == PumpedSpec => []BaseInv
BY InitBase, PumpedBase, PTL DEF PumpedSpec
-----------------------------------------------------------------------------
(***************************************************************************)
(* Sends.  The reply to an object that an earlier call opened finds the    *)
(* ring as this call did, empty; an announcement has queued at most one    *)
(* write for each slot it has passed.                                      *)
(***************************************************************************)
QueueInv ==
  /\ pc \in {"fill", "frame"} /\ in_message(framer[cur]) /\ ~fresh => writes = <<>>
  /\ pc = "announce" => Len(writes) <= cur - 1

(* A step of the pump that starts a call finds the ring drained. *)
LEMMA CallsFindRingDrained ==
  ASSUME TypeInv, [PumpedNext]_pumpVars, pc = "host"
  PROVE  \/ pc' = "host"
         \/ pc' \in {"fill", "announce"} /\ writes' = <<>> /\ (pc' = "announce" => cur' = 1)
         \/ pc' \in {"tick", "closing"}
<1>1. CASE UNCHANGED vars
  BY <1>1 DEF vars, callVars
<1>2. CASE \E s \in Slots : Resume(s)
  BY <1>2 DEF Resume, Drained, OnBytes
<1>3. CASE Drained /\ HostCall
  BY <1>3 DEF Drained, HostCall, OnConnectionOpened, OnConnectionClosed, OnBytes, SendPlayerInfo,
         SetPlayer, SendPlayerInfoAll, SetSessionState, Tick, Announce, callVars
<1>4. CASE Poll \/ Close
  BY <1>4 DEF Poll, Close, PollWrite, PollEvent, callVars
<1>5. ~CallStep
  BY DEF CallStep, FillRx, SkipWhitespace, RefuseAndRetain, RefuseAndLose, Garbage, FeedByte,
         TooLarge, BadJson, DeliverMessage, FrameDone, AnnounceToSlot, TickSlot, CloseSlot,
         MayFeed, Framing
<1> QED BY <1>1, <1>2, <1>3, <1>4, <1>5 DEF PumpedNext, PumpedCall, pumpVars

(* While a call runs, the pump waits: the step is the call's own. *)
LEMMA CallsRunAlone ==
  ASSUME [PumpedNext]_pumpVars, pc # "host" PROVE CallStep \/ UNCHANGED vars
BY DEF pumpVars, PumpedNext, PumpedCall, Resume, HostCall, OnConnectionOpened, OnConnectionClosed,
       OnBytes, SendPlayerInfo, SetPlayer, SendPlayerInfoAll, SetSessionState, Tick, Poll,
       Close, PollWrite, PollEvent, Idle

(* A call that returns owes nothing. *)
LEMMA OutsideCalls == pc' \in {"host", "tick", "closing"} => QueueInv'
BY DEF QueueInv

LEMMA CallStepQueue ==
  ASSUME TypeInv, RingInv, QueueInv, CallStep PROVE QueueInv'
<1>1. cur \in Slots /\ framer \in [Slots -> FramerState] /\ writes \in Seq(WriteRequest)
  BY DEF TypeInv, CallOK, BufferOK, RingsOK
<1>2. CASE FillRx \/ SkipWhitespace
  BY <1>2 DEF FillRx, SkipWhitespace, Framing, callVars, QueueInv
<1>3. CASE RefuseAndRetain \/ RefuseAndLose \/ Garbage \/ TooLarge \/ BadJson
  BY <1>3, OutsideCalls DEF RefuseAndRetain, RefuseAndLose, Garbage, TooLarge, BadJson, Discard,
                            Return
<1>4. CASE FeedByte
  <2>1. /\ pc = "frame" /\ UNCHANGED <<pc, cur, writes>>
        /\ fresh' = (fresh \/ ~in_message(framer[cur]))
    BY <1>4 DEF FeedByte, MayFeed, Framing
  <2>2. ~fresh' => ~fresh /\ in_message(framer[cur])
    BY <2>1, Zenon
  <2> QED BY <2>1, <2>2 DEF QueueInv
<1>5. ASSUME NEW m \in Messages, DeliverMessage(m) PROVE QueueInv'
  <2>1. /\ NextByte \in Byte /\ FramerOK(framer[cur])
        /\ feed_step(framer[cur], NextByte) = "CLOSE"
    BY <1>5, NextByteOK DEF DeliverMessage, MayFeed, TypeInv, BufferOK, CallOK
  <2>2. feed_state(framer[cur], NextByte) = framer_reset
    BY <2>1, FeedStep
  <2>3. /\ framer' = [framer EXCEPT ![cur] = feed_state(framer[cur], NextByte)]
        /\ pc' = "frame" /\ cur' = cur
    BY <1>5 DEF DeliverMessage, MayFeed, Framing
  <2>4. ~in_message(framer'[cur'])
    BY <1>1, <2>2, <2>3, ResetIsOutside
  <2> QED BY <2>3, <2>4 DEF QueueInv
<1>6. CASE FrameDone
  BY <1>6 DEF FrameDone, Return, QueueInv
<1>7. CASE AnnounceToSlot
  <2>1. CASE cur = MaxConnections
    BY <1>7, <2>1, OutsideCalls DEF AnnounceToSlot, NextSlot, Return
  <2>2. CASE cur # MaxConnections
    <3>1. pc' = "announce" /\ pc = "announce" /\ cur' = cur + 1
      BY <1>7, <2>2 DEF AnnounceToSlot, NextSlot
    <3>2. Len(writes') \in Nat /\ Len(writes') <= Len(writes) + 1
      <4>1. CASE ~used[cur]
        BY <1>1, <1>7, <4>1 DEF AnnounceToSlot
      <4>2. CASE used[cur]
        <5>1. writes' = queue_write(writes, info[cur].conn, item.code, item.body)
          BY <1>7, <4>2 DEF AnnounceToSlot
        <5> QED BY <1>1, <5>1 DEF queue_write
      <4> QED BY <4>1, <4>2
    <3>3. Len(writes) <= cur - 1 /\ Len(writes) \in Nat /\ cur \in Nat
      BY <1>1, <3>1, SlotsOK DEF QueueInv
    <3>4. Len(writes') <= cur' - 1
      BY <3>1, <3>2, <3>3
    <3> QED BY <3>1, <3>4 DEF QueueInv
  <2> QED BY <2>1, <2>2
<1>8. CASE TickSlot \/ CloseSlot
  BY <1>8, OutsideCalls DEF TickSlot, CloseSlot, NextSlot, Return
<1> QED BY <1>2, <1>3, <1>4, <1>5, <1>6, <1>7, <1>8 DEF CallStep

LEMMA QueueInvHolds == PumpedSpec => []QueueInv
<1>1. PumpedInit => QueueInv
  BY DEF PumpedInit, Init, QueueInv
<1>2. BaseInv /\ QueueInv /\ [PumpedNext]_pumpVars => QueueInv'
  <2> SUFFICES ASSUME BaseInv, QueueInv, [PumpedNext]_pumpVars PROVE QueueInv'
    OBVIOUS
  <2>1. TypeInv /\ RingInv
    BY DEF BaseInv
  <2>2. CASE pc = "host"
    <3>1. CASE pc' \in {"host", "tick", "closing"}
      BY <3>1, OutsideCalls
    <3>2. CASE pc' = "fill" /\ writes' = <<>>
      BY <3>2 DEF QueueInv
    <3>3. CASE pc' = "announce" /\ writes' = <<>> /\ cur' = 1
      BY <3>3 DEF QueueInv
    <3> QED BY <2>1, <2>2, <3>1, <3>2, <3>3, CallsFindRingDrained
  <2>3. CASE UNCHANGED vars
    BY <2>3 DEF vars, callVars, rxVars, QueueInv
  <2> QED BY <2>1, <2>2, <2>3, CallsRunAlone, CallStepQueue
<1> QED BY <1>1, <1>2, PumpedBaseHolds, PTL DEF PumpedSpec

(* Under the pump, if the acknowledgement's text fits a request and the    *)
(* ring has a slot for each connection, every reply deliver_message owes   *)
(* and every announcement to an open connection is queued.                 *)
THEOREM PumpedSendsQueued ==
  ASSUME AckFits, MaxConnections <= WriteRing
  PROVE  PumpedSpec => EverySendQueued
<1>1. ASSUME BaseInv, QueueInv, NEW m \in Messages, DeliverMessage(m) PROVE writes' # writes
  <2> DEFINE code == IF RejectIncomplete /\ m.incomplete THEN 501 ELSE 200
  <2>1. writes \in Seq(WriteRequest)
    BY <1>1 DEF BaseInv, TypeInv, RingsOK
  <2>2. ~write_ring_full(writes)
    <3>1. CASE fresh
      BY <1>1, <3>1 DEF BaseInv, RingInv
    <3>2. CASE in_message(framer[cur]) /\ ~fresh
      <4>1. writes = <<>>
        BY <1>1, <3>2 DEF QueueInv, DeliverMessage, MayFeed, Framing
      <4> QED BY <4>1, WriteAssumption DEF write_ring_full
    <3>3. CASE ~in_message(framer[cur])
      BY <1>1, <3>3 DEF DeliverMessage, MayFeed, MustRefuse
    <3> QED BY <3>1, <3>2, <3>3
  <2>3. writes' = queue_write(writes, info[cur].conn, code, Unknown)
    BY <1>1 DEF DeliverMessage
  <2>4. can_queue(writes, code)
    BY <2>2, AckFits DEF can_queue, Encodes
  <2> HIDE DEF code
  <2>5. Len(writes') = Len(writes) + 1
    BY <2>1, <2>3, <2>4 DEF queue_write
  <2> QED BY <2>1, <2>5
<1>2. ASSUME BaseInv, QueueInv, AnnounceToSlot, used[cur] PROVE writes' # writes
  <2>1. writes \in Seq(WriteRequest) /\ cur \in Slots /\ item.code \in {201, 202, 203}
    BY <1>2 DEF BaseInv, TypeInv, RingsOK, CallOK
  <2>2. ~write_ring_full(writes)
    BY <1>2, <2>1, WriteAssumption, ServerAssumption, MaxConnections <= WriteRing
    DEF QueueInv, AnnounceToSlot, write_ring_full, Slots
  <2>3. writes' = queue_write(writes, info[cur].conn, item.code, item.body)
    BY <1>2 DEF AnnounceToSlot
  <2>4. can_queue(writes, item.code)
    BY <2>1, <2>2 DEF can_queue, Encodes
  <2>5. Len(writes') = Len(writes) + 1
    BY <2>1, <2>3, <2>4 DEF queue_write
  <2> QED BY <2>1, <2>5
<1>3. BaseInv /\ QueueInv /\ [PumpedNext]_pumpVars =>
        [(\E m \in Messages : DeliverMessage(m)) \/ (AnnounceToSlot /\ used[cur])
           => writes' # writes]_vars
  BY <1>1, <1>2
<1> QED BY <1>3, PumpedBaseHolds, QueueInvHolds, PTL DEF PumpedSpec, EverySendQueued
-----------------------------------------------------------------------------
(***************************************************************************)
(* Input.  If the read was no longer than rx, what on_bytes has not looked *)
(* at, in its argument and in rx, never outgrows rx, so a refusal can keep *)
(* it; and a pass that copies input starts with room in rx, so one that    *)
(* copied nothing had nothing to copy.                                     *)
(***************************************************************************)
InputInv ==
  /\ pc \in {"fill", "frame"} /\ handed <= RxCapacity => Len(data) + Unseen <= RxCapacity
  /\ pc = "fill" => data = <<>> \/ Len(rx[cur]) <= MaxMessageBytes
  /\ pc = "frame" /\ ~took => data = <<>>

LEMMA OutsideOnBytes == pc' \notin {"fill", "frame"} => InputInv'
BY DEF InputInv

(* on_bytes starts on a buffer that is empty, or ends with an unfinished   *)
(* object seen to its last byte; or it has no input.                       *)
LEMMA OnBytesInput ==
  ASSUME BaseInv, NEW c \in ConnIds, NEW d \in Seq(Byte), NEW t, OnBytes(c, d, t),
         handed' = Len(d),
         d = <<>> \/ \A s \in Slots : ~Retained(s)
  PROVE  InputInv'
<1>1. find_conn(c) \in Slots /\ used[find_conn(c)]
  BY FindConn DEF OnBytes
<1>2. /\ pc = "host" /\ pc' = "fill" /\ cur' = find_conn(c) /\ data' = d
      /\ rx' = rx /\ scan' = scan
  BY DEF OnBytes, Idle, rxVars
<1> DEFINE s == find_conn(c)
<1>3. /\ rx[s] \in Seq(Byte) /\ scan[s] \in Nat
      /\ scan[s] <= Len(rx[s]) /\ Len(rx[s]) <= RxCapacity
  BY <1>1 DEF BaseInv, TypeInv, BufferOK
<1>4. RxCapacity \in Nat /\ MaxMessageBytes \in Nat
  BY ServerAssumption DEF RxCapacity
<1>5. Len(data') = Len(d) /\ Unseen' = Len(rx[s]) - scan[s]
  BY <1>2 DEF Unseen
<1>6. CASE d = <<>>
  <2>1. Len(d) = 0
    BY <1>6
  <2>2. Len(data') + Unseen' <= RxCapacity
    BY <1>3, <1>4, <1>5, <2>1
  <2> QED BY <1>2, <1>6, <2>2 DEF InputInv
<1>7. CASE \A r \in Slots : ~Retained(r)
  <2>1. Len(rx[s]) <= MaxMessageBytes /\ scan[s] = Len(rx[s])
    <3>1. CASE in_message(framer[s])
      BY <1>1, <1>2, <3>1 DEF BaseInv, AssemblyInv, Assembling
    <3>2. CASE rx[s] = <<>>
      <4>1. Len(rx[s]) = 0
        BY <3>2
      <4> QED BY <1>3, <1>4, <4>1
    <3> QED BY <1>1, <1>7, <3>1, <3>2 DEF Retained
  <2>2. handed' <= RxCapacity => Len(data') + Unseen' <= RxCapacity
    BY <1>3, <1>4, <1>5, <2>1
  <2> QED BY <1>2, <2>1, <2>2 DEF InputInv
<1> QED BY <1>6, <1>7

(* Every other call of the pump leaves on_bytes alone. *)
LEMMA HostInput ==
  ASSUME BaseInv, [PumpedNext]_pumpVars, pc = "host"
  PROVE  InputInv'
<1>1. CASE UNCHANGED pumpVars
  BY <1>1, OutsideOnBytes DEF pumpVars, vars, callVars
<1>2. ASSUME NEW s \in Slots, Resume(s), handed' = Len(data') PROVE InputInv'
  <2>1. info[s].conn \in ConnIds /\ OnBytes(info[s].conn, <<>>, now)
    BY <1>2, ResumeCalls DEF BaseInv
  <2>2. <<>> \in Seq(Byte) /\ handed' = Len(<<>>)
    BY <1>2, <2>1 DEF OnBytes
  <2> QED BY <2>1, <2>2, OnBytesInput
<1>3. CASE HostCall /\ handed' = Len(data') /\ \A s \in Slots : ~Retained(s)
  <2>1. ASSUME NEW c \in ConnIds, NEW d \in Reads, NEW t, OnBytes(c, d, t) PROVE InputInv'
    <3>1. d \in Seq(Byte) /\ handed' = Len(d)
      BY <1>3, <2>1, ServerAssumption DEF OnBytes
    <3> QED BY <1>3, <2>1, <3>1, OnBytesInput
  <2>2. (\E c \in ConnIds, d \in Reads, t \in now..MaxNow : OnBytes(c, d, t))
        \/ pc' \notin {"fill", "frame"}
    BY <1>3 DEF HostCall, OnConnectionOpened, OnConnectionClosed, SendPlayerInfo, SetPlayer,
                SendPlayerInfoAll, SetSessionState, Tick, Announce, callVars
  <2> QED BY <2>1, <2>2, OutsideOnBytes
<1>4. CASE Poll \/ Close
  BY <1>4, OutsideOnBytes DEF Poll, Close, PollWrite, PollEvent, callVars
<1>5. ~CallStep
  BY DEF CallStep, FillRx, SkipWhitespace, RefuseAndRetain, RefuseAndLose, Garbage, FeedByte,
         TooLarge, BadJson, DeliverMessage, FrameDone, AnnounceToSlot, TickSlot, CloseSlot,
         MayFeed, Framing
<1> QED BY <1>1, <1>2, <1>3, <1>4, <1>5 DEF PumpedNext, PumpedCall

(* Copying moves bytes from the argument to rx. *)
LEMMA FillInput ==
  ASSUME TypeInv, InputInv, FillRx, UNCHANGED handed PROVE InputInv'
<1> DEFINE take == Least(RxCapacity - Len(rx[cur]), Len(data))
<1>1. /\ pc = "fill" /\ pc' = "frame" /\ UNCHANGED <<scan, cur>>
      /\ rx' = [rx EXCEPT ![cur] = rx[cur] \o SubSeq(data, 1, take)]
      /\ data' = Drop(data, take) /\ took' = (take > 0)
  BY DEF FillRx
<1>2. /\ rx[cur] \in Seq(Byte) /\ Len(rx[cur]) <= RxCapacity /\ scan[cur] \in Nat
      /\ data \in Seq(Byte) /\ cur \in Slots
      /\ Len(data) \in Nat /\ Len(rx[cur]) \in Nat
      /\ RxCapacity \in Nat /\ RxCapacity = MaxMessageBytes + 1 /\ MaxMessageBytes \in Nat
  BY ServerAssumption DEF TypeInv, CallOK, BufferOK, RxCapacity
<1>3. take \in 0..Len(data) /\ (Len(rx[cur]) < RxCapacity /\ take = 0 => Len(data) = 0)
  <2> DEFINE room == RxCapacity - Len(rx[cur])
             rest == Len(data)
  <2>1. room \in Nat /\ (Len(rx[cur]) < RxCapacity => room # 0) /\ rest \in Nat
    BY <1>2
  <2>2. take = IF room < rest THEN room ELSE rest
    BY DEF Least
  <2> HIDE DEF room, rest, take
  <2>3. take \in 0..rest /\ (room # 0 /\ take = 0 => rest = 0)
    BY <2>1, <2>2
  <2> QED BY <2>1, <2>3 DEF rest
<1> HIDE DEF take
<1>4. Len(data') = Len(data) - take /\ Len(SubSeq(data, 1, take)) = take
      /\ SubSeq(data, 1, take) \in Seq(Byte) /\ data' \in Seq(Byte)
  BY <1>1, <1>2, <1>3, CutOK
<1>5. rx'[cur'] = rx[cur] \o SubSeq(data, 1, take)
  BY <1>1, <1>2 DEF TypeInv, BufferOK
<1>6. Len(rx'[cur']) = Len(rx[cur]) + take
  BY <1>2, <1>4, <1>5
<1>7. Unseen' = Unseen + take /\ Unseen \in Int
  BY <1>1, <1>2, <1>3, <1>6 DEF Unseen
<1>8. handed' <= RxCapacity => Len(data') + Unseen' <= RxCapacity
  BY <1>1, <1>2, <1>3, <1>4, <1>7 DEF InputInv
<1>9. ~took' => data' = <<>>
  <2> SUFFICES ASSUME ~took' PROVE data' = <<>>
    OBVIOUS
  <2>1. take = 0
    <3>1. ~(take > 0)
      BY <1>1, Zenon
    <3> QED BY <1>2, <1>3, <3>1
  <2>2. Len(data) = 0
    <3>1. CASE data = <<>>
      BY <3>1
    <3>2. CASE Len(rx[cur]) <= MaxMessageBytes
      BY <1>2, <1>3, <2>1, <3>2
    <3> QED BY <1>1, <3>1, <3>2 DEF InputInv
  <2>3. Len(data') = 0
    BY <1>4, <2>1, <2>2
  <2> QED BY <1>4, <2>3, EmptySeq
<1> QED BY <1>1, <1>8, <1>9 DEF InputInv

(* A byte seen is a byte less to keep. *)
LEMMA FrameInput ==
  ASSUME TypeInv, InputInv, UNCHANGED handed,
         SkipWhitespace \/ FeedByte \/ \E m \in Messages : DeliverMessage(m)
  PROVE  InputInv'
<1>1. /\ pc = "frame" /\ pc' = "frame" /\ UNCHANGED <<data, took, cur>>
      /\ scan[cur] < Len(rx[cur])
  BY DEF SkipWhitespace, FeedByte, DeliverMessage, MayFeed, Framing, callVars
<1>2. Unseen' = Unseen - 1
  BY SeenOneByte
<1>3. Len(data) \in Nat /\ Unseen \in Nat /\ RxCapacity \in Nat
  BY ServerAssumption DEF TypeInv, CallOK, BufferOK, Unseen, RxCapacity
<1>4. handed' <= RxCapacity => Len(data') + Unseen' <= RxCapacity
  BY <1>1, <1>2, <1>3 DEF InputInv
<1> QED BY <1>1, <1>4 DEF InputInv

(* Coming back for more, rx holds nothing or an object that fits. *)
LEMMA FrameDoneInput ==
  ASSUME TypeInv, AssemblyInv, InputInv, FrameDone, pc' # "host" => UNCHANGED handed
  PROVE  InputInv'
<1>1. CASE pc' = "host"
  BY <1>1, OutsideOnBytes
<1>2. CASE pc' # "host"
  <2>1. pc = "frame" /\ pc' = "fill" /\ UNCHANGED <<data, cur, took>> /\ took
    BY <1>2 DEF FrameDone, Return
  <2>2. rx'[cur] = ObjectRx /\ scan'[cur] = ObjectScan
    BY DEF FrameDone, TypeInv, CallOK, BufferOK
  <2>3. Len(ObjectRx) - ObjectScan = Len(rx[cur]) - scan[cur]
    BY ObjectOK DEF TypeInv
  <2>4. AssemblyInv'
    BY FrameDoneAssembly
  <2>5. Len(rx'[cur']) <= MaxMessageBytes
    BY <2>1, <2>4 DEF AssemblyInv
  <2>6. Unseen' = Unseen
    BY <2>1, <2>2, <2>3 DEF Unseen
  <2>7. handed' <= RxCapacity => Len(data') + Unseen' <= RxCapacity
    BY <1>2, <2>1, <2>6 DEF InputInv
  <2> QED BY <2>1, <2>5, <2>7 DEF InputInv
<1> QED BY <1>1, <1>2

LEMMA InputInvHolds == PumpedSpec => []InputInv
<1>1. PumpedInit => InputInv
  BY DEF PumpedInit, Init, InputInv
<1>2. BaseInv /\ InputInv /\ [PumpedNext]_pumpVars => InputInv'
  <2> SUFFICES ASSUME BaseInv, InputInv, [PumpedNext]_pumpVars PROVE InputInv'
    OBVIOUS
  <2>1. TypeInv /\ AssemblyInv
    BY DEF BaseInv
  <2>2. CASE pc = "host"
    BY <2>2, HostInput
  <2>3. CASE UNCHANGED pumpVars
    BY <2>3 DEF pumpVars, vars, callVars, rxVars, InputInv, Unseen
  <2>4. CASE CallStep /\ (pc' # "host" => UNCHANGED handed)
    <3>1. CASE RefuseAndRetain \/ RefuseAndLose \/ Garbage \/ TooLarge \/ BadJson
      BY <3>1, OutsideOnBytes DEF RefuseAndRetain, RefuseAndLose, Garbage, TooLarge, BadJson,
                                  Discard, Return
    <3>2. CASE AnnounceToSlot \/ TickSlot \/ CloseSlot
      BY <3>2, OutsideOnBytes DEF AnnounceToSlot, TickSlot, CloseSlot, NextSlot, Return
    <3>3. CASE FillRx \/ SkipWhitespace \/ FeedByte \/ \E m \in Messages : DeliverMessage(m)
      <4>1. pc' # "host"
        BY <3>3 DEF FillRx, SkipWhitespace, FeedByte, DeliverMessage, MayFeed, Framing, callVars
      <4> QED BY <2>1, <2>4, <3>3, <4>1, FillInput, FrameInput
    <3> QED BY <2>1, <2>4, <3>1, <3>2, <3>3, FrameDoneInput DEF CallStep
  <2>5. CASE pc # "host" /\ PumpedNext
    <3>1. CallStep
      BY <2>5 DEF PumpedNext, PumpedCall, Resume, HostCall, OnConnectionOpened,
                  OnConnectionClosed, OnBytes, SendPlayerInfo, SetPlayer, SendPlayerInfoAll,
                  SetSessionState, Tick, Poll, Close, PollWrite, PollEvent, Idle
    <3>2. ~PumpedCall
      BY <2>5 DEF PumpedCall, Resume, HostCall, OnConnectionOpened,
                  OnConnectionClosed, OnBytes, SendPlayerInfo, SetPlayer, SendPlayerInfoAll,
                  SetSessionState, Tick, Idle
    <3>3. pc' # "host" => UNCHANGED handed
      BY <2>5, <3>2 DEF PumpedNext
    <3> QED BY <2>4, <3>1, <3>3
  <2> QED BY <2>2, <2>3, <2>5
<1> QED BY <1>1, <1>2, PumpedBaseHolds, PTL DEF PumpedSpec

HandedOK == handed \in Nat

LEMMA HandedHolds == PumpedSpec => []HandedOK
<1>1. PumpedInit => HandedOK
  BY DEF PumpedInit, HandedOK
<1>2. BaseInv /\ BaseInv' /\ HandedOK /\ [PumpedNext]_pumpVars => HandedOK'
  <2> SUFFICES ASSUME BaseInv', HandedOK, [PumpedNext]_pumpVars PROVE HandedOK'
    OBVIOUS
  <2>1. Len(data') \in Nat
    BY DEF BaseInv, TypeInv, CallOK
  <2> QED BY <2>1 DEF PumpedNext, HandedOK, pumpVars
<1> QED BY <1>1, <1>2, PumpedBaseHolds, PTL DEF PumpedSpec

(* Under the pump, on_bytes throws input away only if the read was longer  *)
(* than the receive buffer: a shorter one is kept whole by a refusal; and  *)
(* whatever its length, a return that is no refusal has copied all of it.  *)
THEOREM PumpedInputKept == PumpedSpec => ShortReadsKept
<1>1. BaseInv /\ InputInv /\ handed <= RxCapacity => ~RefuseAndLose
  <2> SUFFICES ASSUME BaseInv, InputInv, handed <= RxCapacity, RefuseAndLose PROVE FALSE
    OBVIOUS
  <2>1. pc = "frame" /\ ~in_message(framer[cur]) /\ ~RestFits
    BY DEF RefuseAndLose, MustRefuse, Framing
  <2>2. /\ ObjectRx \in Seq(Byte) /\ ObjectScan = 0
        /\ Len(ObjectRx) - ObjectScan = Unseen
    BY <2>1, ObjectOK DEF BaseInv, TypeInv, ObjectScan, Unseen
  <2>3. Len(ObjectRx) = Unseen
    BY <2>2
  <2>4. Len(data) \in Nat /\ Len(ObjectRx) \in Nat /\ RxCapacity \in Nat
    BY <2>2, ServerAssumption DEF BaseInv, TypeInv, CallOK, RxCapacity
  <2>5. Len(data) + Unseen <= RxCapacity
    BY <2>1 DEF InputInv
  <2> QED BY <2>1, <2>3, <2>4, <2>5 DEF RestFits
<1>2. InputInv => (FrameDone /\ pc' = "host" => data = <<>>)
  BY DEF FrameDone, InputInv
<1>3. BaseInv /\ InputInv /\ HandedOK =>
        [/\ RefuseAndLose => handed > RxCapacity
         /\ FrameDone /\ pc' = "host" => data = <<>>]_pumpVars
  <2> SUFFICES ASSUME BaseInv, InputInv, HandedOK
               PROVE  /\ RefuseAndLose => handed > RxCapacity
                      /\ FrameDone /\ pc' = "host" => data = <<>>
    OBVIOUS
  <2>1. RxCapacity \in Nat
    BY ServerAssumption DEF RxCapacity
  <2>2. handed <= RxCapacity \/ handed > RxCapacity
    BY <2>1 DEF HandedOK
  <2> QED BY <1>1, <1>2, <2>2
<1> QED BY <1>3, PumpedBaseHolds, InputInvHolds, HandedHolds, PTL DEF PumpedSpec, ShortReadsKept
=============================================================================
