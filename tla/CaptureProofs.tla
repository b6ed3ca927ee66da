--------------------------- MODULE CaptureProofs ----------------------------
(***************************************************************************)
(* Captures of any length: the report of a replay, for servers of any      *)
(* size, and the file a recorder leaves, for chunks and batches of any     *)
(* size.                                                                   *)
(***************************************************************************)
EXTENDS Capture, PartProofs, FiniteSetTheorems

(* A sequence is one over the set of its entries. *)
IsSeq(s) == s \in Seq(Range(s))

Distinct(s) == \A i, j \in 1..Len(s) : s[i] = s[j] => i = j

LEMMA SeqOfEntries ==
  ASSUME NEW S, NEW s \in Seq(S) PROVE IsSeq(s)
<1>1. \A i \in 1..Len(s) : s[i] \in Range(s)
  BY DEF Range
<1> QED BY <1>1 DEF IsSeq

LEMMA AppendEntries ==
  ASSUME NEW s, IsSeq(s), NEW x
  PROVE  /\ IsSeq(Append(s, x)) /\ Len(Append(s, x)) = Len(s) + 1
         /\ Range(Append(s, x)) = Range(s) \cup {x}
         /\ Distinct(s) /\ x \notin Range(s) => Distinct(Append(s, x))
<1> DEFINE S == Range(s) \cup {x}
           t == Append(s, x)
<1>1. s \in Seq(S)
  <2>1. \A i \in 1..Len(s) : s[i] \in S
    BY DEF IsSeq
  <2> QED BY <2>1 DEF IsSeq
<1>2. /\ t \in Seq(S) /\ Len(t) = Len(s) + 1 /\ t[Len(s) + 1] = x
      /\ \A i \in 1..Len(s) : t[i] = s[i]
  BY <1>1
<1> HIDE DEF t
<1>3. IsSeq(t)
  BY <1>2, SeqOfEntries
<1>4. Range(t) = Range(s) \cup {x}
  <2>1. \A i \in 1..(Len(s) + 1) : i \in 1..Len(s) \/ i = Len(s) + 1
    BY <1>1
  <2>2. DOMAIN t = 1..(Len(s) + 1) /\ DOMAIN s = 1..Len(s) /\ Len(s) + 1 \in DOMAIN t
    BY <1>1, <1>2
  <2>3. 1..Len(s) \subseteq DOMAIN t
    BY <1>1, <2>2
  <2> QED BY <1>2, <2>1, <2>2, <2>3 DEF Range
<1>5. ASSUME Distinct(s), x \notin Range(s) PROVE Distinct(t)
  <2>1. \A i \in 1..Len(s) : s[i] # x
    BY <1>1, <1>5 DEF Range
  <2>2. \A i \in 1..(Len(s) + 1) : i \in 1..Len(s) \/ i = Len(s) + 1
    BY <1>1
  <2> QED BY <1>2, <1>5, <2>1, <2>2 DEF Distinct
<1> QED BY <1>2, <1>3, <1>4, <1>5 DEF t

LEMMA RemoveAtEntries ==
  ASSUME NEW s, IsSeq(s), NEW k \in 1..Len(s)
  PROVE  /\ IsSeq(RemoveAt(s, k)) /\ Len(RemoveAt(s, k)) = Len(s) - 1
         /\ Distinct(s) => /\ Distinct(RemoveAt(s, k))
                           /\ Range(RemoveAt(s, k)) = Range(s) \ {s[k]}
<1> DEFINE p == SubSeq(s, 1, k - 1)
           q == SubSeq(s, k + 1, Len(s))
           r == p \o q
           S == Range(s)
<1>0. s \in Seq(S)
  BY DEF IsSeq
<1>1. p \in Seq(S) /\ Len(p) = k - 1 /\ \A i \in 1..(k - 1) : p[i] = s[i]
  BY <1>0
<1>2. q \in Seq(S) /\ Len(q) = Len(s) - k /\ \A i \in 1..(Len(s) - k) : q[i] = s[i + k]
  BY <1>0
<1>c. r = p \o q
  OBVIOUS
<1> HIDE DEF p, q, r
<1>3. r \in Seq(S) /\ Len(r) = Len(s) - 1
  BY <1>0, <1>1, <1>2, <1>c
<1>4. ASSUME NEW i \in 1..(Len(s) - 1) PROVE r[i] = IF i < k THEN s[i] ELSE s[i + 1]
  <2>1. \A j \in 1..Len(p) + Len(q) :
          (p \o q)[j] = IF j <= Len(p) THEN p[j] ELSE q[j - Len(p)]
    <3>1. p \in Seq(S) /\ q \in Seq(S)
      BY <1>1, <1>2
    <3> HIDE DEF S
    <3> QED BY <3>1, ConcatProperties
  <2>a. i \in 1..Len(p) + Len(q) /\ Len(p) = k - 1
    BY <1>0, <1>1, <1>2
  <2>2. CASE i < k
    <3>1. i \in 1..(k - 1) /\ i <= Len(p)
      BY <1>0, <2>2, <2>a
    <3>2. r[i] = p[i]
      BY <1>c, <2>1, <2>a, <3>1
    <3> QED BY <1>1, <2>2, <3>1, <3>2
  <2>3. CASE ~(i < k)
    <3>1. PICK j \in 1..(Len(s) - k) : j = i - (k - 1)
      BY <1>0, <2>3
    <3>2. i - Len(p) = j /\ j + k = i + 1 /\ ~(i <= Len(p))
      BY <1>0, <2>3, <2>a, <3>1
    <3>3. q[j] = s[i + 1]
      BY <1>2, <3>2
    <3>4. r[i] = q[j]
      BY <1>c, <2>1, <2>a, <3>2
    <3> QED BY <2>3, <3>3, <3>4
  <2> QED BY <2>2, <2>3
<1>5. RemoveAt(s, k) = r
  BY DEF RemoveAt, p, q, r
<1>6. IsSeq(r)
  BY <1>3, SeqOfEntries
<1>7. ASSUME Distinct(s) PROVE Distinct(r) /\ Range(r) = Range(s) \ {s[k]}
  <2>1. Distinct(r)
    <3> DEFINE at(i) == IF i < k THEN i ELSE i + 1
    <3>1. \A i \in 1..(Len(s) - 1) : at(i) \in 1..Len(s) /\ r[i] = s[at(i)]
      BY <1>0, <1>4
    <3>2. \A i, j \in 1..(Len(s) - 1) : at(i) = at(j) => i = j
      BY <1>0
    <3> HIDE DEF at
    <3> QED BY <1>3, <1>7, <3>1, <3>2 DEF Distinct
  <2>2. DOMAIN r = 1..(Len(s) - 1) /\ DOMAIN s = 1..Len(s)
    BY <1>0, <1>3
  <2>3. ASSUME NEW i \in 1..(Len(s) - 1) PROVE r[i] \in Range(s) /\ r[i] # s[k]
    <3>1. CASE i < k
      BY <1>0, <1>4, <1>7, <2>2, <3>1 DEF Distinct, Range
    <3>2. CASE ~(i < k)
      <4>1. r[i] = s[i + 1] /\ i + 1 \in 1..Len(s) /\ i + 1 # k
        BY <1>0, <1>4, <3>2
      <4> QED BY <1>7, <2>2, <4>1 DEF Distinct, Range
    <3> QED BY <3>1, <3>2
  <2>4. ASSUME NEW i \in 1..Len(s), s[i] # s[k] PROVE s[i] \in Range(r)
    <3>1. CASE i < k
      <4>1. i \in 1..(Len(s) - 1) /\ r[i] = s[i]
        BY <1>0, <1>4, <3>1
      <4> QED BY <2>2, <4>1 DEF Range
    <3>2. CASE ~(i < k)
      <4>1. i # k
        BY <2>4
      <4>2. i - 1 \in 1..(Len(s) - 1) /\ ~(i - 1 < k) /\ i - 1 + 1 = i
        BY <1>0, <3>2, <4>1
      <4>3. r[i - 1] = s[i]
        BY <1>4, <4>2
      <4> QED BY <2>2, <4>2, <4>3 DEF Range
    <3> QED BY <3>1, <3>2
  <2> QED BY <2>1, <2>2, <2>3, <2>4 DEF Range
<1> QED BY <1>3, <1>5, <1>6, <1>7

LEMMA MinIsOne ==
  ASSUME NEW T \in SUBSET Nat, T # {} PROVE Min(T) \in T
BY LeastNat DEF Min

-----------------------------------------------------------------------------
OpenSlots == {s \in Slots : used[s]}

(* What holds from the moment the replay starts: only on_bytes runs in     *)
(* steps, no id is open twice, and the table of ids is that of the server, *)
(* but for the connections it had no place for.                            *)
TableInv ==
  /\ pc \in {"host", "fill", "frame"}
  /\ used \in [Slots -> BOOLEAN]
  /\ DOMAIN info = Slots /\ \A s \in Slots : "conn" \in DOMAIN info[s]
  /\ \A r, s \in Slots : used[r] /\ used[s] /\ info[r].conn = info[s].conn => r = s
  /\ IsSeq(ids) /\ Distinct(ids)
  /\ IsFiniteSet(forgotten) /\ Range(ids) \cap forgotten = {}
  /\ Range(ids) \cup forgotten = {info[s].conn : s \in OpenSlots}
  /\ Len(ids) + Cardinality(forgotten) = Cardinality(OpenSlots)

(* Steps that move no connection. *)
KeepsConns ==
  /\ pc' \in {"host", "fill", "frame"}
  /\ used' = used
  /\ DOMAIN info' = DOMAIN info
  /\ \A s \in Slots : DOMAIN info'[s] = DOMAIN info[s] /\ info'[s].conn = info[s].conn

LEMMA TableKept ==
  ASSUME TableInv, KeepsConns, UNCHANGED <<ids, forgotten>> PROVE TableInv'
<1>1. OpenSlots' = OpenSlots
  BY DEF KeepsConns, OpenSlots
<1>2. {info'[s].conn : s \in OpenSlots'} = {info[s].conn : s \in OpenSlots}
  BY <1>1 DEF KeepsConns, OpenSlots
<1>3. \A r, s \in Slots : used'[r] /\ used'[s] /\ info'[r].conn = info'[s].conn => r = s
  BY DEF TableInv, KeepsConns
<1> QED BY <1>1, <1>2, <1>3 DEF TableInv, KeepsConns

(* An entry whose conn stays is exchanged. *)
LEMMA EntryExchanged ==
  ASSUME TableInv, NEW c, NEW i, info' = [info EXCEPT ![c] = i], used' = used,
         pc' \in {"host", "fill", "frame"},
         c \in Slots => DOMAIN i = DOMAIN info[c] /\ i.conn = info[c].conn
  PROVE  KeepsConns
BY DEF TableInv, KeepsConns

(* Both ends of an error, and of a message, are such an entry. *)
LEMMA ErrorEntry ==
  ASSUME TableInv, NEW n, cur \in Slots
  PROVE  LET i == [info[cur] EXCEPT !.errors = n]
         IN  DOMAIN i = DOMAIN info[cur] /\ i.conn = info[cur].conn
BY DEF TableInv

LEMMA MessageEntry ==
  ASSUME TableInv, NEW n1, NEW n2, NEW n3, NEW n4, NEW n5, NEW n6, cur \in Slots
  PROVE  LET i == [info[cur] EXCEPT !.last_message = n1, !.errors = n2, !.last_shot = n3,
                                    !.device = n4, !.ready = n5, !.detected = n6]
         IN  DOMAIN i = DOMAIN info[cur] /\ i.conn = info[cur].conn
BY DEF TableInv

LEMMA SecondCall ==
  ASSUME TableInv, Second!CallStep PROVE KeepsConns
<1>1. CASE Second!FillRx
  BY <1>1 DEF TableInv, KeepsConns, Second!FillRx, Second!connVars
<1>2. CASE Second!SkipWhitespace
  BY <1>2 DEF TableInv, KeepsConns, Second!SkipWhitespace, Second!connVars, Second!callVars
<1>3. CASE Second!RefuseAndRetain \/ Second!RefuseAndLose
  BY <1>3 DEF TableInv, KeepsConns, Second!RefuseAndRetain, Second!RefuseAndLose, Second!connVars, Second!Return
<1>4. CASE Second!FeedByte \/ Second!FrameDone
  BY <1>4 DEF TableInv, KeepsConns, Second!FeedByte, Second!FrameDone, Second!connVars, Second!Return
<1>5. CASE Second!AnnounceToSlot \/ Second!TickSlot \/ Second!CloseSlot
  BY <1>5 DEF TableInv, Second!AnnounceToSlot, Second!TickSlot, Second!CloseSlot
<1>6. CASE Second!Garbage \/ Second!TooLarge \/ Second!BadJson
  <2>1. PICK reason : Second!Discard(reason)
    BY <1>6 DEF Second!Garbage, Second!TooLarge, Second!BadJson
  <2>2. used' = used /\ pc' = "host"
    BY <2>1 DEF Second!Discard, Second!Return
  <2>3. PICK n : info' = [info EXCEPT ![cur] = [info[cur] EXCEPT !.errors = n]]
    BY <2>1 DEF Second!Discard, Second!protocol_error
  <2> QED BY <2>2, <2>3, ErrorEntry, EntryExchanged
<1>7. ASSUME NEW m \in Messages, Second!DeliverMessage(m) PROVE KeepsConns
  <2>1. used' = used /\ pc' = pc
    BY <1>7 DEF Second!DeliverMessage
  <2>2. PICK n1, n2, n3, n4, n5, n6 :
          info' = [info EXCEPT ![cur] =
                     [info[cur] EXCEPT !.last_message = n1, !.errors = n2, !.last_shot = n3,
                                       !.device = n4, !.ready = n5, !.detected = n6]]
    BY <1>7, Zenon DEF Second!DeliverMessage
  <2>3. pc' \in {"host", "fill", "frame"}
    BY <2>1 DEF TableInv
  <2> DEFINE i == [info[cur] EXCEPT !.last_message = n1, !.errors = n2, !.last_shot = n3,
                                    !.device = n4, !.ready = n5, !.detected = n6]
  <2>4. cur \in Slots => DOMAIN i = DOMAIN info[cur] /\ i.conn = info[cur].conn
    BY MessageEntry
  <2>5. info' = [info EXCEPT ![cur] = i]
    BY <2>2
  <2> HIDE DEF i
  <2> QED BY <2>1, <2>3, <2>4, <2>5, EntryExchanged
<1> QED BY <1>1, <1>2, <1>3, <1>4, <1>5, <1>6, <1>7 DEF Second!CallStep

LEMMA SpacedCall ==
  ASSUME TableInv, Spaced!CallStep PROVE KeepsConns
<1>1. CASE Spaced!FillRx
  BY <1>1 DEF TableInv, KeepsConns, Spaced!FillRx, Spaced!connVars
<1>2. CASE Spaced!SkipWhitespace
  BY <1>2 DEF TableInv, KeepsConns, Spaced!SkipWhitespace, Spaced!connVars, Spaced!callVars
<1>3. CASE Spaced!RefuseAndRetain \/ Spaced!RefuseAndLose
  BY <1>3 DEF TableInv, KeepsConns, Spaced!RefuseAndRetain, Spaced!RefuseAndLose, Spaced!connVars, Spaced!Return
<1>4. CASE Spaced!FeedByte \/ Spaced!FrameDone
  BY <1>4 DEF TableInv, KeepsConns, Spaced!FeedByte, Spaced!FrameDone, Spaced!connVars, Spaced!Return
<1>5. CASE Spaced!AnnounceToSlot \/ Spaced!TickSlot \/ Spaced!CloseSlot
  BY <1>5 DEF TableInv, Spaced!AnnounceToSlot, Spaced!TickSlot, Spaced!CloseSlot
<1>6. CASE Spaced!Garbage \/ Spaced!TooLarge \/ Spaced!BadJson
  <2>1. PICK reason : Spaced!Discard(reason)
    BY <1>6 DEF Spaced!Garbage, Spaced!TooLarge, Spaced!BadJson
  <2>2. used' = used /\ pc' = "host"
    BY <2>1 DEF Spaced!Discard, Spaced!Return
  <2>3. PICK n : info' = [info EXCEPT ![cur] = [info[cur] EXCEPT !.errors = n]]
    BY <2>1 DEF Spaced!Discard, Spaced!protocol_error
  <2> QED BY <2>2, <2>3, ErrorEntry, EntryExchanged
<1>7. ASSUME NEW m \in Messages, Spaced!DeliverMessage(m) PROVE KeepsConns
  <2>1. used' = used /\ pc' = pc
    BY <1>7 DEF Spaced!DeliverMessage
  <2>2. PICK n1, n2, n3, n4, n5, n6 :
          info' = [info EXCEPT ![cur] =
                     [info[cur] EXCEPT !.last_message = n1, !.errors = n2, !.last_shot = n3,
                                       !.device = n4, !.ready = n5, !.detected = n6]]
    BY <1>7, Zenon DEF Spaced!DeliverMessage
  <2>3. pc' \in {"host", "fill", "frame"}
    BY <2>1 DEF TableInv
  <2> DEFINE i == [info[cur] EXCEPT !.last_message = n1, !.errors = n2, !.last_shot = n3,
                                    !.device = n4, !.ready = n5, !.detected = n6]
  <2>4. cur \in Slots => DOMAIN i = DOMAIN info[cur] /\ i.conn = info[cur].conn
    BY MessageEntry
  <2>5. info' = [info EXCEPT ![cur] = i]
    BY <2>2
  <2> HIDE DEF i
  <2> QED BY <2>1, <2>3, <2>4, <2>5, EntryExchanged
<1> QED BY <1>1, <1>2, <1>3, <1>4, <1>5, <1>6, <1>7 DEF Spaced!CallStep

LEMMA OpenSlotsFinite == IsFiniteSet(OpenSlots)
<1>1. MaxConnections \in Int
  BY ServerAssumption
<1>2. IsFiniteSet(Slots)
  BY <1>1, FS_Interval DEF Slots
<1> QED BY <1>2, FS_Subset DEF OpenSlots

(* A connection is opened in a free slot, and entered behind the others or *)
(* not at all.                                                             *)
LEMMA TableOpened ==
  ASSUME TableInv, NEW c, NEW t, OnConnectionOpened(c, t), ids' = replay_opened(c),
         forgotten' = IF ids' = ids THEN forgotten \cup {c} ELSE forgotten
  PROVE  TableInv'
<1>1. PICK s \in Slots : /\ ~used[s]
                         /\ used' = [used EXCEPT ![s] = TRUE]
                         /\ info' = [info EXCEPT ![s] = NewInfo(c, t)]
  BY DEF OnConnectionOpened
<1>2. pc' = pc /\ ~IsOpen(c)
  BY DEF OnConnectionOpened, callVars
<1>3. "conn" \in DOMAIN NewInfo(c, t) /\ NewInfo(c, t).conn = c
  BY DEF NewInfo
<1>4. /\ used' \in [Slots -> BOOLEAN] /\ DOMAIN info' = Slots
      /\ info'[s].conn = c /\ used'[s]
      /\ \A r \in Slots \ {s} : info'[r] = info[r] /\ used'[r] = used[r]
  BY <1>1, <1>3 DEF TableInv
<1>5. \A r \in Slots : "conn" \in DOMAIN info'[r]
  BY <1>1, <1>3 DEF TableInv
<1>6. OpenSlots' = OpenSlots \cup {s} /\ s \notin OpenSlots
  BY <1>1, <1>4 DEF OpenSlots
<1>7. \A r \in OpenSlots : r # s /\ r \in Slots /\ used[r] /\ info[r].conn # c
  BY <1>1, <1>2 DEF OpenSlots, IsOpen
<1>8. Cardinality(OpenSlots') = Cardinality(OpenSlots) + 1
  BY <1>6, OpenSlotsFinite, FS_AddElement
<1>9. {info'[r].conn : r \in OpenSlots'} = {info[r].conn : r \in OpenSlots} \cup {c}
  BY <1>4, <1>6, <1>7
<1>10. c \notin Range(ids) /\ c \notin forgotten
  BY <1>7 DEF TableInv
<1>11. /\ IsSeq(ids') /\ Distinct(ids') /\ IsFiniteSet(forgotten')
       /\ Range(ids') \cap forgotten' = {}
       /\ Range(ids') \cup forgotten' = Range(ids) \cup forgotten \cup {c}
       /\ Len(ids') + Cardinality(forgotten') = Len(ids) + Cardinality(forgotten) + 1
  <2>0. /\ IsSeq(ids) /\ Distinct(ids) /\ IsFiniteSet(forgotten)
        /\ Range(ids) \cap forgotten = {}
    BY DEF TableInv
  <2>1. Len(ids) \in Nat /\ Cardinality(forgotten) \in Nat
    BY <2>0, FS_CardinalityType DEF IsSeq
  <2>2. CASE ids' = Append(ids, c)
    <3>1. /\ IsSeq(ids') /\ Distinct(ids') /\ Range(ids') = Range(ids) \cup {c}
          /\ Len(ids') = Len(ids) + 1
      BY <1>10, <2>0, <2>2, AppendEntries
    <3>2. ids' # ids
      BY <2>1, <3>1
    <3> QED BY <1>10, <2>0, <2>1, <3>1, <3>2
  <2>3. CASE ids' = ids
    <3>1. forgotten' = forgotten \cup {c}
      BY <2>3
    <3>2. IsFiniteSet(forgotten') /\ Cardinality(forgotten') = Cardinality(forgotten) + 1
      BY <1>10, <2>0, <3>1, FS_AddElement
    <3> QED BY <1>10, <2>0, <2>1, <2>3, <3>1, <3>2
  <2> QED BY <2>2, <2>3 DEF replay_opened
<1>12. \A q, r \in Slots : used'[q] /\ used'[r] /\ info'[q].conn = info'[r].conn => q = r
  <2> SUFFICES ASSUME NEW q \in Slots, NEW r \in Slots, used'[q], used'[r],
                      info'[q].conn = info'[r].conn
               PROVE  q = r
    OBVIOUS
  <2>1. CASE q = s
    BY <1>4, <1>7, <2>1 DEF OpenSlots
  <2>2. CASE r = s
    BY <1>4, <1>7, <2>2 DEF OpenSlots
  <2>3. CASE q # s /\ r # s
    BY <1>4, <2>3 DEF TableInv
  <2> QED BY <2>1, <2>2, <2>3
<1>13. Range(ids') \cup forgotten' = {info'[r].conn : r \in OpenSlots'}
  BY <1>9, <1>11 DEF TableInv
<1>14. Len(ids') + Cardinality(forgotten') = Cardinality(OpenSlots')
  BY <1>8, <1>11 DEF TableInv
<1> QED BY <1>2, <1>4, <1>5, <1>11, <1>12, <1>13, <1>14 DEF TableInv

(* A connection the replay knows is closed in the server and taken out of  *)
(* the table.                                                              *)
LEMMA TableClosed ==
  ASSUME TableInv, NEW c, NEW t, OnConnectionClosed(c, t), replay_is_open(c),
         ids' = replay_closed(c), forgotten' = forgotten
  PROVE  TableInv'
<1> DEFINE s == find_conn(c)
<1>1. s \in Slots /\ used[s] /\ info[s].conn = c
  BY DEF OnConnectionClosed, IsOpen, find_conn
<1>2. used' = [used EXCEPT ![s] = FALSE] /\ info' = info /\ pc' = pc
  BY DEF OnConnectionClosed, callVars
<1> HIDE DEF s
<1>3. used' \in [Slots -> BOOLEAN] /\ ~used'[s] /\ \A r \in Slots \ {s} : used'[r] = used[r]
  BY <1>1, <1>2 DEF TableInv
<1>4. OpenSlots' = OpenSlots \ {s} /\ s \in OpenSlots
  BY <1>1, <1>3 DEF OpenSlots
<1>5. Cardinality(OpenSlots') = Cardinality(OpenSlots) - 1
  BY <1>4, OpenSlotsFinite, FS_RemoveElement
<1>6. \A r \in OpenSlots \ {s} : info[r].conn # c
  BY <1>1 DEF TableInv, OpenSlots
<1>7. {info'[r].conn : r \in OpenSlots'} = {info[r].conn : r \in OpenSlots} \ {c}
  BY <1>1, <1>2, <1>4, <1>6
<1>8. c \in Range(ids) /\ c \notin forgotten
  BY DEF TableInv, replay_is_open, Contains, Range, IsSeq
<1>9. PICK k \in 1..Len(ids) : ids[k] = c
  BY <1>8 DEF Range, TableInv, IsSeq
<1>10. ids' = RemoveAt(ids, k)
  <2>1. {i \in 1..Len(ids) : ids[i] = c} = {k}
    BY <1>9 DEF TableInv, Distinct
  <2>2. Min({k}) = k
    BY DEF Min
  <2>3. SelectInSeq(ids, LAMBDA v : v = c) = k
    BY <2>1, <2>2 DEF SelectInSeq
  <2> QED BY <1>9, <2>3 DEF replay_closed, RemoveFirst
<1>11. /\ IsSeq(ids') /\ Distinct(ids') /\ Range(ids') = Range(ids) \ {c}
       /\ Len(ids') = Len(ids) - 1
  <2>1. IsSeq(ids) /\ Distinct(ids)
    BY DEF TableInv
  <2>2. /\ IsSeq(RemoveAt(ids, k)) /\ Len(RemoveAt(ids, k)) = Len(ids) - 1
        /\ Distinct(RemoveAt(ids, k)) /\ Range(RemoveAt(ids, k)) = Range(ids) \ {ids[k]}
    BY <2>1, RemoveAtEntries
  <2> QED BY <1>9, <1>10, <2>2
<1>12. \A q, r \in Slots : used'[q] /\ used'[r] /\ info'[q].conn = info'[r].conn => q = r
  BY <1>2, <1>3 DEF TableInv
<1>13. /\ Range(ids') \cup forgotten' = {info'[r].conn : r \in OpenSlots'}
       /\ Range(ids') \cap forgotten' = {} /\ IsFiniteSet(forgotten')
  BY <1>7, <1>8, <1>11 DEF TableInv
<1>14. Len(ids') + Cardinality(forgotten') = Cardinality(OpenSlots')
  <2>1. /\ Len(ids) \in Nat /\ Cardinality(forgotten) \in Nat
        /\ Len(ids) + Cardinality(forgotten) = Cardinality(OpenSlots)
    BY FS_CardinalityType DEF TableInv, IsSeq
  <2> QED BY <1>5, <1>11, <2>1
<1> QED BY <1>2, <1>3, <1>11, <1>12, <1>13, <1>14 DEF TableInv

(* The second server begins with an empty table. *)
LEMMA TableFresh ==
  ASSUME FreshServer, ids' = <<>>, forgotten' = {} PROVE TableInv'
<1>1. /\ used' = [s \in Slots |-> FALSE] /\ info' = [s \in Slots |-> NewInfo(0, 0)]
      /\ pc' = "host"
  BY DEF FreshServer, Return
<1>2. OpenSlots' = {}
  BY <1>1 DEF OpenSlots
<1>3. Cardinality(OpenSlots') = 0
  BY <1>2, FS_EmptySet
<1>4. IsSeq(ids') /\ Distinct(ids') /\ Len(ids') = 0
  <2>1. <<>> \in Seq({}) /\ Len(<<>>) = 0
    OBVIOUS
  <2>2. IsSeq(<<>>)
    BY <2>1, SeqOfEntries
  <2>3. Distinct(<<>>)
    BY <2>1 DEF Distinct
  <2> QED BY <2>1, <2>2, <2>3
<1>5. Range(ids') = {}
  BY DEF Range
<1>6. \A s \in Slots : "conn" \in DOMAIN info'[s]
  BY <1>1 DEF NewInfo
<1>7. IsFiniteSet(forgotten') /\ Cardinality(forgotten') = 0
  BY FS_EmptySet
<1> QED BY <1>1, <1>2, <1>3, <1>4, <1>5, <1>6, <1>7 DEF TableInv
-----------------------------------------------------------------------------
(* The counters of gsp_replay_report. *)
Fields == {"client", "server", "messages", "errors", "produced", "matched", "differing",
           "missing", "unsolicited", "extra"}

Counts == [Fields -> Nat]

(* What became of the replies produced, and of those recorded. *)
Claimed(r)  == r.matched + r.differing + r.extra
Compared(r) == r.matched + r.differing + r.unsolicited + r.missing

One(condition) == IF condition THEN 1 ELSE 0

LEMMA Added ==
  ASSUME NEW r \in Counts, NEW f \in Fields, NEW s, s = Add(r, f)
  PROVE  /\ s \in Counts
         /\ r.produced \in Nat /\ s.produced = r.produced + One(f = "produced")
         /\ r.server \in Nat /\ s.server = r.server + One(f = "server")
         /\ Claimed(r) \in Nat
         /\ Claimed(s) = Claimed(r) + One(f \in {"matched", "differing", "extra"})
         /\ Compared(r) \in Nat
         /\ Compared(s) = Compared(r)
                            + One(f \in {"matched", "differing", "unsolicited", "missing"})
<1>1. s \in Counts
  BY DEF Counts, Add
<1>2. \A g \in Fields : r[g] \in Nat /\ s[g] = r[g] + One(f = g)
  BY DEF Counts, Add, One
<1>3. /\ r.produced \in Nat /\ s.produced = r.produced + One(f = "produced")
      /\ r.server \in Nat /\ s.server = r.server + One(f = "server")
      /\ r.matched \in Nat /\ s.matched = r.matched + One(f = "matched")
      /\ r.differing \in Nat /\ s.differing = r.differing + One(f = "differing")
      /\ r.extra \in Nat /\ s.extra = r.extra + One(f = "extra")
      /\ r.unsolicited \in Nat /\ s.unsolicited = r.unsolicited + One(f = "unsolicited")
      /\ r.missing \in Nat /\ s.missing = r.missing + One(f = "missing")
  BY <1>2 DEF Fields
<1> QED BY <1>1, <1>3 DEF One, Claimed, Compared

CountInv ==
  /\ rep \in Counts
  /\ IsSeq(pending)
  /\ rep.produced = Claimed(rep) + (IF phase = "ended" THEN 0 ELSE Len(pending))
  /\ rep.server = Compared(rep) + One(rpc = "match")
  /\ phase = "live" => /\ rep = NoReport /\ pending = <<>> /\ rpc = "next"
                        /\ ids = <<>> /\ forgotten = {}

(* The inductive invariant of the replay. *)
ReplayInv == CountInv /\ (phase # "live" => TableInv)

LEMMA EmptyIsSeq == IsSeq(<<>>)
<1>1. <<>> \in Seq({})
  OBVIOUS
<1> QED BY <1>1, SeqOfEntries

LEMMA InitReplayInv == ReplayInit => ReplayInv
BY EmptyIsSeq DEF ReplayInit, ReplayInv, CountInv, Counts, Fields, NoReport, Claimed, Compared, One

(* Steps outside the replay's bookkeeping. *)
LEMMA CountsSame ==
  ASSUME CountInv, phase = "replay", UNCHANGED <<phase, pending, rep>>,
         rpc = "match" <=> rpc' = "match"
  PROVE  CountInv'
BY DEF CountInv, One

(* A reply produced, or one recorded and compared, is counted once. *)
LEMMA CountsMoved ==
  ASSUME CountInv, phase = "replay", phase' = phase, NEW f \in Fields, rep' = Add(rep, f),
         IsSeq(pending'),
         Len(pending') = Len(pending) + One(f = "produced")
                           - One(f \in {"matched", "differing", "extra"}),
         One(rpc' = "match") = One(rpc = "match") + One(f = "server")
                                - One(f \in {"matched", "differing", "unsolicited", "missing"})
  PROVE  CountInv'
<1>1. Len(pending) \in Nat /\ Len(pending') \in Nat
  BY DEF CountInv, IsSeq
<1>2. /\ rep' \in Counts
      /\ rep.produced \in Nat /\ rep'.produced = rep.produced + One(f = "produced")
      /\ rep.server \in Nat /\ rep'.server = rep.server + One(f = "server")
      /\ Claimed(rep) \in Nat
      /\ Claimed(rep') = Claimed(rep) + One(f \in {"matched", "differing", "extra"})
      /\ Compared(rep) \in Nat
      /\ Compared(rep') = Compared(rep)
                           + One(f \in {"matched", "differing", "unsolicited", "missing"})
  BY Added DEF CountInv
<1> DEFINE made   == One(f = "produced")
           read   == One(f = "server")
           taken  == One(f \in {"matched", "differing", "extra"})
           judged == One(f \in {"matched", "differing", "unsolicited", "missing"})
           owed   == One(rpc = "match")
<1>3. made \in Nat /\ read \in Nat /\ taken \in Nat /\ judged \in Nat /\ owed \in Nat
  BY DEF One
<1>4. rep'.produced = Claimed(rep') + Len(pending')
  <2>1. rep.produced = Claimed(rep) + Len(pending) /\ Len(pending') = Len(pending) + made - taken
    BY DEF CountInv
  <2>2. rep'.produced = rep.produced + made /\ Claimed(rep') = Claimed(rep) + taken
        /\ Claimed(rep) \in Nat
    BY <1>2
  <2> DEFINE n == Len(pending)
             m == Len(pending')
  <2> HIDE DEF made, taken, n, m
  <2>3. n \in Nat /\ m = n + made - taken /\ rep'.produced = Claimed(rep) + n + made
    BY <1>1, <1>3, <2>1, <2>2 DEF n, m
  <2>4. rep'.produced = Claimed(rep') + m
    BY <1>3, <2>2, <2>3
  <2> QED BY <2>4 DEF m
<1>5. rep'.server = Compared(rep') + One(rpc' = "match")
  <2>1. rep.server = Compared(rep) + owed /\ One(rpc' = "match") = owed + read - judged
    BY DEF CountInv
  <2>2. rep'.server = rep.server + read /\ Compared(rep') = Compared(rep) + judged
        /\ Compared(rep) \in Nat
    BY <1>2
  <2> HIDE DEF owed, read, judged
  <2> QED BY <1>3, <2>1, <2>2
<1> QED BY <1>2, <1>4, <1>5 DEF CountInv

LEMMA ServerStays ==
  ASSUME TableInv, UNCHANGED <<vars, ids, forgotten>> PROVE TableInv'
<1>1. KeepsConns
  BY DEF KeepsConns, TableInv, vars, connVars, callVars
<1> QED BY <1>1, TableKept

LEMMA LiveInv == ASSUME ReplayInv, LiveStep PROVE ReplayInv'
BY DEF LiveStep, ReplayInv, CountInv, replayVars

LEMMA StartInv == ASSUME ReplayInv, StartReplay PROVE ReplayInv'
<1>1. ids' = <<>> /\ forgotten' = {} /\ FreshServer
  BY DEF StartReplay, ReplayInv, CountInv, replayVars
<1>2. TableInv'
  BY <1>1, TableFresh
<1>3. CountInv'
  BY DEF StartReplay, ReplayInv, CountInv, replayVars
<1> QED BY <1>2, <1>3 DEF ReplayInv

LEMMA ReadInv ==
  ASSUME ReplayInv, ReadReply \/ ReadClose \/ ReadBytes PROVE ReplayInv'
<1> USE DEF ReplayInv
<1>1. CASE ReadReply
  <2>1. TableInv'
    BY <1>1, ServerStays DEF ReadReply, At
  <2>2. CountInv'
    <3>1. CASE rep' = Add(rep, "server") /\ ThenDrain("match")
      <4>1. PICK f \in Fields : f = "server"
        BY DEF Fields
      <4> QED BY <1>1, <3>1, <4>1, CountsMoved DEF ReadReply, At, ThenDrain, CountInv, One
    <3>2. CASE rep' = rep /\ Goto("next")
      BY <1>1, <3>2, CountsSame DEF ReadReply, At, Goto
    <3> QED BY <1>1, <3>1, <3>2 DEF ReadReply
  <2> QED BY <2>1, <2>2
<1>2. CASE ReadClose
  <2>1. TableInv'
    BY <1>2, TableClosed DEF ReadClose, At
  <2>2. CountInv'
    BY <1>2, CountsSame DEF ReadClose, At, ThenDrain
  <2> QED BY <2>1, <2>2
<1>3. CASE ReadBytes
  <2>1. TableInv'
    <3>1. TableInv /\ phase = "replay"
      BY <1>3 DEF ReadBytes, At
    <3>2. CASE UNCHANGED <<vars, ids, forgotten>>
      BY <3>1, <3>2, ServerStays
    <3>3. CASE \E c, t : /\ OnConnectionOpened(c, t) /\ ids' = replay_opened(c)
                         /\ forgotten' = IF ids' = ids THEN forgotten \cup {c} ELSE forgotten
      BY <3>1, <3>3, TableOpened
    <3> QED BY <1>3, <3>2, <3>3 DEF ReadBytes
  <2>2. CountInv'
    <3>1. PICK f \in Fields : f = "client"
      BY DEF Fields
    <3> QED BY <1>3, <3>1, CountsMoved DEF ReadBytes, At, ThenDrain, Goto, CountInv, One
  <2> QED BY <2>1, <2>2
<1> QED BY <1>1, <1>2, <1>3

LEMMA FeedInv ==
  ASSUME ReplayInv, Feed \/ Feeding \/ Fed \/ Resume PROVE ReplayInv'
<1> USE DEF ReplayInv
<1>0. TableInv /\ phase = "replay" /\ phase' = phase /\ UNCHANGED <<ids, forgotten>>
  BY DEF Feed, Feeding, Fed, Resume, At
<1>1. CountInv'
  BY CountsSame DEF Feed, Feeding, Fed, Resume, At, Goto, ThenDrain, RetryDrained
<1>2. ASSUME NEW c, NEW d, NEW t, OnBytes(c, d, t) PROVE KeepsConns
  BY <1>0, <1>2 DEF OnBytes, connVars, KeepsConns, TableInv
<1>3. KeepsConns
  <2>1. CASE UNCHANGED vars
    BY <1>0, <2>1 DEF KeepsConns, TableInv, vars, connVars, callVars
  <2>2. CASE Feed
    BY <1>2, <2>1, <2>2 DEF Feed
  <2>3. CASE Feeding
    BY <1>0, <2>3, SecondCall, SpacedCall DEF Feeding
  <2>4. CASE Fed
    BY <2>1, <2>4 DEF Fed
  <2>5. CASE Resume
    BY <1>2, <2>5 DEF Resume
  <2> QED BY <2>2, <2>3, <2>4, <2>5
<1>4. TableInv'
  BY <1>0, <1>3, TableKept
<1> QED BY <1>1, <1>4

LEMMA DrainInv ==
  ASSUME ReplayInv, DrainWrite \/ DrainEvent \/ Drained PROVE ReplayInv'
<1> USE DEF ReplayInv
<1>0. /\ TableInv /\ phase = "replay" /\ phase' = phase /\ rpc' = rpc
      /\ UNCHANGED <<ids, forgotten>>
  BY DEF DrainWrite, DrainEvent, Drained
<1>1. KeepsConns
  <2>1. CASE DrainWrite
    BY <1>0, <2>1 DEF DrainWrite, PollWrite, Spaced!PollWrite, callVars, Spaced!callVars,
                      KeepsConns, TableInv
  <2>2. CASE DrainEvent
    BY <1>0, <2>2 DEF DrainEvent, PollEvent, callVars, connVars, KeepsConns, TableInv
  <2>3. CASE Drained
    BY <1>0, <2>3 DEF Drained, KeepsConns, TableInv, vars, connVars, callVars
  <2> QED BY <2>1, <2>2, <2>3
<1>2. CASE DrainWrite
  <2>0. Len(pending) \in Nat
    BY DEF CountInv, IsSeq
  <2>1. PICK w : \/ pending' = Append(pending, w) /\ rep' = Add(rep, "produced")
                 \/ pending' = pending /\ rep' = Add(Add(rep, "produced"), "extra")
    BY <1>2, Zenon DEF DrainWrite
  <2>2. CASE pending' = Append(pending, w) /\ rep' = Add(rep, "produced")
    <3>1. IsSeq(pending') /\ Len(pending') = Len(pending) + 1
      BY <2>2, AppendEntries DEF CountInv
    <3>2. PICK f \in Fields : f = "produced"
      BY DEF Fields
    <3>3. CountInv'
      BY <1>0, <2>0, <2>2, <3>1, <3>2, CountsMoved DEF One
    <3> QED BY <1>0, <1>1, <3>3, TableKept
  <2>3. CASE pending' = pending /\ rep' = Add(Add(rep, "produced"), "extra")
    <3>1. PICK f \in Fields, g \in Fields : f = "produced" /\ g = "extra"
      BY DEF Fields
    <3>2. PICK r : r = Add(rep, f)
      OBVIOUS
    <3>3. /\ r \in Counts /\ r.produced = rep.produced + 1 /\ r.server = rep.server
          /\ Claimed(r) = Claimed(rep) /\ Compared(r) = Compared(rep)
          /\ Claimed(rep) \in Nat /\ rep.produced \in Nat /\ Compared(rep) \in Nat
          /\ rep.server \in Nat
      <4>1. rep \in Counts
        BY DEF CountInv
      <4>2. /\ r \in Counts
            /\ rep.produced \in Nat /\ r.produced = rep.produced + One(f = "produced")
            /\ rep.server \in Nat /\ r.server = rep.server + One(f = "server")
            /\ Claimed(rep) \in Nat
            /\ Claimed(r) = Claimed(rep) + One(f \in {"matched", "differing", "extra"})
            /\ Compared(rep) \in Nat
            /\ Compared(r) = Compared(rep)
                              + One(f \in {"matched", "differing", "unsolicited", "missing"})
        BY <3>2, <4>1, Added
      <4> QED BY <3>1, <4>2 DEF One
    <3>4. rep' = Add(r, g)
      BY <2>3, <3>1, <3>2
    <3>5. /\ rep' \in Counts /\ rep'.produced = r.produced /\ rep'.server = r.server
          /\ Claimed(rep') = Claimed(r) + 1 /\ Compared(rep') = Compared(r)
      BY <3>1, <3>3, <3>4, Added DEF One
    <3>6. CountInv'
      BY <1>0, <2>0, <2>3, <3>3, <3>5 DEF CountInv
    <3> QED BY <1>0, <1>1, <3>6, TableKept
  <2> QED BY <2>1, <2>2, <2>3
<1>3. CASE DrainEvent
  <2>1. rep' = Add(rep, "messages") \/ rep' = Add(rep, "errors") \/ rep' = rep
    BY <1>3 DEF DrainEvent
  <2>2. pending' = pending
    BY <1>3 DEF DrainEvent
  <2>3. PICK f \in Fields, g \in Fields : f = "messages" /\ g = "errors"
    BY DEF Fields
  <2>4. Len(pending) \in Nat /\ IsSeq(pending')
    BY <2>2 DEF CountInv, IsSeq
  <2>8. CountInv'
    <3>1. CASE rep' = rep
      BY <1>0, <2>2, <3>1, CountsSame
    <3>2. CASE rep' = Add(rep, f)
      BY <1>0, <2>2, <2>3, <2>4, <3>2, CountsMoved DEF One
    <3>3. CASE rep' = Add(rep, g)
      BY <1>0, <2>2, <2>3, <2>4, <3>3, CountsMoved DEF One
    <3> QED BY <2>1, <2>3, <3>1, <3>2, <3>3
  <2> QED BY <1>0, <1>1, <2>8, TableKept
<1>4. CASE Drained
  BY <1>0, <1>1, <1>4, TableKept, CountsSame DEF Drained
<1> QED BY <1>2, <1>3, <1>4

LEMMA MatchInv ==
  ASSUME ReplayInv, Match PROVE ReplayInv'
<1> USE DEF ReplayInv
<1>0. /\ TableInv /\ phase = "replay" /\ phase' = phase /\ rpc = "match" /\ rpc' = "next"
      /\ UNCHANGED <<vars, ids, forgotten>>
  BY DEF Match, At, Goto
<1>1. TableInv'
  BY <1>0, ServerStays
<1>2. ASSUME NEW found \in SUBSET (DOMAIN pending), found # {}, Claim(found)
      PROVE  IsSeq(pending') /\ Len(pending') = Len(pending) - 1 /\ Len(pending) \in Nat
  <2>1. IsSeq(pending) /\ DOMAIN pending = 1..Len(pending) /\ Len(pending) \in Nat
    BY DEF CountInv, IsSeq
  <2>2. Min(found) \in 1..Len(pending)
    BY <1>2, <2>1, MinIsOne
  <2> QED BY <1>2, <2>1, <2>2, RemoveAtEntries DEF Claim
<1>3. SameCode \in SUBSET (DOMAIN pending) /\ Identical \in SUBSET (DOMAIN pending)
  BY DEF SameCode, Identical
<1>4. PICK f1 \in Fields, f2 \in Fields, f3 \in Fields, f4 \in Fields :
        f1 = "matched" /\ f2 = "differing" /\ f3 = "unsolicited" /\ f4 = "missing"
  BY DEF Fields
<1>5. CASE Identical # {} /\ Claim(Identical) /\ rep' = Add(rep, f1)
  <2>1. IsSeq(pending') /\ Len(pending') = Len(pending) - 1 /\ Len(pending) \in Nat
    BY <1>2, <1>3, <1>5
  <2> QED BY <1>0, <1>1, <1>4, <1>5, <2>1, CountsMoved DEF One
<1>6. CASE SameCode # {} /\ Claim(SameCode) /\ rep' = Add(rep, f2)
  <2>1. IsSeq(pending') /\ Len(pending') = Len(pending) - 1 /\ Len(pending) \in Nat
    BY <1>2, <1>3, <1>6
  <2> QED BY <1>0, <1>1, <1>4, <1>6, <2>1, CountsMoved DEF One
<1>7. CASE (rep' = Add(rep, f3) \/ rep' = Add(rep, f4)) /\ pending' = pending
  <2>1. Len(pending) \in Nat /\ IsSeq(pending')
    BY <1>7 DEF CountInv, IsSeq
  <2>2. CASE rep' = Add(rep, f3)
    BY <1>0, <1>1, <1>4, <1>7, <2>1, <2>2, CountsMoved DEF One
  <2>3. CASE rep' = Add(rep, f4)
    BY <1>0, <1>1, <1>4, <1>7, <2>1, <2>3, CountsMoved DEF One
  <2> QED BY <1>7, <2>2, <2>3
<1> QED BY <1>4, <1>5, <1>6, <1>7 DEF Match

LEMMA EndInv ==
  ASSUME ReplayInv, Finish \/ Report PROVE ReplayInv'
<1> USE DEF ReplayInv
<1>1. TableInv /\ UNCHANGED <<vars, ids, forgotten, pending>> /\ phase = "replay"
  BY DEF Finish, Report, At
<1>2. TableInv'
  BY <1>1, ServerStays
<1>3. CASE Finish
  BY <1>2, <1>3, CountsSame DEF Finish, At, ThenDrain
<1>4. CASE Report
  <2>1. Len(pending) \in Nat
    BY DEF CountInv, IsSeq
  <2>2. /\ rep' \in Counts /\ rep'.produced = rep.produced /\ rep'.server = rep.server
        /\ Claimed(rep') = Claimed(rep) + Len(pending) /\ Compared(rep') = Compared(rep)
        /\ Claimed(rep) \in Nat
    <3>1. rep' = [rep EXCEPT !.extra = rep.extra + Len(pending)] /\ rep \in [Fields -> Nat]
      BY <1>4 DEF Report, CountInv, Counts
    <3>2. PICK r : r = rep'
      OBVIOUS
    <3>3. /\ r \in [Fields -> Nat] /\ r.extra = rep.extra + Len(pending)
          /\ r.produced = rep.produced /\ r.server = rep.server
          /\ r.matched = rep.matched /\ r.differing = rep.differing
          /\ r.unsolicited = rep.unsolicited /\ r.missing = rep.missing
      <4>1. PICK v \in Nat : v = rep.extra + Len(pending)
        BY <2>1, <3>1 DEF Fields
      <4>2. r = [rep EXCEPT !.extra = v]
        BY <3>1, <3>2, <4>1
      <4>3. /\ r \in [Fields -> Nat] /\ r.extra = v
            /\ r.produced = rep.produced /\ r.server = rep.server
            /\ r.matched = rep.matched /\ r.differing = rep.differing
            /\ r.unsolicited = rep.unsolicited /\ r.missing = rep.missing
        BY <3>1, <4>2 DEF Fields
      <4> QED BY <4>1, <4>3
    <3>4. /\ rep.matched \in Nat /\ rep.differing \in Nat /\ rep.extra \in Nat
      BY <3>1 DEF Fields
    <3>5. Claimed(r) = Claimed(rep) + Len(pending) /\ Compared(r) = Compared(rep)
          /\ Claimed(rep) \in Nat
      BY <2>1, <3>3, <3>4 DEF Claimed, Compared
    <3> QED BY <3>2, <3>3, <3>5 DEF Counts
  <2> QED BY <1>1, <1>2, <1>4, <2>1, <2>2 DEF Report, CountInv, At
<1> QED BY <1>3, <1>4

LEMMA NextReplayInv == ReplayInv /\ [ReplayNext]_allVars => ReplayInv'
<1> SUFFICES ASSUME ReplayInv, [ReplayNext]_allVars PROVE ReplayInv'
  OBVIOUS
<1>1. CASE UNCHANGED allVars
  <2>1. UNCHANGED <<vars, ids, forgotten, phase, rep, pending, rpc>>
    BY <1>1 DEF allVars, replayVars
  <2>2. TableInv => TableInv'
    BY <2>1, ServerStays
  <2> QED BY <2>1, <2>2 DEF ReplayInv, CountInv
<1> QED BY <1>1, LiveInv, StartInv, ReadInv, FeedInv, DrainInv, MatchInv, EndInv
        DEF ReplayNext, ReplayStep

(* The report of a replay adds up at every step, whatever capture it reads *)
(* and however the second server differs: each reply the server produced   *)
(* and each one the recording holds is accounted for exactly once, and     *)
(* replay_is_open knows the connections the server has open, but those     *)
(* that came while its table was full, which it never closes.              *)
THEOREM ReplayReportAddsUp == ReplaySpec => []ReportBalances
<1>1. ReplayInv => ReportBalances
  BY DEF ReplayInv, CountInv, TableInv, ReportBalances, OpenSlots, Claimed, Compared, One
<1> QED BY <1>1, InitReplayInv, NextReplayInv, PTL DEF ReplaySpec
-----------------------------------------------------------------------------
(* RUNS OF RECORDS. *)

(* The table FlattenSeq fills, and one entry of it. *)
FlatTable(s) ==
  LET flatten[i \in 1..Len(s)] == IF i = 1 THEN s[i] ELSE flatten[i - 1] \o s[i]
  IN  flatten

FlatPass(s, h, k) == IF k = 1 THEN s[k] ELSE h[k - 1] \o s[k]

LEMMA FlatIsLast ==
  ASSUME NEW s, Len(s) # 0 PROVE File!FlattenSeq(s) = FlatTable(s)[Len(s)]
BY DEF File!FlattenSeq, FlatTable

LEMMA FlatRecurrence ==
  ASSUME NEW U, NEW s \in Seq(Seq(U))
  PROVE  LET h == FlatTable(s)
         IN  /\ h \in [1..Len(s) -> Seq(U)]
             /\ \A k \in 1..Len(s) : h[k] = FlatPass(s, h, k)
<1> DEFINE V == Seq(U)
           m == Len(s)
           F == [k \in 1..m |-> [v \in V |-> v \o s[k]]]
<1>0. m \in Nat /\ \A k \in 1..m : s[k] \in V
  OBVIOUS
<1>1. \A k \in 1..m, v \in V : v \o s[k] \in V
  OBVIOUS
<1>2. F \in [1..m -> [V -> V]]
  BY <1>1
<1>3. <<>> \in V
  OBVIOUS
<1>4. \A k \in 1..m, v \in V : F[k][v] = v \o s[k]
  OBVIOUS
<1>a. \A v \in V : <<>> \o v = v
  OBVIOUS
<1> HIDE DEF F, V, m
<1>5. PICK g \in [0..m -> V] : Iterates(g, <<>>, F, m)
  BY <1>0, <1>2, <1>3, LoopExists
<1>6. ASSUME NEW k \in 1..m PROVE g[k] = FlatPass(s, g, k)
  <2>1. g[k - 1] \in V /\ g[k] = F[k][g[k - 1]]
    BY <1>0, <1>5 DEF Iterates
  <2>2. g[k] = g[k - 1] \o s[k]
    BY <1>4, <2>1
  <2>3. CASE k = 1
    <3>1. g[0] = <<>> /\ k - 1 = 0
      BY <1>5, <2>3 DEF Iterates
    <3> QED BY <1>0, <1>a, <2>2, <2>3, <3>1 DEF FlatPass
  <2>4. CASE k # 1
    BY <2>2, <2>4 DEF FlatPass
  <2> QED BY <2>3, <2>4
<1> DEFINE f == [k \in 1..m |-> g[k]]
<1>7. f \in [1..m -> V]
  BY <1>0, <1>5
<1>8. ASSUME NEW k \in 1..m PROVE f[k] = FlatPass(s, f, k)
  <2>1. CASE k = 1
    BY <1>6, <2>1 DEF FlatPass
  <2>2. CASE k # 1
    <3>1. k - 1 \in 1..m
      BY <1>0, <2>2
    <3> QED BY <1>6, <2>2, <3>1 DEF FlatPass
  <2> QED BY <2>1, <2>2
<1> HIDE DEF f
<1>9. f = [k \in 1..m |-> FlatPass(s, f, k)]
  BY <1>7, <1>8
<1> DEFINE h == FlatTable(s)
<1>10. h = [k \in 1..m |-> FlatPass(s, h, k)]
  BY <1>9, Zenon DEF FlatTable, FlatPass, m
<1> HIDE DEF h
<1>11. \A k \in 1..m : h[k] = FlatPass(s, h, k)
  BY <1>10
<1> DEFINE T == {k \in Nat : k + 1 <= m => h[k + 1] = f[k + 1]}
<1>12. 0 \in T
  <2> SUFFICES ASSUME 1 <= m PROVE h[1] = f[1]
    OBVIOUS
  <2>1. 1 \in 1..m
    BY <1>0
  <2> QED BY <1>8, <1>11, <2>1 DEF FlatPass
<1>13. ASSUME NEW n \in T PROVE n + 1 \in T
  <2> SUFFICES ASSUME n + 2 <= m PROVE h[n + 2] = f[n + 2]
    OBVIOUS
  <2>1. h[n + 1] = f[n + 1] /\ n + 2 \in 1..m /\ (n + 2) - 1 = n + 1 /\ n + 2 # 1
    BY <1>0, <1>13
  <2> QED BY <1>8, <1>11, <2>1 DEF FlatPass
<1> HIDE DEF T
<1>14. T = Nat
  <2>1. T \in SUBSET Nat
    BY DEF T
  <2> QED BY <1>12, <1>13, <2>1, SetInduction
<1>15. ASSUME NEW k \in 1..m PROVE h[k] = f[k]
  <2>1. k - 1 \in T /\ k - 1 + 1 = k /\ k <= m
    BY <1>0, <1>14
  <2> QED BY <2>1 DEF T
<1>16. h \in [1..m -> V]
  BY <1>7, <1>10, <1>15
<1> QED BY <1>11, <1>16 DEF h, m, V

(* Flattening nothing, and one sequence more. *)
LEMMA FlatEmpty == File!FlattenSeq(<<>>) = <<>>
BY DEF File!FlattenSeq

LEMMA FlatAppend ==
  ASSUME NEW U, NEW s \in Seq(Seq(U)), NEW x \in Seq(U)
  PROVE  /\ File!FlattenSeq(s) \in Seq(U)
         /\ File!FlattenSeq(Append(s, x)) = File!FlattenSeq(s) \o x
<1> DEFINE v == Append(s, x)
           n == Len(s)
           h == FlatTable(s)
           g == FlatTable(v)
<1>1. /\ v \in Seq(Seq(U)) /\ Len(v) = n + 1 /\ n \in Nat
      /\ v[n + 1] = x /\ \A k \in 1..n : v[k] = s[k]
  OBVIOUS
<1> HIDE DEF v
<1>2. h \in [1..n -> Seq(U)] /\ \A k \in 1..n : h[k] = FlatPass(s, h, k)
  BY FlatRecurrence
<1>3. \A k \in 1..(n + 1) : g[k] = FlatPass(v, g, k)
  BY <1>1, FlatRecurrence
<1>4. File!FlattenSeq(v) = g[n + 1]
  <2>1. Len(v) # 0
    BY <1>1
  <2> QED BY <1>1, <2>1, FlatIsLast
<1>5. n # 0 => File!FlattenSeq(s) = h[n]
  BY FlatIsLast
<1> HIDE DEF h, g
<1>b. n \in Nat /\ Len(s) = n
  BY <1>1
<1> HIDE DEF n
<1>6. CASE n = 0
  <2>1. s = <<>> /\ File!FlattenSeq(s) = <<>>
    BY <1>b, <1>6, FlatEmpty
  <2>2. 1 \in 1..(n + 1) /\ n + 1 = 1
    BY <1>6
  <2>3. g[1] = x
    BY <1>1, <1>3, <2>2 DEF FlatPass
  <2>4. <<>> \o x = x /\ <<>> \in Seq(U)
    OBVIOUS
  <2> QED BY <1>4, <2>1, <2>2, <2>3, <2>4 DEF v
<1>7. CASE n # 0
  <2> DEFINE T == {k \in Nat : k + 1 <= n => g[k + 1] = h[k + 1]}
  <2>1. 0 \in T
    <3>1. 1 \in 1..n /\ 1 \in 1..(n + 1)
      BY <1>b, <1>7
    <3>2. v[1] = s[1]
      BY <1>1, <3>1
    <3>3. g[1] = h[1]
      BY <1>2, <1>3, <3>1, <3>2 DEF FlatPass
    <3> QED BY <3>3
  <2>2. ASSUME NEW k \in T PROVE k + 1 \in T
    <3> SUFFICES ASSUME k + 2 <= n PROVE g[k + 2] = h[k + 2]
      OBVIOUS
    <3>1. g[k + 1] = h[k + 1] /\ k + 2 \in 1..n /\ k + 2 \in 1..(n + 1) /\ (k + 2) - 1 = k + 1
          /\ k + 2 # 1
      <4>1. k \in Nat /\ k + 1 <= n
        BY <1>b, <2>2
      <4> QED BY <1>b, <2>2, <4>1
    <3>2. v[k + 2] = s[k + 2]
      BY <1>1, <3>1
    <3>3. g[k + 2] = FlatPass(v, g, k + 2) /\ h[k + 2] = FlatPass(s, h, k + 2)
      BY <1>2, <1>3, <3>1
    <3> QED BY <3>1, <3>2, <3>3 DEF FlatPass
  <2> HIDE DEF T
  <2>3. T = Nat
    <3>1. T \in SUBSET Nat
      BY DEF T
    <3> QED BY <2>1, <2>2, <3>1, SetInduction
  <2>4. g[n] = h[n]
    <3>1. n - 1 \in T /\ n - 1 + 1 = n
      BY <1>1, <1>7, <2>3
    <3> QED BY <3>1 DEF T
  <2>5. g[n + 1] = g[n] \o x
    <3>1. n + 1 \in 1..(n + 1) /\ n + 1 # 1 /\ (n + 1) - 1 = n
      BY <1>1, <1>7
    <3> QED BY <1>1, <1>3, <3>1 DEF FlatPass
  <2>6. h[n] \in Seq(U)
    <3>1. n \in 1..n
      BY <1>b, <1>7
    <3> QED BY <1>2, <3>1
  <2> QED BY <1>4, <1>5, <1>7, <2>4, <2>5, <2>6 DEF v
<1> QED BY <1>6, <1>7
-----------------------------------------------------------------------------
(* THE FILE.  Units, and the file with nothing in it but the records of    *)
(* chunks of these lengths.                                                *)

Places == {"magic", "keys", "blank", "head 1", "head 2", "payload"}

Chunks == [number : Nat, length : Nat]

Unit == [of : Chunks, at : Places]

Record(k, x) == File!HeadUnits(File!Chunk(k, x)) \o File!PayloadUnits(File!Chunk(k, x))

Records(w) == [k \in DOMAIN w |-> Record(k, w[k])]

Laid(w) == File!Header \o File!FlattenSeq(Records(w))

(* The file up to its n-th record. *)
Upto(w, n) == Laid(SubSeq(w, 1, n))

(* p is how s begins. *)
Begins(p, s) == Len(p) <= Len(s) /\ \A k \in 1..Len(p) : s[k] = p[k]

ChunkAt(k) == File!Chunk(k, given[k])

LEMMA ChunkOK == ASSUME NEW k \in Nat, NEW x \in Nat
  PROVE File!Chunk(k, x) \in Chunks /\ File!Chunk(k, x).length = x
BY DEF File!Chunk, Chunks

LEMMA UnitsOK ==
  ASSUME NEW c \in Chunks
  PROVE  /\ File!HeadUnits(c) \in Seq(Unit) /\ Len(File!HeadUnits(c)) = 2
         /\ File!HeadUnits(c)[1].of = c
         /\ File!PayloadUnits(c) \in Seq(Unit) /\ Len(File!PayloadUnits(c)) = c.length
         /\ c.length \in Nat
<1>1. [of |-> c, at |-> "head 1"] \in Unit /\ [of |-> c, at |-> "head 2"] \in Unit
  BY DEF Unit, Places
<1>2. [of |-> c, at |-> "payload"] \in Unit /\ c.length \in Nat
  BY DEF Unit, Places, Chunks
<1>3. File!HeadUnits(c) \in Seq(Unit) /\ Len(File!HeadUnits(c)) = 2 /\ File!HeadUnits(c)[1].of = c
  <2> DEFINE a == [of |-> c, at |-> "head 1"]
             b == [of |-> c, at |-> "head 2"]
  <2>1. a \in Unit /\ b \in Unit /\ a.of = c /\ File!HeadUnits(c) = <<a, b>>
    BY <1>1 DEF File!HeadUnits
  <2> HIDE DEF a, b
  <2>2. <<a, b>> \in Seq(Unit) /\ Len(<<a, b>>) = 2 /\ <<a, b>>[1] = a
    BY <2>1
  <2> QED BY <2>1, <2>2
<1>4. File!PayloadUnits(c) \in [1..c.length -> Unit]
  BY <1>2 DEF File!PayloadUnits
<1>5. File!PayloadUnits(c) \in Seq(Unit) /\ Len(File!PayloadUnits(c)) = c.length
  BY <1>2, <1>4, FunIsSeq
<1> QED BY <1>2, <1>3, <1>5

LEMMA HeaderOK == File!Header \in Seq(Unit) /\ Len(File!Header) = 3
<1>1. File!Bogus \in Chunks
  BY DEF File!Bogus, File!Chunk, Chunks
<1>2. /\ [of |-> File!Bogus, at |-> "magic"] \in Unit /\ [of |-> File!Bogus, at |-> "keys"] \in Unit
      /\ [of |-> File!Bogus, at |-> "blank"] \in Unit
  BY <1>1 DEF Unit, Places
<1> QED BY <1>2 DEF File!Header

LEMMA RecordOK ==
  ASSUME NEW k \in Nat, NEW x \in Nat
  PROVE  Record(k, x) \in Seq(Unit) /\ Len(Record(k, x)) = 2 + x
<1> DEFINE c == File!Chunk(k, x)
           h == File!HeadUnits(c)
           p == File!PayloadUnits(c)
<1>0. c \in Chunks /\ c.length = x
  BY ChunkOK
<1> HIDE DEF c
<1>1. h \in Seq(Unit) /\ Len(h) = 2 /\ p \in Seq(Unit) /\ Len(p) = x
  BY <1>0, UnitsOK
<1> HIDE DEF h, p
<1>2. h \o p \in Seq(Unit) /\ Len(h \o p) = 2 + x
  <2>1. h \o p \in Seq(Unit) /\ Len(h \o p) = Len(h) + Len(p)
    BY <1>1, ConcatProperties
  <2> QED BY <1>1, <2>1
<1> QED BY <1>2 DEF Record, h, p, c

LEMMA LaidEmpty == Laid(<<>>) = File!Header
<1>1. Records(<<>>) = <<>>
  BY DEF Records
<1>2. File!Header \o <<>> = File!Header
  BY HeaderOK
<1> QED BY <1>1, <1>2, FlatEmpty DEF Laid

LEMMA RecordsOK ==
  ASSUME NEW w \in Seq(Nat) PROVE Records(w) \in Seq(Seq(Unit)) /\ Len(Records(w)) = Len(w)
<1>1. DOMAIN w = 1..Len(w) /\ Len(w) \in Nat /\ \A k \in 1..Len(w) : w[k] \in Nat
  OBVIOUS
<1>2. \A k \in 1..Len(w) : Record(k, w[k]) \in Seq(Unit)
  BY <1>1, RecordOK
<1>3. Records(w) \in [1..Len(w) -> Seq(Unit)]
  BY <1>1, <1>2 DEF Records
<1> QED BY <1>1, <1>3, FunIsSeq

LEMMA UnitsJoin ==
  ASSUME NEW x \in Seq(Unit), NEW y \in Seq(Unit), NEW z \in Seq(Unit)
  PROVE  Joined(x, y, z)
BY JoinedAll

LEMMA LaidAppend ==
  ASSUME NEW w \in Seq(Nat), NEW x \in Nat
  PROVE  /\ Laid(w) \in Seq(Unit)
         /\ Laid(Append(w, x)) = Laid(w) \o Record(Len(w) + 1, x)
<1> DEFINE v == Append(w, x)
           r == Records(w)
           y == Record(Len(w) + 1, x)
           f == File!FlattenSeq(r)
<1>1. /\ v \in Seq(Nat) /\ Len(v) = Len(w) + 1 /\ v[Len(w) + 1] = x /\ Len(w) \in Nat
      /\ \A k \in 1..Len(w) : v[k] = w[k]
  OBVIOUS
<1> HIDE DEF v
<1>2. y \in Seq(Unit)
  BY <1>1, RecordOK
<1>3. r \in Seq(Seq(Unit)) /\ Len(r) = Len(w)
  BY RecordsOK
<1>4. Records(v) \in Seq(Seq(Unit)) /\ Len(Records(v)) = Len(w) + 1
  BY <1>1, RecordsOK
<1>5. Records(v) = Append(r, y)
  <2>1. \A k \in 1..Len(w) : Records(v)[k] = Record(k, w[k]) /\ r[k] = Record(k, w[k])
    BY <1>1 DEF Records
  <2>2. Records(v)[Len(w) + 1] = y
    BY <1>1 DEF Records
  <2> HIDE DEF r, y
  <2>3. Append(r, y) \in Seq(Seq(Unit)) /\ Len(Append(r, y)) = Len(w) + 1
    BY <1>2, <1>3
  <2>4. ASSUME NEW k \in 1..(Len(w) + 1) PROVE Records(v)[k] = Append(r, y)[k]
    <3>1. CASE k \in 1..Len(w)
      <4>1. Append(r, y)[k] = r[k]
        BY <1>2, <1>3, <3>1, AppendProperties
      <4> QED BY <2>1, <3>1, <4>1
    <3>2. CASE k = Len(w) + 1
      <4>1. Append(r, y)[Len(r) + 1] = y
        BY <1>2, <1>3, AppendProperties
      <4>2. Append(r, y)[k] = y
        BY <1>3, <3>2, <4>1
      <4> QED BY <2>2, <3>2, <4>2
    <3>3. k \in 1..Len(w) \/ k = Len(w) + 1
      BY <2>4
    <3> QED BY <3>1, <3>2, <3>3
  <2> QED BY <1>4, <2>3, <2>4, SeqEqual
<1> HIDE DEF r, y
<1>6. f \in Seq(Unit) /\ File!FlattenSeq(Append(r, y)) = f \o y
  BY <1>2, <1>3, FlatAppend
<1> HIDE DEF f
<1>7. File!Header \o (f \o y) = (File!Header \o f) \o y /\ File!Header \o f \in Seq(Unit)
  <2>1. File!Header \in Seq(Unit)
    BY HeaderOK
  <2>2. y \in Seq(Unit)
    BY <1>2
  <2>3. File!Header \o (f \o y) = (File!Header \o f) \o y
    <3>1. Joined(File!Header, f, y)
      BY <1>6, <2>1, <2>2, UnitsJoin
    <3> QED BY <3>1 DEF Joined
  <2> QED BY <1>6, <2>1, <2>3, ConcatProperties
<1> QED BY <1>5, <1>6, <1>7 DEF Laid, v, r, y, f
-----------------------------------------------------------------------------
(* HOW SEQUENCES BEGIN. *)

LEMMA BeginsConcat ==
  ASSUME NEW U, NEW p \in Seq(U), NEW s \in Seq(U) PROVE Begins(p, p \o s)
<1>1. Len(p \o s) = Len(p) + Len(s) /\ Len(p) \in Nat /\ Len(s) \in Nat
  BY ConcatProperties
<1>2. \A k \in 1..Len(p) + Len(s) : (p \o s)[k] = IF k <= Len(p) THEN p[k] ELSE s[k - Len(p)]
  BY ConcatProperties
<1> QED BY <1>1, <1>2 DEF Begins

LEMMA BeginsItself == ASSUME NEW U, NEW p \in Seq(U) PROVE Begins(p, p)
BY DEF Begins

LEMMA BeginsFurther ==
  ASSUME NEW U, NEW p \in Seq(U), NEW q \in Seq(U), NEW s \in Seq(U), Begins(p, q), Begins(q, s)
  PROVE  Begins(p, s)
<1>1. Len(p) \in Nat /\ Len(q) \in Nat /\ Len(s) \in Nat
  OBVIOUS
<1> QED BY <1>1 DEF Begins

LEMMA BeginsBoth ==
  ASSUME NEW U, NEW p \in Seq(U), NEW q \in Seq(U), NEW s \in Seq(U), Begins(p, s), Begins(q, s),
         Len(p) <= Len(q)
  PROVE  Begins(p, q)
<1>1. Len(p) \in Nat /\ Len(q) \in Nat /\ Len(s) \in Nat
  OBVIOUS
<1> QED BY <1>1 DEF Begins

LEMMA BeginsEqual ==
  ASSUME NEW U, NEW p \in Seq(U), NEW q \in Seq(U), Begins(p, q), Len(q) <= Len(p)
  PROVE  p = q
<1>1. Len(p) = Len(q) /\ \A k \in 1..Len(p) : p[k] = q[k]
  BY DEF Begins
<1> QED BY <1>1, SeqEqual

LEMMA BeginsCut ==
  ASSUME NEW U, NEW s \in Seq(U), NEW k \in 0..Len(s)
  PROVE  SubSeq(s, 1, k) \in Seq(U) /\ Len(SubSeq(s, 1, k)) = k /\ Begins(SubSeq(s, 1, k), s)
<1>1. Len(s) \in Nat /\ k \in Nat /\ \A i \in 1..k : s[i] \in U
  OBVIOUS
<1>2. /\ SubSeq(s, 1, k) \in Seq(U) /\ Len(SubSeq(s, 1, k)) = IF 1 <= k THEN k - 1 + 1 ELSE 0
      /\ \A i \in 1..k - 1 + 1 : SubSeq(s, 1, k)[i] = s[1 + i - 1]
  BY <1>1, SubSeqProperties
<1>3. Len(SubSeq(s, 1, k)) = k
  BY <1>1, <1>2
<1>4. ASSUME NEW i \in 1..k PROVE s[i] = SubSeq(s, 1, k)[i]
  <2>1. i \in 1..k - 1 + 1 /\ 1 + i - 1 = i
    BY <1>1
  <2> QED BY <1>2, <2>1
<1> QED BY <1>1, <1>2, <1>3, <1>4 DEF Begins

LEMMA BeginsAt ==
  ASSUME NEW U, NEW p \in Seq(U), NEW s \in Seq(U), Begins(p, s)
  PROVE  SubSeq(s, 1, Len(p)) = p
<1>1. Len(p) \in 0..Len(s)
  BY DEF Begins
<1> DEFINE n == Len(p)
<1>a. n \in 0..Len(s) /\ n = Len(p)
  BY <1>1
<1> HIDE DEF n
<1>2. SubSeq(s, 1, n) \in Seq(U) /\ Len(SubSeq(s, 1, n)) = n /\ Begins(SubSeq(s, 1, n), s)
  BY <1>a, BeginsCut
<1> DEFINE c == SubSeq(s, 1, n)
<1> HIDE DEF c
<1>b. c \in Seq(U) /\ Len(c) = Len(p) /\ Begins(c, s) /\ Len(p) <= Len(c) /\ Len(c) <= Len(p)
  BY <1>a, <1>2 DEF c
<1>3. Begins(p, c)
  BY <1>b, BeginsBoth
<1>4. p = c
  BY <1>b, <1>3, BeginsEqual
<1> QED BY <1>a, <1>4 DEF c

LEMMA BeginsIsPrefix ==
  ASSUME NEW U, NEW p \in Seq(U), NEW s \in Seq(U) PROVE File!IsPrefix(p, s) <=> Begins(p, s)
<1>1. SubSeq(p, 1, Len(p)) = p
  BY SubSeqFull
<1>2. ASSUME Begins(p, s) PROVE File!IsPrefix(p, s)
  BY <1>1, <1>2, BeginsAt DEF File!IsPrefix, Begins
<1>3. ASSUME File!IsPrefix(p, s) PROVE Begins(p, s)
  <2>1. Len(p) \in 0..Len(s) /\ SubSeq(s, 1, Len(p)) = p
    BY <1>1, <1>3 DEF File!IsPrefix
  <2> DEFINE n == Len(p)
  <2>2. n \in 0..Len(s) /\ SubSeq(s, 1, n) = p
    BY <2>1
  <2> HIDE DEF n
  <2> QED BY <2>2, BeginsCut
<1> QED BY <1>2, <1>3

(* What a sequence has behind how it begins. *)
LEMMA BeginsRest ==
  ASSUME NEW U, NEW p \in Seq(U), NEW q \in Seq(U), NEW s \in Seq(U)
  PROVE  /\ SubSeq(s, Len(p) + 1, Len(s)) \in Seq(U)
         /\ Len(p) <= Len(s) => Len(SubSeq(s, Len(p) + 1, Len(s))) = Len(s) - Len(p)
         /\ Begins(p \o q, s) => Begins(q, SubSeq(s, Len(p) + 1, Len(s)))
         /\ Begins(p, s) /\ Begins(s, p \o q) => Begins(SubSeq(s, Len(p) + 1, Len(s)), q)
<1> DEFINE m == Len(p)
           n == Len(s)
           r == SubSeq(s, m + 1, n)
<1>1. m \in Nat /\ n \in Nat /\ Len(q) \in Nat /\ \A i \in (m + 1)..n : s[i] \in U
  OBVIOUS
<1>2. /\ r \in Seq(U) /\ Len(r) = IF m + 1 <= n THEN n - (m + 1) + 1 ELSE 0
      /\ \A i \in 1..n - (m + 1) + 1 : r[i] = s[(m + 1) + i - 1]
  BY <1>1, SubSeqProperties
<1>3. /\ Len(p \o q) = m + Len(q)
      /\ \A i \in 1..m + Len(q) : (p \o q)[i] = IF i <= m THEN p[i] ELSE q[i - m]
  BY ConcatProperties
<1> DEFINE c == p \o q
<1> HIDE DEF m, n, r, c
<1>4. m <= n => Len(r) = n - m
  BY <1>1, <1>2
<1>5. ASSUME m <= n, NEW i \in 1..Len(r) PROVE r[i] = s[m + i]
  <2>1. i \in 1..n - (m + 1) + 1 /\ (m + 1) + i - 1 = m + i
    BY <1>1, <1>4, <1>5
  <2> QED BY <1>2, <2>1
<1>6. ASSUME NEW i \in 1..Len(q) PROVE c[m + i] = q[i]
  <2>1. m + i \in 1..m + Len(q) /\ ~(m + i <= m) /\ (m + i) - m = i
    BY <1>1
  <2> QED BY <1>3, <2>1 DEF c
<1>7. Len(c) = m + Len(q)
  BY <1>3 DEF c
<1>8. ASSUME Begins(c, s) PROVE Begins(q, r)
  <2>1. Len(c) <= n /\ \A k \in 1..Len(c) : s[k] = c[k]
    BY <1>8 DEF Begins, n
  <2>2. m <= n /\ Len(q) <= Len(r)
    BY <1>1, <1>4, <1>7, <2>1
  <2>3. ASSUME NEW i \in 1..Len(q) PROVE r[i] = q[i]
    <3>1. m + i \in 1..Len(c) /\ i \in 1..Len(r)
      BY <1>1, <1>4, <1>7, <2>2
    <3> QED BY <1>5, <1>6, <2>1, <2>2, <3>1
  <2> QED BY <2>2, <2>3 DEF Begins
<1>9. ASSUME Begins(p, s), Begins(s, c) PROVE Begins(r, q)
  <2>1. m <= n /\ n <= Len(c) /\ \A k \in 1..n : c[k] = s[k]
    BY <1>9 DEF Begins, n, m
  <2>2. Len(r) <= Len(q) /\ Len(r) = n - m
    BY <1>1, <1>4, <1>7, <2>1
  <2>3. ASSUME NEW i \in 1..Len(r) PROVE q[i] = r[i]
    <3>1. m + i \in 1..n /\ i \in 1..Len(q)
      BY <1>1, <2>1, <2>2
    <3> QED BY <1>5, <1>6, <2>1, <3>1
  <2> QED BY <2>2, <2>3 DEF Begins
<1> QED BY <1>2, <1>4, <1>8, <1>9 DEF m, n, r, c
-----------------------------------------------------------------------------
(* THE FILE UP TO A RECORD. *)

LEMMA UptoZero == ASSUME NEW w PROVE Upto(w, 0) = File!Header
<1>1. SubSeq(w, 1, 0) = <<>>
  BY SubSeqEmpty
<1> QED BY <1>1, LaidEmpty DEF Upto

LEMMA LaidOK == ASSUME NEW w \in Seq(Nat) PROVE Laid(w) \in Seq(Unit)
BY LaidAppend, 0 \in Nat

LEMMA UptoOK ==
  ASSUME NEW w \in Seq(Nat), NEW n \in 0..Len(w) PROVE Upto(w, n) \in Seq(Unit)
<1>1. SubSeq(w, 1, n) \in Seq(Nat)
  BY BeginsCut
<1> QED BY <1>1, LaidOK DEF Upto

LEMMA UptoAll == ASSUME NEW w \in Seq(Nat) PROVE Upto(w, Len(w)) = Laid(w)
BY SubSeqFull DEF Upto

LEMMA UptoNext ==
  ASSUME NEW w \in Seq(Nat), NEW n \in Nat, n + 1 <= Len(w)
  PROVE  /\ Record(n + 1, w[n + 1]) \in Seq(Unit) /\ Len(Record(n + 1, w[n + 1])) = 2 + w[n + 1]
         /\ w[n + 1] \in Nat
         /\ Upto(w, n + 1) = Upto(w, n) \o Record(n + 1, w[n + 1])
<1> DEFINE m == n + 1
           x == w[m]
           a == SubSeq(w, 1, n)
           b == SubSeq(w, 1, m)
<1>1. n \in 0..Len(w) /\ m \in 0..Len(w) /\ m \in 1..Len(w) /\ m \in Nat /\ x \in Nat
  OBVIOUS
<1>a. m = n + 1
  OBVIOUS
<1> HIDE DEF m
<1>2. a \in Seq(Nat) /\ Len(a) = n /\ Begins(a, w)
  BY <1>1, BeginsCut
<1>3. b \in Seq(Nat) /\ Len(b) = m /\ Begins(b, w)
  BY <1>1, BeginsCut
<1> HIDE DEF a, b, x
<1>4. Append(a, x) \in Seq(Nat) /\ Len(Append(a, x)) = m
  BY <1>a, <1>1, <1>2
<1>5. ASSUME NEW k \in 1..m PROVE b[k] = Append(a, x)[k]
  <2>1. b[k] = w[k]
    BY <1>3 DEF Begins
  <2>2. CASE k = m
    <3>1. Append(a, x)[Len(a) + 1] = x
      BY <1>1, <1>2, AppendProperties
    <3>2. Append(a, x)[m] = w[m]
      BY <1>a, <1>2, <3>1 DEF x
    <3> QED BY <2>1, <2>2, <3>2
  <2>3. CASE k # m
    <3>1. k \in 1..Len(a)
      BY <1>a, <1>1, <1>2, <2>3
    <3>2. Append(a, x)[k] = a[k] /\ a[k] = w[k]
      BY <1>1, <1>2, <3>1, AppendProperties DEF Begins
    <3> QED BY <2>1, <3>2
  <2> QED BY <2>2, <2>3
<1>6. b = Append(a, x)
  BY <1>3, <1>4, <1>5, SeqEqual
<1>7. Laid(Append(a, x)) = Laid(a) \o Record(Len(a) + 1, x)
  BY <1>1, <1>2, LaidAppend
<1>8. Record(m, x) \in Seq(Unit) /\ Len(Record(m, x)) = 2 + x
  BY <1>1, RecordOK
<1> QED BY <1>a, <1>1, <1>2, <1>6, <1>7, <1>8 DEF Upto, a, b, x

LEMMA UptoBegins ==
  ASSUME NEW w \in Seq(Nat), NEW m \in Nat, NEW n \in Nat, m <= n, n <= Len(w)
  PROVE  Begins(Upto(w, m), Upto(w, n)) /\ (m < n => Len(Upto(w, m)) + 2 <= Len(Upto(w, n)))
<1> DEFINE L == Len(w)
<1>0. L \in Nat
  OBVIOUS
<1>1. \A j \in 0..L : Upto(w, j) \in Seq(Unit)
  BY UptoOK
<1>2. ASSUME NEW j \in Nat, j + 1 <= L
      PROVE  Begins(Upto(w, j), Upto(w, j + 1)) /\ Len(Upto(w, j)) + 2 <= Len(Upto(w, j + 1))
  <2> DEFINE r == Record(j + 1, w[j + 1])
             u == Upto(w, j)
  <2>1. r \in Seq(Unit) /\ Len(r) = 2 + w[j + 1] /\ w[j + 1] \in Nat /\ Upto(w, j + 1) = u \o r
    BY <1>2, UptoNext
  <2>2. u \in Seq(Unit)
    BY <1>0, <1>1, <1>2
  <2> HIDE DEF r, u
  <2>3. Begins(u, u \o r)
    BY <2>1, <2>2, BeginsConcat
  <2>a. r \in Seq(Unit) /\ Len(u) \in Nat
    BY <2>1, <2>2
  <2>4. Len(u \o r) = Len(u) + Len(r)
    BY <2>2, <2>a, ConcatProperties
  <2>5. Len(u) + 2 <= Len(u \o r)
    BY <2>1, <2>a, <2>4
  <2> QED BY <2>1, <2>3, <2>5 DEF u
<1> HIDE DEF L
<1> DEFINE T == {j \in Nat : m + j <= L =>
                   /\ Begins(Upto(w, m), Upto(w, m + j))
                   /\ j > 0 => Len(Upto(w, m)) + 2 <= Len(Upto(w, m + j))}
<1>3. 0 \in T
  <2>1. m + 0 = m /\ m \in 0..L /\ m <= L
    BY <1>0 DEF L
  <2>2. Upto(w, m) \in Seq(Unit)
    BY <1>1, <2>1
  <2>3. Begins(Upto(w, m), Upto(w, m))
    BY <2>2, BeginsItself
  <2> QED BY <2>1, <2>3
<1>4. ASSUME NEW j \in T PROVE j + 1 \in T
  <2> SUFFICES ASSUME m + (j + 1) <= L
               PROVE  /\ Begins(Upto(w, m), Upto(w, m + (j + 1)))
                      /\ Len(Upto(w, m)) + 2 <= Len(Upto(w, m + (j + 1)))
    OBVIOUS
  <2>0. j \in Nat
    BY <1>4
  <2>1. PICK i \in Nat : i = m + j
    BY <2>0
  <2>2. m + (j + 1) = i + 1 /\ i + 1 <= L /\ i <= L /\ m <= L
    BY <1>0, <2>0, <2>1
  <2>3. /\ Begins(Upto(w, m), Upto(w, i))
        /\ Begins(Upto(w, i), Upto(w, i + 1)) /\ Len(Upto(w, i)) + 2 <= Len(Upto(w, i + 1))
    BY <1>2, <1>4, <2>1, <2>2
  <2>4. Upto(w, m) \in Seq(Unit) /\ Upto(w, i) \in Seq(Unit) /\ Upto(w, i + 1) \in Seq(Unit)
    BY <1>0, <1>1, <2>2
  <2>5. Begins(Upto(w, m), Upto(w, i + 1))
    <3> DEFINE a == Upto(w, m)
               b == Upto(w, i)
               c == Upto(w, i + 1)
    <3>1. a \in Seq(Unit) /\ b \in Seq(Unit) /\ c \in Seq(Unit) /\ Begins(a, b) /\ Begins(b, c)
      BY <2>3, <2>4
    <3> HIDE DEF a, b, c
    <3>2. Begins(a, c)
      BY <3>1, BeginsFurther
    <3> QED BY <3>2 DEF a, c
  <2>6. /\ Len(Upto(w, m)) <= Len(Upto(w, i)) /\ Len(Upto(w, m)) \in Nat
        /\ Len(Upto(w, i)) \in Nat /\ Len(Upto(w, i + 1)) \in Nat
    BY <2>3, <2>4 DEF Begins
  <2>7. Len(Upto(w, m)) + 2 <= Len(Upto(w, i + 1))
    BY <2>3, <2>6
  <2> QED BY <2>2, <2>5, <2>7
<1>5. T \in SUBSET Nat
  OBVIOUS
<1> HIDE DEF T
<1>6. T = Nat
  BY <1>3, <1>4, <1>5, SetInduction
<1>7. n - m \in T /\ m + (n - m) = n /\ (m < n => n - m > 0)
  BY <1>6
<1> QED BY <1>7 DEF T, L

LEMMA UptoKept ==
  ASSUME NEW w \in Seq(Nat), NEW v \in Seq(Nat), NEW n \in 0..Len(w)
  PROVE  Upto(w \o v, n) = Upto(w, n)
<1> DEFINE u == w \o v
           a == SubSeq(u, 1, n)
           b == SubSeq(w, 1, n)
<1>1. u \in Seq(Nat) /\ Len(u) = Len(w) + Len(v) /\ Len(v) \in Nat /\ Len(w) \in Nat
  BY ConcatProperties
<1>2. Begins(w, u)
  BY BeginsConcat
<1> HIDE DEF u
<1>3. n \in 0..Len(u)
  BY <1>1
<1>4. a \in Seq(Nat) /\ Len(a) = n /\ Begins(a, u)
  BY <1>1, <1>3, BeginsCut
<1>5. b \in Seq(Nat) /\ Len(b) = n /\ Begins(b, w)
  BY BeginsCut
<1> HIDE DEF a, b
<1>6. ASSUME NEW k \in 1..n PROVE a[k] = b[k]
  <2>1. k \in 1..Len(w)
    BY <1>1
  <2> QED BY <1>2, <1>4, <1>5, <2>1 DEF Begins
<1>7. a = b
  BY <1>4, <1>5, <1>6, SeqEqual
<1> QED BY <1>7 DEF Upto, a, b, u
-----------------------------------------------------------------------------
(* STDIO. *)

LEMMA SplitOff ==
  ASSUME NEW U, NEW s \in Seq(U), NEW k \in 0..Len(s), NEW j \in k..Len(s)
  PROVE  SubSeq(s, k + 1, j) \in Seq(U)
<1>1. k + 1 \in Int /\ j \in Int /\ \A i \in (k + 1)..j : s[i] \in U
  OBVIOUS
<1> QED BY <1>1, SubSeqProperties

LEMMA SplitJoin ==
  ASSUME NEW U, NEW s \in Seq(U), NEW k \in 0..Len(s)
  PROVE  SubSeq(s, 1, k) \o SubSeq(s, k + 1, Len(s)) = s
<1>1. Len(s) \in Nat /\ 1 \in 1..Len(s) + 1 /\ k \in 1 - 1..Len(s) /\ Len(s) \in k..Len(s)
  OBVIOUS
<1> DEFINE n == Len(s)
<1>2. n \in k..Len(s) /\ n = Len(s)
  BY <1>1
<1> HIDE DEF n
<1>3. SubSeq(s, 1, k) \o SubSeq(s, k + 1, n) = SubSeq(s, 1, n)
  BY <1>1, <1>2, ConcatAdjacentSubSeq
<1> QED BY <1>2, <1>3, SubSeqFull

LEMMA Fwrite ==
  ASSUME disk \in Seq(Unit), buf \in Seq(Unit), NEW units \in Seq(Unit), File!fwrite(units)
  PROVE  /\ disk' \in Seq(Unit) /\ buf' \in Seq(Unit) /\ Begins(disk, disk')
         /\ disk' \o buf' = (disk \o buf) \o units
<1> DEFINE s == buf \o units
<1>1. s \in Seq(Unit)
  BY ConcatProperties
<1>2. PICK k \in 0..Len(s) : disk' = disk \o SubSeq(s, 1, k) /\ buf' = SubSeq(s, k + 1, Len(s))
  BY DEF File!fwrite
<1> DEFINE a == SubSeq(s, 1, k)
           b == SubSeq(s, k + 1, Len(s))
<1> HIDE DEF s
<1>3. a \in Seq(Unit)
  BY <1>1, BeginsCut
<1>4. b \in Seq(Unit)
  <2>1. Len(s) \in k..Len(s)
    BY <1>1
  <2> QED BY <1>1, <2>1, SplitOff
<1>5. a \o b = s
  BY <1>1, SplitJoin
<1> HIDE DEF a, b
<1>6. disk' = disk \o a /\ buf' = b
  BY <1>2 DEF a, b
<1>7. disk \o a \in Seq(Unit) /\ Begins(disk, disk \o a)
  BY <1>3, ConcatProperties, BeginsConcat
<1>8. (disk \o a) \o b = disk \o s
  <2>1. (disk \o a) \o b = disk \o (a \o b)
    <3>1. Joined(disk, a, b)
      BY <1>3, <1>4, UnitsJoin
    <3> QED BY <3>1 DEF Joined
  <2> QED BY <1>5, <2>1
<1>9. (disk \o buf) \o units = disk \o s
  BY UnitsJoin DEF s, Joined
<1> QED BY <1>4, <1>6, <1>7, <1>8, <1>9

LEMMA Short ==
  ASSUME disk \in Seq(Unit), buf \in Seq(Unit), NEW units \in Seq(Unit), File!WriteFails(units)
  PROVE  /\ disk' \in Seq(Unit) /\ buf' \in Seq(Unit) /\ Begins(disk, disk')
         /\ Begins(disk', (disk \o buf) \o units)
<1> DEFINE s == buf \o units
<1>1. s \in Seq(Unit) /\ Len(s) \in Nat
  BY ConcatProperties
<1>2. PICK k \in 0..(Len(s) - 1) : \E j \in k..Len(s) :
             disk' = disk \o SubSeq(s, 1, k) /\ buf' = SubSeq(s, k + 1, j)
  BY DEF File!WriteFails
<1>3. PICK j \in k..Len(s) : disk' = disk \o SubSeq(s, 1, k) /\ buf' = SubSeq(s, k + 1, j)
  BY <1>2
<1>a. k \in 0..Len(s) /\ Len(s) \in k..Len(s)
  BY <1>1
<1> DEFINE a == SubSeq(s, 1, k)
           b == SubSeq(s, k + 1, j)
           c == SubSeq(s, k + 1, Len(s))
<1>9. (disk \o buf) \o units = disk \o s
  <2>1. Joined(disk, buf, units)
    BY UnitsJoin
  <2> QED BY <2>1 DEF Joined
<1> HIDE DEF s
<1>4. a \in Seq(Unit)
  BY <1>1, <1>a, BeginsCut
<1>5. b \in Seq(Unit) /\ c \in Seq(Unit)
  BY <1>1, <1>a, SplitOff
<1>6. a \o c = s
  BY <1>1, <1>a, SplitJoin
<1> HIDE DEF a, b, c
<1>7. disk' = disk \o a /\ buf' = b
  BY <1>3 DEF a, b
<1> DEFINE d == disk \o a
<1>8. d \in Seq(Unit) /\ Begins(disk, d)
  BY <1>4, ConcatProperties, BeginsConcat
<1>10. d \o c = disk \o s
  <2>1. c \in Seq(Unit)
    BY <1>5
  <2>2. (disk \o a) \o c = disk \o (a \o c)
    <3>1. Joined(disk, a, c)
      BY <1>4, <2>1, UnitsJoin
    <3> QED BY <3>1 DEF Joined
  <2> QED BY <1>6, <2>2
<1> HIDE DEF d
<1>11. Begins(d, d \o c)
  BY <1>5, <1>8, BeginsConcat
<1> QED BY <1>5, <1>7, <1>8, <1>9, <1>10, <1>11 DEF d
-----------------------------------------------------------------------------
(* THE RECORDER. *)

RecorderTypes ==
  /\ given \in Seq(Nat) /\ accepted \in 0..Len(given) /\ chunks \in Nat
  /\ disk \in Seq(Unit) /\ buf \in Seq(Unit) /\ batch \in Seq(Chunks)
  /\ first_error \in BOOLEAN /\ said \in BOOLEAN
  /\ recording \in {"recording", "closed", "killed"}
  /\ writing \in {"host", "head", "payload", "flush"}
  /\ recording # "recording" => writing = "host"
  /\ writing \in {"head", "payload"} <=> batch # <<>>

(* The record that is being written, as far as it is. *)
Begun == IF writing = "payload" THEN File!HeadUnits(batch[1]) ELSE <<>>

(* As long as nothing failed, the file and what stdio holds are the        *)
(* records written so far, and the rest is in the batch.                   *)
WriterInStep ==
  recording = "recording" /\ ~first_error =>
    /\ chunks + Len(batch) = Len(given)
    /\ \A k \in 1..Len(batch) : batch[k] = ChunkAt(chunks + k)
    /\ disk \o buf = Upto(given, chunks) \o Begun

(* What was accepted was flushed, and stays. *)
AcceptedKept == accepted > 0 => Begins(Upto(given, accepted), disk)

(* A file whose writer met no error is cut, not torn. *)
CutNotTorn == recording # "recording" /\ ~first_error => Begins(disk, Laid(given))

(* What close() reported, and what the user of the host was told. *)
Reported ==
  /\ outcome = "OK" => ~first_error /\ disk = Laid(given) /\ chunks = Len(given)
  /\ recording = "closed" => outcome \in {"OK", "error"}
  /\ recording # "closed" => outcome = "none"
  /\ writing = "host" /\ recording = "recording" /\ ~said => accepted = Len(given)

WriterStep ==
  \/ File!OpenFails \/ \E lengths \in File!Batches : File!Write(lengths)
  \/ File!WriteHead \/ File!WriteHeadFails \/ File!WritePayload \/ File!WritePayloadFails
  \/ File!Flush \/ File!FlushFails \/ File!Close \/ File!Killed

LEMMA BatchUnits ==
  ASSUME RecorderTypes, writing \in {"head", "payload"}
  PROVE  /\ Len(batch) \in Nat /\ Len(batch) >= 1 /\ batch[1] \in Chunks
         /\ File!HeadUnits(batch[1]) \in Seq(Unit) /\ File!PayloadUnits(batch[1]) \in Seq(Unit)
<1>1. batch \in Seq(Chunks) /\ batch # <<>>
  BY DEF RecorderTypes
<1>2. Len(batch) \in Nat /\ Len(batch) >= 1 /\ batch[1] \in Chunks
  BY <1>1
<1> QED BY <1>2, UnitsOK

LEMMA Lengths ==
  ASSUME NEW lengths \in File!Batches
  PROVE  lengths \in Seq(Nat) /\ Len(lengths) \in Nat /\ Len(lengths) >= 1 /\ lengths # <<>>
         /\ DOMAIN lengths = 1..Len(lengths)
<1>0. FileChunkMax \in Nat /\ BatchMax \in Nat
  BY FileAssumption
<1>1. PICK n \in 1..BatchMax : lengths \in [1..n -> 0..(FileChunkMax + 1)]
  BY DEF File!Batches
<1>2. n \in Nat /\ n >= 1 /\ lengths \in [1..n -> Nat]
  BY <1>0, <1>1
<1>3. lengths \in Seq(Nat) /\ Len(lengths) = n
  BY <1>2, FunIsSeq
<1> QED BY <1>2, <1>3

(* What a batch holds of lengths that have just been handed over. *)
LEMMA NewBatch ==
  ASSUME given \in Seq(Nat), NEW lengths \in Seq(Nat), NEW b,
         b = [k \in DOMAIN lengths |-> File!Chunk(Len(given) + k, lengths[k])]
  PROVE  /\ b \in Seq(Chunks) /\ Len(b) = Len(lengths)
         /\ \A k \in 1..Len(lengths) :
              b[k] = File!Chunk(Len(given) + k, (given \o lengths)[Len(given) + k])
<1>1. /\ DOMAIN lengths = 1..Len(lengths) /\ Len(lengths) \in Nat /\ Len(given) \in Nat
      /\ \A k \in 1..Len(lengths) : lengths[k] \in Nat
  OBVIOUS
<1>2. \A k \in 1..Len(lengths) : File!Chunk(Len(given) + k, lengths[k]) \in Chunks
  BY <1>1, ChunkOK
<1>3. b \in [1..Len(lengths) -> Chunks]
  BY <1>1, <1>2
<1>4. b \in Seq(Chunks) /\ Len(b) = Len(lengths)
  BY <1>1, <1>3, FunIsSeq
<1>5. ASSUME NEW k \in 1..Len(lengths)
      PROVE  b[k] = File!Chunk(Len(given) + k, (given \o lengths)[Len(given) + k])
  <2>1. (given \o lengths)[Len(given) + k] = lengths[k]
    <3>1. Len(given) + k \in 1..Len(given) + Len(lengths) /\ ~(Len(given) + k <= Len(given))
          /\ (Len(given) + k) - Len(given) = k
      BY <1>1
    <3>2. \A i \in 1..Len(given) + Len(lengths) :
            (given \o lengths)[i] = IF i <= Len(given) THEN given[i] ELSE lengths[i - Len(given)]
      BY ConcatProperties
    <3> QED BY <3>1, <3>2
  <2> QED BY <1>1, <2>1
<1> QED BY <1>4, <1>5

(* What every step of the writer does to the file. *)
LEMMA Grows ==
  ASSUME RecorderTypes, WriterStep
  PROVE  disk' \in Seq(Unit) /\ buf' \in Seq(Unit) /\ Begins(disk, disk')
<1>0. disk \in Seq(Unit) /\ buf \in Seq(Unit) /\ <<>> \in Seq(Unit)
  BY DEF RecorderTypes
<1>a. disk \o buf \in Seq(Unit) /\ Begins(disk, disk \o buf) /\ Begins(disk, disk)
  BY <1>0, ConcatProperties, BeginsConcat, BeginsItself
<1>1. CASE File!OpenFails
  BY <1>0, <1>1, Short DEF File!OpenFails
<1>2. CASE \E lengths \in File!Batches : File!Write(lengths)
  BY <1>0, <1>a, <1>2 DEF File!Write, File!fileVars
<1>3. CASE File!WriteHead
  <2>1. writing = "head" /\ File!fwrite(File!HeadUnits(batch[1]))
    BY <1>3 DEF File!WriteHead
  <2> QED BY <1>0, <2>1, BatchUnits, Fwrite
<1>4. CASE File!WriteHeadFails
  <2>1. writing = "head" /\ File!WriteFails(File!HeadUnits(batch[1]))
    BY <1>4 DEF File!WriteHeadFails
  <2> QED BY <1>0, <2>1, BatchUnits, Short
<1>5. CASE File!WritePayload
  <2>1. writing = "payload" /\ File!fwrite(File!PayloadUnits(batch[1]))
    BY <1>5 DEF File!WritePayload
  <2> QED BY <1>0, <2>1, BatchUnits, Fwrite
<1>6. CASE File!WritePayloadFails
  <2>1. writing = "payload" /\ File!WriteFails(File!PayloadUnits(batch[1]))
    BY <1>6 DEF File!WritePayloadFails
  <2> QED BY <1>0, <2>1, BatchUnits, Short
<1>7. CASE File!Flush
  BY <1>0, <1>a, <1>7 DEF File!Flush
<1>8. CASE File!FlushFails
  BY <1>0, <1>8, Short DEF File!FlushFails
<1>9. CASE File!Close
  <2>1. CASE disk' = disk \o buf /\ buf' = <<>>
    BY <1>0, <1>a, <2>1
  <2>2. CASE File!WriteFails(<<>>)
    BY <1>0, <2>2, Short
  <2> QED BY <1>9, <2>1, <2>2 DEF File!Close
<1>10. CASE File!Killed
  BY <1>0, <1>a, <1>10 DEF File!Killed
<1> QED BY <1>1, <1>2, <1>3, <1>4, <1>5, <1>6, <1>7, <1>8, <1>9, <1>10 DEF WriterStep

LEMMA TypesKept == ASSUME RecorderTypes, WriterStep PROVE RecorderTypes'
<1>0. disk' \in Seq(Unit) /\ buf' \in Seq(Unit)
  BY Grows
<1>e. <<>> \in Seq(Chunks)
  OBVIOUS
<1>1. CASE File!OpenFails
  BY <1>0, <1>1 DEF File!OpenFails, RecorderTypes
<1>2. ASSUME NEW lengths \in File!Batches, File!Write(lengths) PROVE RecorderTypes'
  <2>1. CASE \E k \in DOMAIN lengths : lengths[k] > FileChunkMax
    <3>1. /\ said' = TRUE
          /\ UNCHANGED <<writing, batch, given, recording, first_error, chunks, accepted>>
      BY <1>2, <2>1 DEF File!Write
    <3> QED BY <1>0, <3>1 DEF RecorderTypes
  <2>2. CASE ~(\E k \in DOMAIN lengths : lengths[k] > FileChunkMax)
    <3>1. /\ writing' = "head" /\ given' = given \o lengths /\ recording = "recording"
          /\ batch' = [k \in DOMAIN lengths |-> File!Chunk(Len(given) + k, lengths[k])]
          /\ UNCHANGED <<recording, first_error, chunks, accepted, said>>
      BY <1>2, <2>2 DEF File!Write
    <3>2. lengths \in Seq(Nat) /\ Len(lengths) \in Nat /\ Len(lengths) >= 1
      BY Lengths
    <3>3. given \in Seq(Nat) /\ accepted \in 0..Len(given) /\ Len(given) \in Nat
      BY DEF RecorderTypes
    <3>4. batch' \in Seq(Chunks) /\ Len(batch') = Len(lengths)
      BY <3>1, <3>2, <3>3, NewBatch
    <3>5. batch' # <<>>
      BY <3>2, <3>4
    <3>6. given' \in Seq(Nat) /\ Len(given') = Len(given) + Len(lengths)
      BY <3>1, <3>2, <3>3, ConcatProperties
    <3>7. accepted' \in 0..Len(given')
      BY <3>1, <3>2, <3>3, <3>6
    <3> QED BY <1>0, <3>1, <3>4, <3>5, <3>6, <3>7 DEF RecorderTypes
  <2> QED BY <2>1, <2>2
<1>3. CASE File!WriteHead
  BY <1>0, <1>3 DEF File!WriteHead, RecorderTypes
<1>4. ASSUME File!Torn PROVE RecorderTypes'
  BY <1>0, <1>4, <1>e DEF File!Torn, RecorderTypes
<1>5. CASE File!WritePayload
  <2>1. /\ writing = "payload" /\ batch' = Tail(batch) /\ chunks' = chunks + 1
        /\ writing' = IF Len(batch) = 1 THEN "flush" ELSE "head"
        /\ UNCHANGED <<recording, first_error, said, given, accepted>>
    BY <1>5 DEF File!WritePayload
  <2>2. batch \in Seq(Chunks) /\ batch # <<>> /\ Len(batch) \in Nat /\ recording = "recording"
    BY <1>5, <2>1 DEF RecorderTypes, File!WritePayload
  <2>3. Tail(batch) \in Seq(Chunks) /\ Len(Tail(batch)) = Len(batch) - 1
    BY <2>2, HeadTailProperties
  <2>4. Tail(batch) = <<>> <=> Len(batch) = 1
    <3> DEFINE t == Tail(batch)
    <3>1. t \in Seq(Chunks) /\ Len(t) = Len(batch) - 1
      BY <2>3
    <3> HIDE DEF t
    <3>2. t = <<>> <=> Len(t) = 0
      BY <3>1, EmptySeq
    <3> QED BY <2>2, <3>1, <3>2 DEF t
  <2> QED BY <1>0, <2>1, <2>2, <2>3, <2>4, SMTT(30) DEF RecorderTypes
<1>7. ASSUME NEW failed \in BOOLEAN, writing = "flush", File!Returned(failed) PROVE RecorderTypes'
  <2>1. Len(given) \in 0..Len(given)
    BY DEF RecorderTypes
  <2>2. accepted' \in 0..Len(given) /\ given' = given
    BY <1>7, <2>1 DEF File!Returned, RecorderTypes
  <2> QED BY <1>0, <1>7, <2>2 DEF File!Returned, RecorderTypes
<1>8. CASE File!Flush \/ File!FlushFails
  <2>1. first_error \in BOOLEAN
    BY DEF RecorderTypes
  <2> QED BY <1>7, <1>8, <2>1 DEF File!Flush, File!FlushFails
<1>9. CASE File!Close
  BY <1>0, <1>9 DEF File!Close, RecorderTypes
<1>10. CASE File!Killed
  BY <1>0, <1>10, <1>e DEF File!Killed, RecorderTypes
<1> QED BY <1>1, <1>2, <1>3, <1>4, <1>5, <1>8, <1>9, <1>10
        DEF WriterStep, File!WriteHeadFails, File!WritePayloadFails

(* A step that fails, or after which nobody records, leaves nothing of     *)
(* being in step.                                                          *)
LEMMA InStepKept == ASSUME RecorderTypes, WriterInStep, WriterStep PROVE WriterInStep'
<1> SUFFICES ASSUME recording' = "recording", ~first_error'
             PROVE  /\ (chunks + Len(batch) = Len(given))'
                    /\ (\A k \in 1..Len(batch) : batch[k] = ChunkAt(chunks + k))'
                    /\ (disk \o buf = Upto(given, chunks) \o Begun)'
  BY DEF WriterInStep
<1>t. /\ given \in Seq(Nat) /\ Len(given) \in Nat /\ chunks \in Nat /\ disk \in Seq(Unit)
      /\ buf \in Seq(Unit) /\ batch \in Seq(Chunks) /\ Len(batch) \in Nat
      /\ (writing \in {"head", "payload"} <=> batch # <<>>)
  BY DEF RecorderTypes
<1>r. recording = "recording"
  BY DEF WriterStep, File!OpenFails, File!Write, File!WriteHead, File!WriteHeadFails,
         File!WritePayload, File!WritePayloadFails, File!Flush, File!FlushFails, File!Close,
         File!Killed
<1>i. ASSUME ~first_error
      PROVE  /\ chunks + Len(batch) = Len(given)
             /\ \A k \in 1..Len(batch) : batch[k] = ChunkAt(chunks + k)
             /\ disk \o buf = Upto(given, chunks) \o Begun
             /\ chunks \in 0..Len(given) /\ Upto(given, chunks) \in Seq(Unit)
  <2>1. chunks + Len(batch) = Len(given)
    BY <1>r, <1>i DEF WriterInStep
  <2>2. chunks \in 0..Len(given)
    BY <1>t, <2>1
  <2>3. Upto(given, chunks) \in Seq(Unit)
    BY <1>t, <2>2, UptoOK
  <2> QED BY <1>r, <1>i, <2>1, <2>2, <2>3 DEF WriterInStep
<1>2. ASSUME NEW lengths \in File!Batches, File!Write(lengths)
      PROVE  /\ (chunks + Len(batch) = Len(given))'
             /\ (\A k \in 1..Len(batch) : batch[k] = ChunkAt(chunks + k))'
             /\ (disk \o buf = Upto(given, chunks) \o Begun)'
  <2>0. ~first_error /\ UNCHANGED <<disk, buf, chunks>> /\ writing = "host"
    BY <1>2 DEF File!Write, File!fileVars
  <2>1. CASE \E k \in DOMAIN lengths : lengths[k] > FileChunkMax
    <3>1. UNCHANGED <<writing, batch, given>>
      BY <1>2, <2>1 DEF File!Write
    <3> QED BY <1>i, <2>0, <3>1 DEF ChunkAt, Upto, Begun
  <2>2. CASE ~(\E k \in DOMAIN lengths : lengths[k] > FileChunkMax)
    <3>1. /\ writing' = "head" /\ given' = given \o lengths
          /\ batch' = [k \in DOMAIN lengths |-> File!Chunk(Len(given) + k, lengths[k])]
      BY <1>2, <2>2 DEF File!Write
    <3>2. lengths \in Seq(Nat) /\ Len(lengths) \in Nat
      BY Lengths
    <3>3. batch = <<>> /\ Len(batch) = 0
      BY <1>t, <2>0
    <3>4. chunks = Len(given)
      BY <1>i, <1>t, <2>0, <3>3
    <3>5. /\ Len(batch') = Len(lengths)
          /\ \A k \in 1..Len(lengths) :
               batch'[k] = File!Chunk(Len(given) + k, (given \o lengths)[Len(given) + k])
      BY <1>t, <3>1, <3>2, NewBatch
    <3>6. Len(given') = Len(given) + Len(lengths)
      BY <1>t, <3>1, <3>2, ConcatProperties
    <3>7. Upto(given', chunks) = Upto(given, chunks)
      BY <1>i, <1>t, <2>0, <3>1, <3>2, UptoKept
    <3>8. Begun = <<>> /\ Begun' = <<>>
      BY <2>0, <3>1 DEF Begun
    <3>9. (disk \o buf = Upto(given, chunks) \o Begun)'
      BY <1>i, <2>0, <3>7, <3>8
    <3>10. (chunks + Len(batch) = Len(given))'
      BY <1>t, <2>0, <3>2, <3>4, <3>5, <3>6
    <3>11. (\A k \in 1..Len(batch) : batch[k] = ChunkAt(chunks + k))'
      BY <2>0, <3>1, <3>4, <3>5 DEF ChunkAt
    <3> QED BY <3>9, <3>10, <3>11
  <2> QED BY <2>1, <2>2
<1>3. CASE File!WriteHead
  <2>1. /\ writing = "head" /\ File!fwrite(File!HeadUnits(batch[1])) /\ writing' = "payload"
        /\ UNCHANGED <<batch, chunks, given>> /\ ~first_error
    BY <1>3 DEF File!WriteHead
  <2> DEFINE h == File!HeadUnits(batch[1])
  <2>2. h \in Seq(Unit)
    BY <2>1, BatchUnits
  <2>a. File!fwrite(h)
    BY <2>1
  <2> HIDE DEF h
  <2>3. disk' \o buf' = (disk \o buf) \o h
    BY <1>t, <2>a, <2>2, Fwrite
  <2>4. Begun = <<>> /\ Begun' = h
    BY <2>1 DEF Begun, h
  <2>5. disk \o buf = Upto(given, chunks)
    BY <1>i, <2>1, <2>4, ConcatEmptySeq
  <2>6. (disk \o buf = Upto(given, chunks) \o Begun)'
    BY <2>1, <2>3, <2>4, <2>5
  <2> QED BY <1>i, <2>1, <2>6 DEF ChunkAt
<1>5. CASE File!WritePayload
  <2>1. /\ writing = "payload" /\ File!fwrite(File!PayloadUnits(batch[1])) /\ batch' = Tail(batch)
        /\ chunks' = chunks + 1 /\ given' = given /\ ~first_error /\ writing' \in {"flush", "head"}
    BY <1>5 DEF File!WritePayload
  <2> DEFINE h == File!HeadUnits(batch[1])
             p == File!PayloadUnits(batch[1])
             u == Upto(given, chunks)
  <2>2. h \in Seq(Unit) /\ p \in Seq(Unit) /\ Len(batch) >= 1
    BY <2>1, BatchUnits
  <2>3. u \in Seq(Unit) /\ disk \o buf = u \o h
    BY <1>i, <2>1 DEF Begun
  <2>4. batch[1] = File!Chunk(chunks + 1, given[chunks + 1]) /\ chunks + 1 <= Len(given)
    <3>1. 1 \in 1..Len(batch)
      BY <1>t, <2>2
    <3> QED BY <1>i, <1>t, <2>1, <2>2, <3>1 DEF ChunkAt
  <2>5. h \o p = Record(chunks + 1, given[chunks + 1])
    BY <2>4 DEF Record
  <2>6. Upto(given, chunks + 1) = u \o Record(chunks + 1, given[chunks + 1])
    BY <1>t, <2>4, UptoNext
  <2>a. File!fwrite(p)
    BY <2>1
  <2> HIDE DEF h, p, u
  <2>7. disk' \o buf' = (disk \o buf) \o p
    BY <1>t, <2>a, <2>2, Fwrite
  <2>8. (u \o h) \o p = u \o (h \o p)
    <3>1. Joined(u, h, p)
      BY <2>2, <2>3, UnitsJoin
    <3> QED BY <3>1 DEF Joined
  <2>9. disk' \o buf' = Upto(given, chunks + 1)
    BY <2>3, <2>5, <2>6, <2>7, <2>8
  <2>b. Upto(given, chunks + 1) \in Seq(Unit)
    <3>1. chunks + 1 \in 0..Len(given)
      BY <1>t, <2>4
    <3> QED BY <1>t, <3>1, UptoOK
  <2>10. Begun' = <<>>
    BY <2>1 DEF Begun
  <2>11. (disk \o buf = Upto(given, chunks) \o Begun)'
    <3>1. Upto(given, chunks + 1) \o <<>> = Upto(given, chunks + 1)
      BY <2>b, ConcatEmptySeq
    <3> QED BY <2>1, <2>9, <2>10, <3>1
  <2>12. batch # <<>>
    BY <1>t, <2>1
  <2>13. /\ Len(Tail(batch)) = Len(batch) - 1
         /\ \A k \in 1..Len(Tail(batch)) : Tail(batch)[k] = batch[k + 1]
    BY <1>t, <2>12, HeadTailProperties
  <2>14. (chunks + Len(batch) = Len(given))'
    BY <1>i, <1>t, <2>1, <2>2, <2>13
  <2>15. ASSUME NEW k \in 1..Len(batch') PROVE batch'[k] = ChunkAt(chunks + 1 + k)
    <3>1. k + 1 \in 1..Len(batch) /\ chunks + (k + 1) = chunks + 1 + k
      BY <1>t, <2>1, <2>2, <2>13
    <3> QED BY <1>i, <2>1, <2>13, <3>1
  <2>16. (\A k \in 1..Len(batch) : batch[k] = ChunkAt(chunks + k))'
    BY <2>1, <2>15 DEF ChunkAt
  <2> QED BY <2>11, <2>14, <2>16
<1>7. CASE File!Flush
  <2>1. /\ writing = "flush" /\ writing' = "host" /\ ~first_error
        /\ UNCHANGED <<batch, chunks, given>> /\ disk' = disk \o buf /\ buf' = <<>>
    BY <1>7 DEF File!Flush, File!Returned
  <2>2. Begun = <<>> /\ Begun' = <<>>
    BY <2>1 DEF Begun
  <2>3. disk \o buf \in Seq(Unit)
    BY <1>t, ConcatProperties
  <2>4. (disk \o buf) \o <<>> = disk \o buf
    BY <2>3, ConcatEmptySeq
  <2>5. (disk \o buf = Upto(given, chunks) \o Begun)'
    BY <1>i, <2>1, <2>2, <2>4
  <2> QED BY <1>i, <2>1, <2>5 DEF ChunkAt
<1> QED BY <1>2, <1>3, <1>5, <1>7
        DEF WriterStep, File!OpenFails, File!WriteHeadFails, File!WritePayloadFails, File!Torn,
            File!FlushFails, File!Returned, File!Close, File!Killed

LEMMA AcceptedStays ==
  ASSUME RecorderTypes, WriterInStep, AcceptedKept, WriterStep PROVE AcceptedKept'
<1>t. /\ given \in Seq(Nat) /\ Len(given) \in Nat /\ accepted \in 0..Len(given) /\ chunks \in Nat
      /\ disk \in Seq(Unit) /\ buf \in Seq(Unit) /\ batch \in Seq(Chunks)
      /\ (writing \in {"head", "payload"} <=> batch # <<>>)
  BY DEF RecorderTypes
<1>g. disk' \in Seq(Unit) /\ Begins(disk, disk')
  BY Grows
<1>1. ASSUME given' = given, accepted' = accepted PROVE AcceptedKept'
  <2> SUFFICES ASSUME accepted > 0 PROVE Begins(Upto(given, accepted), disk')
    BY <1>1 DEF AcceptedKept
  <2> DEFINE u == Upto(given, accepted)
  <2>1. u \in Seq(Unit) /\ Begins(u, disk)
    BY <1>t, UptoOK DEF AcceptedKept
  <2> HIDE DEF u
  <2>2. Begins(u, disk')
    BY <1>g, <1>t, <2>1, BeginsFurther
  <2> QED BY <2>2 DEF u
<1>2. ASSUME NEW lengths \in File!Batches, File!Write(lengths) PROVE AcceptedKept'
  <2>1. CASE \E k \in DOMAIN lengths : lengths[k] > FileChunkMax
    BY <1>1, <1>2, <2>1 DEF File!Write
  <2>2. CASE ~(\E k \in DOMAIN lengths : lengths[k] > FileChunkMax)
    <3>1. given' = given \o lengths /\ accepted' = accepted /\ disk' = disk
      BY <1>2, <2>2 DEF File!Write, File!fileVars
    <3>2. lengths \in Seq(Nat)
      BY Lengths
    <3>3. Upto(given', accepted') = Upto(given, accepted)
      BY <1>t, <3>1, <3>2, UptoKept
    <3> QED BY <3>1, <3>3 DEF AcceptedKept
  <2> QED BY <2>1, <2>2
<1>3. CASE File!Flush
  <2>1. CASE first_error
    BY <1>1, <1>3, <2>1 DEF File!Flush, File!Returned
  <2>2. CASE ~first_error
    <3>1. /\ writing = "flush" /\ recording = "recording" /\ disk' = disk \o buf
          /\ accepted' = Len(given) /\ given' = given
      BY <1>3, <2>2 DEF File!Flush, File!Returned
    <3>2. batch = <<>> /\ Len(batch) = 0
      BY <1>t, <3>1
    <3>3. chunks + Len(batch) = Len(given) /\ disk \o buf = Upto(given, chunks) \o Begun
      BY <2>2, <3>1 DEF WriterInStep
    <3>4. chunks = Len(given)
      BY <1>t, <3>2, <3>3
    <3>5. Begun = <<>>
      BY <3>1 DEF Begun
    <3> DEFINE u == Upto(given, Len(given))
    <3>6. u \in Seq(Unit)
      <4>1. Len(given) \in 0..Len(given)
        BY <1>t
      <4> QED BY <1>t, <4>1, UptoOK
    <3>7. disk' = u \o <<>>
      BY <3>1, <3>3, <3>4, <3>5
    <3> HIDE DEF u
    <3>8. disk' = u /\ Begins(u, u)
      BY <3>6, <3>7, ConcatEmptySeq, BeginsItself
    <3> QED BY <3>1, <3>8 DEF AcceptedKept, u
  <2> QED BY <2>1, <2>2
<1> QED BY <1>1, <1>2, <1>3
        DEF WriterStep, File!OpenFails, File!WriteHead, File!WritePayload, File!WriteHeadFails,
            File!WritePayloadFails, File!Torn, File!FlushFails, File!Returned, File!Close,
            File!Killed

(* A recorder in step is never ahead of what it was given. *)
LEMMA NotAhead ==
  ASSUME RecorderTypes, WriterInStep, recording = "recording", ~first_error
  PROVE  Begins(disk \o buf, Laid(given)) /\ (writing = "host" => disk \o buf = Laid(given)
                                                                  /\ chunks = Len(given))
<1>t. /\ given \in Seq(Nat) /\ Len(given) \in Nat /\ chunks \in Nat
      /\ batch \in Seq(Chunks) /\ Len(batch) \in Nat
      /\ (writing \in {"head", "payload"} <=> batch # <<>>)
  BY DEF RecorderTypes
<1>1. /\ chunks + Len(batch) = Len(given) /\ disk \o buf = Upto(given, chunks) \o Begun
      /\ \A k \in 1..Len(batch) : batch[k] = ChunkAt(chunks + k)
  BY DEF WriterInStep
<1>2. chunks \in 0..Len(given) /\ chunks <= Len(given) /\ Len(given) <= Len(given)
  BY <1>t, <1>1
<1> DEFINE u == Upto(given, chunks)
           w == Laid(given)
<1>3. u \in Seq(Unit)
  BY <1>t, <1>2, UptoOK
<1>4. w \in Seq(Unit) /\ Upto(given, Len(given)) = w
  BY <1>t, LaidOK, UptoAll
<1>5. Begins(u, w)
  <2>1. Begins(u, Upto(given, Len(given)))
    BY <1>t, <1>2, UptoBegins
  <2> QED BY <1>4, <2>1
<1>6. CASE writing # "payload"
  <2>1. Begun = <<>> /\ disk \o buf = u \o <<>>
    BY <1>1, <1>6 DEF Begun
  <2>2. u \o <<>> = u
    BY <1>3, ConcatEmptySeq
  <2>3. writing = "host" => u = w /\ chunks = Len(given)
    <3> SUFFICES ASSUME writing = "host" PROVE u = w /\ chunks = Len(given)
      OBVIOUS
    <3>1. Len(batch) = 0
      BY <1>t
    <3>2. chunks = Len(given)
      BY <1>1, <1>t, <3>1
    <3> QED BY <1>4, <3>2
  <2> QED BY <1>5, <2>1, <2>2, <2>3
<1>7. CASE writing = "payload"
  <2> DEFINE h == File!HeadUnits(batch[1])
             p == File!PayloadUnits(batch[1])
             v == Upto(given, chunks + 1)
  <2>1. h \in Seq(Unit) /\ p \in Seq(Unit) /\ Len(batch) >= 1
    BY <1>7, BatchUnits
  <2>2. batch[1] = File!Chunk(chunks + 1, given[chunks + 1]) /\ chunks + 1 <= Len(given)
    <3>1. 1 \in 1..Len(batch)
      BY <1>t, <2>1
    <3> QED BY <1>1, <1>t, <2>1, <3>1 DEF ChunkAt
  <2>3. v = u \o (h \o p)
    <3>1. h \o p = Record(chunks + 1, given[chunks + 1])
      BY <2>2 DEF Record
    <3> QED BY <1>t, <2>2, <3>1, UptoNext
  <2>4. Begins(v, w)
    <3>1. chunks + 1 \in Nat
      BY <1>t
    <3>2. Begins(v, Upto(given, Len(given)))
      BY <1>t, <1>2, <2>2, <3>1, UptoBegins
    <3> QED BY <1>4, <3>2
  <2>5. disk \o buf = u \o h
    BY <1>1, <1>7 DEF Begun
  <2> HIDE DEF h, p, u, v, w
  <2>6. u \o h \in Seq(Unit) /\ (u \o h) \o p = u \o (h \o p)
    BY <1>3, <2>1, ConcatProperties, UnitsJoin DEF Joined
  <2> DEFINE d == u \o h
  <2>7. d \in Seq(Unit) /\ d \o p = v
    BY <2>3, <2>6
  <2>8. disk \o buf = d
    BY <2>5
  <2> HIDE DEF d
  <2>9. Begins(d, v) /\ v \in Seq(Unit)
    BY <2>1, <2>7, BeginsConcat, ConcatProperties
  <2>10. Begins(d, w)
    BY <1>4, <2>4, <2>7, <2>9, BeginsFurther
  <2> QED BY <1>7, <2>8, <2>10 DEF w
<1> QED BY <1>6, <1>7

LEMMA CutKept == ASSUME RecorderTypes, WriterInStep, WriterStep PROVE CutNotTorn'
<1> SUFFICES ASSUME recording' # "recording", ~first_error' PROVE Begins(disk', Laid(given'))
  BY DEF CutNotTorn
<1>t. disk \in Seq(Unit) /\ buf \in Seq(Unit) /\ given \in Seq(Nat) /\ <<>> \in Seq(Unit)
  BY DEF RecorderTypes
<1>1. File!Close \/ File!Killed
  BY DEF WriterStep, File!OpenFails, File!Write, File!WriteHead, File!WriteHeadFails, File!Torn,
         File!WritePayload, File!WritePayloadFails, File!Flush, File!FlushFails, File!Returned
<1>2. recording = "recording" /\ ~first_error /\ given' = given
  BY <1>1 DEF File!Close, File!Killed
<1> DEFINE d == disk \o buf
           w == Laid(given)
<1>3. d \in Seq(Unit) /\ Begins(disk, d) /\ d \o <<>> = d
  BY <1>t, ConcatProperties, BeginsConcat, ConcatEmptySeq
<1>4. Begins(d, w)
  BY <1>2, NotAhead
<1>5. w \in Seq(Unit)
  BY <1>t, LaidOK
<1>6. disk' \in Seq(Unit)
  BY Grows
<1>7. Begins(disk', d)
  <2>0. Begins(d, d)
    BY <1>3, BeginsItself
  <2>1. CASE disk' = disk \/ disk' = d
    BY <1>3, <2>0, <2>1
  <2>2. CASE File!WriteFails(<<>>)
    <3>1. Begins(disk', d \o <<>>)
      BY <1>t, <2>2, Short
    <3> QED BY <1>3, <3>1
  <2> QED BY <1>1, <2>1, <2>2 DEF File!Close, File!Killed
<1> HIDE DEF d, w
<1>8. Begins(disk', w)
  BY <1>3, <1>4, <1>5, <1>6, <1>7, BeginsFurther
<1> QED BY <1>2, <1>8 DEF w

LEMMA ReportedKept ==
  ASSUME RecorderTypes, WriterInStep, Reported, WriterStep PROVE Reported'
<1>t. given \in Seq(Nat) /\ Len(given) \in Nat /\ accepted \in 0..Len(given)
      /\ recording = "recording" /\ outcome = "none"
  <2>1. recording = "recording"
    BY DEF WriterStep, File!OpenFails, File!Write, File!WriteHead, File!WriteHeadFails,
           File!WritePayload, File!WritePayloadFails, File!Flush, File!FlushFails, File!Close,
           File!Killed
  <2>2. outcome = "none"
    BY <2>1 DEF Reported
  <2> QED BY <2>1, <2>2 DEF RecorderTypes
<1>1. CASE File!OpenFails
  BY <1>1, <1>t DEF File!OpenFails, Reported
<1>2. ASSUME NEW lengths \in File!Batches, File!Write(lengths) PROVE Reported'
  <2>1. CASE \E k \in DOMAIN lengths : lengths[k] > FileChunkMax
    BY <1>2, <1>t, <2>1 DEF File!Write, Reported
  <2>2. CASE ~(\E k \in DOMAIN lengths : lengths[k] > FileChunkMax)
    <3>1. writing' = "head" /\ recording' = recording /\ outcome' = outcome
      BY <1>2, <2>2 DEF File!Write
    <3> QED BY <1>t, <3>1 DEF Reported
  <2> QED BY <2>1, <2>2
<1>3. CASE File!WriteHead \/ File!WritePayload
  <2>1. writing' # "host" /\ recording' = recording /\ outcome' = outcome
    BY <1>3 DEF File!WriteHead, File!WritePayload
  <2> QED BY <1>t, <2>1 DEF Reported
<1>4. CASE File!Torn
  BY <1>4, <1>t DEF File!Torn, Reported
<1>5. ASSUME NEW failed \in BOOLEAN, File!Returned(failed) PROVE Reported'
  BY <1>5, <1>t DEF File!Returned, Reported
<1>6. CASE File!Flush \/ File!FlushFails
  <2>1. first_error \in BOOLEAN
    BY DEF RecorderTypes
  <2> QED BY <1>5, <1>6, <2>1 DEF File!Flush, File!FlushFails
<1>7. CASE File!Close
  <2>1. /\ writing = "host" /\ recording' = "closed" /\ UNCHANGED <<chunks, given, first_error>>
        /\ \/ disk' = disk \o buf /\ outcome' = IF first_error THEN "error" ELSE "OK"
           \/ outcome' = "error"
    BY <1>7 DEF File!Close
  <2>2. ~first_error => disk \o buf = Laid(given) /\ chunks = Len(given)
    BY <1>t, <2>1, NotAhead
  <2> QED BY <2>1, <2>2 DEF Reported
<1>8. CASE File!Killed
  BY <1>8, <1>t DEF File!Killed, Reported
<1> QED BY <1>1, <1>2, <1>3, <1>4, <1>6, <1>7, <1>8
        DEF WriterStep, File!WriteHeadFails, File!WritePayloadFails
-----------------------------------------------------------------------------
(* THE READER. *)

Statuses == {"unopened", "OK", "PENDING", "MALFORMED", "BUFFER_TOO_SMALL", "NOT_SUPPORTED"}

ReaderTypes == reader \in [at : Nat, got : Seq(Chunks), status : Statuses]

(* The first n chunks that were read are the first n that were given. *)
ReadBack(n) ==
  n <= Len(given) /\ n <= Len(reader.got) /\ \A k \in 1..n : reader.got[k] = ChunkAt(k)

(* The reader has read n records and stands behind them. *)
Behind(n) ==
  /\ n = Len(reader.got) /\ ReadBack(n)
  /\ reader.at = Len(Upto(given, n)) /\ Begins(Upto(given, n), disk)

(* Of a file of which the writer met no error. *)
ReadsTrue ==
  LET n == Len(reader.got)
  IN  \/ reader.status = "OK" /\ Behind(n)
      \/ reader.status = "PENDING" /\ Behind(n) /\ disk = Upto(given, n)
      \/ reader.status = "BUFFER_TOO_SMALL" /\ Behind(n) /\ outcome # "OK"
      \/ reader.status \in {"MALFORMED", "NOT_SUPPORTED"} /\ n = 0 /\ accepted = 0 /\ outcome # "OK"

ReaderInStep ==
  /\ reader.status = "unopened" => reader.at = 0 /\ reader.got = <<>>
  /\ recording = "recording" => reader.status = "unopened"
  /\ accepted > 0 /\ reader.status # "unopened" =>
       \/ reader.status = "OK" /\ Len(reader.got) < accepted /\ Behind(Len(reader.got))
       \/ ReadBack(accepted)
  /\ ~first_error /\ reader.status # "unopened" => ReadsTrue

LEMMA GotFields ==
  ASSUME ReaderTypes, NEW c \in Chunks, NEW x \in Nat, File!Got(c, x)
  PROVE  /\ ReaderTypes' /\ reader'.got = Append(reader.got, c)
         /\ reader'.at = reader.at + 2 + x /\ reader'.status = reader.status
<1>1. reader.at \in Nat /\ reader.got \in Seq(Chunks) /\ reader.status \in Statuses
  BY DEF ReaderTypes
<1>2. /\ reader' = [reader EXCEPT !.got = Append(reader.got, c), !.at = reader.at + 2 + x]
  BY DEF File!Got, File!HeadLen
<1>3. Append(reader.got, c) \in Seq(Chunks) /\ reader.at + 2 + x \in Nat
  BY <1>1
<1> QED BY <1>2, <1>3 DEF ReaderTypes

LEMMA EndsFields ==
  ASSUME ReaderTypes, NEW s \in Statuses, File!Ends(s)
  PROVE  /\ ReaderTypes' /\ reader'.got = reader.got
         /\ reader'.at = reader.at /\ reader'.status = s
BY DEF ReaderTypes, File!Ends

LEMMA RestOK ==
  ASSUME disk \in Seq(Unit), ReaderTypes
  PROVE  File!Rest \in Seq(Unit) /\ Len(File!Rest) \in Nat
<1> DEFINE m == reader.at + 1
           n == Len(disk)
<1>1. m \in Int /\ n \in Int /\ m >= 1 /\ n = Len(disk)
  BY DEF ReaderTypes
<1>2. \A i \in m..n : disk[i] \in Unit
  BY <1>1
<1>3. SubSeq(disk, m, n) \in Seq(Unit)
  <2> HIDE DEF m, n
  <2> QED BY <1>1, <1>2, SubSeqProperties
<1>4. Len(SubSeq(disk, m, n)) \in Nat
  BY <1>3
<1> QED BY <1>3, <1>4 DEF File!Rest

(* A reader in front of the two units of a record header. *)
LEMMA HeadSeen ==
  ASSUME NEW c \in Chunks, File!Rest \in Seq(Unit), Begins(File!HeadUnits(c), File!Rest)
  PROVE  File!InStep /\ File!Rest[1].of = c /\ Len(File!Rest) >= 2 /\ File!Rest # <<>>
<1> DEFINE h == File!HeadUnits(c)
           r == File!Rest
<1>1. h \in Seq(Unit) /\ Len(h) = 2 /\ h[1].of = c
  BY UnitsOK
<1>2. r \in Seq(Unit) /\ Begins(h, r)
  OBVIOUS
<1> HIDE DEF h, r
<1>3. Len(r) >= 2 /\ r[1] = h[1]
  BY <1>1, <1>2 DEF Begins
<1>4. SubSeq(r, 1, Len(h)) = h
  BY <1>1, <1>2, BeginsAt
<1>5. r # <<>>
  BY <1>3
<1> QED BY <1>1, <1>3, <1>4, <1>5 DEF File!InStep, File!HeadLen, h, r

(* What stands between how a sequence begins and the rest of it. *)
Middle(s, m, n) == SubSeq(s, m + 1, n)

LEMMA BeginsMiddle ==
  ASSUME NEW U, NEW p \in Seq(U), NEW q \in Seq(U), NEW s \in Seq(U), Begins(p \o q, s),
         NEW m \in Nat, m = Len(p), NEW n \in Nat, n = m + Len(q)
  PROVE  Middle(s, m, n) = q
<1> DEFINE c == p \o q
           r == SubSeq(s, m + 1, n)
<1>1. /\ Len(c) = n
      /\ \A i \in 1..Len(p) + Len(q) : c[i] = IF i <= Len(p) THEN p[i] ELSE q[i - Len(p)]
  BY ConcatProperties
<1>2. n <= Len(s) /\ Len(q) \in Nat /\ Len(s) \in Nat /\ \A k \in 1..n : s[k] = c[k]
  BY <1>1 DEF Begins
<1>3. \A i \in (m + 1)..n : s[i] \in U
  BY <1>2
<1>4. /\ r \in Seq(U) /\ Len(r) = IF m + 1 <= n THEN n - (m + 1) + 1 ELSE 0
      /\ \A i \in 1..n - (m + 1) + 1 : r[i] = s[(m + 1) + i - 1]
  BY <1>3, SubSeqProperties
<1> HIDE DEF c, r
<1>5. Len(r) = Len(q)
  BY <1>2, <1>4
<1>6. ASSUME NEW i \in 1..Len(q) PROVE r[i] = q[i]
  <2>1. /\ i \in 1..n - (m + 1) + 1 /\ (m + 1) + i - 1 = m + i /\ m + i \in 1..n
        /\ ~(m + i <= m) /\ (m + i) - m = i /\ m + i \in 1..Len(p) + Len(q)
    BY <1>2
  <2>2. r[i] = s[m + i] /\ s[m + i] = c[m + i]
    BY <1>2, <1>4, <2>1
  <2>3. c[m + i] = q[i]
    BY <1>1, <2>1
  <2> QED BY <2>2, <2>3
<1>7. r = q
  BY <1>4, <1>5, <1>6, SeqEqual
<1> QED BY <1>7 DEF r, Middle

(* What a reader behind n records has in front of it. *)
LEMMA NextRecord ==
  ASSUME RecorderTypes, ReaderTypes, NEW n \in Nat, Behind(n), n + 1 <= Len(given),
         NEW c, c = ChunkAt(n + 1)
  PROVE  /\ c \in Chunks /\ c.length = given[n + 1] /\ c.length \in Nat
         /\ File!HeadUnits(c) \in Seq(Unit) /\ Len(File!HeadUnits(c)) = 2
         /\ File!PayloadUnits(c) \in Seq(Unit) /\ Len(File!PayloadUnits(c)) = c.length
         /\ Upto(given, n) \in Seq(Unit)
         /\ Upto(given, n + 1) = Upto(given, n) \o (File!HeadUnits(c) \o File!PayloadUnits(c))
         /\ Len(Upto(given, n + 1)) = reader.at + 2 + c.length
         /\ Upto(given, n + 1) \in Seq(Unit)
         /\ File!Rest = SubSeq(disk, Len(Upto(given, n)) + 1, Len(disk))
<1>t. given \in Seq(Nat) /\ disk \in Seq(Unit) /\ n + 1 \in Nat /\ Len(given) \in Nat
  BY DEF RecorderTypes
<1>1. /\ Record(n + 1, given[n + 1]) \in Seq(Unit)
      /\ Len(Record(n + 1, given[n + 1])) = 2 + given[n + 1]
      /\ given[n + 1] \in Nat
      /\ Upto(given, n + 1) = Upto(given, n) \o Record(n + 1, given[n + 1])
  BY <1>t, UptoNext
<1>2. c \in Chunks /\ c.length = given[n + 1]
  BY <1>1, <1>t, ChunkOK DEF ChunkAt
<1>3. /\ File!HeadUnits(c) \in Seq(Unit) /\ Len(File!HeadUnits(c)) = 2
      /\ File!PayloadUnits(c) \in Seq(Unit) /\ Len(File!PayloadUnits(c)) = c.length
  BY <1>2, UnitsOK
<1>4. Record(n + 1, given[n + 1]) = File!HeadUnits(c) \o File!PayloadUnits(c)
  BY DEF Record, ChunkAt
<1>5. Upto(given, n) \in Seq(Unit) /\ Upto(given, n + 1) \in Seq(Unit)
  <2>1. n \in 0..Len(given) /\ n + 1 \in 0..Len(given)
    BY <1>t
  <2> QED BY <1>t, <2>1, UptoOK
<1>6. reader.at = Len(Upto(given, n))
  BY DEF Behind
<1>7. Len(Upto(given, n + 1)) = reader.at + 2 + c.length
  <2> DEFINE u == Upto(given, n)
             r == Record(n + 1, given[n + 1])
  <2>1. u \in Seq(Unit) /\ r \in Seq(Unit) /\ Len(u) = reader.at /\ Len(r) = 2 + c.length
        /\ Upto(given, n + 1) = u \o r /\ c.length \in Nat /\ reader.at \in Nat
    BY <1>1, <1>2, <1>5, <1>6 DEF ReaderTypes
  <2> HIDE DEF u, r
  <2>2. u \in Seq(Unit) /\ r \in Seq(Unit)
    BY <2>1
  <2>3. Len(u \o r) = Len(u) + Len(r)
    BY <2>2, ConcatProperties, Zenon
  <2>4. PICK l \in Nat, at \in Nat : l = c.length /\ at = reader.at
    BY <2>1
  <2>5. Len(Upto(given, n + 1)) = at + (2 + l)
    BY <2>1, <2>3, <2>4
  <2>6. at + (2 + l) = at + 2 + l
    OBVIOUS
  <2> QED BY <2>4, <2>5, <2>6
<1>8. File!Rest = SubSeq(disk, Len(Upto(given, n)) + 1, Len(disk))
  BY <1>6 DEF File!Rest
<1> QED BY <1>1, <1>2, <1>3, <1>4, <1>5, <1>7, <1>8

(* The record is there: it is read. *)
LEMMA ReadsIt ==
  ASSUME RecorderTypes, ReaderTypes, NEW n \in Nat, Behind(n), n + 1 <= Len(given),
         Begins(Upto(given, n + 1), disk), File!ReplayRead
  PROVE  reader.status = "OK" /\ reader'.status = "OK" /\ ReaderTypes' /\ Behind(n + 1)'
<1>t. given \in Seq(Nat) /\ disk \in Seq(Unit) /\ n + 1 \in Nat /\ Len(given) \in Nat
  BY DEF RecorderTypes
<1> DEFINE c == ChunkAt(n + 1)
           h == File!HeadUnits(c)
           p == File!PayloadUnits(c)
           u == Upto(given, n)
           v == Upto(given, n + 1)
           r == File!Rest
           e == h \o p
<1>1. /\ c \in Chunks /\ c.length \in Nat
      /\ h \in Seq(Unit) /\ Len(h) = 2 /\ p \in Seq(Unit) /\ Len(p) = c.length
      /\ u \in Seq(Unit) /\ v = u \o e /\ v \in Seq(Unit)
      /\ Len(v) = reader.at + 2 + c.length
      /\ r = SubSeq(disk, Len(u) + 1, Len(disk))
  BY NextRecord
<1>2. Begins(v, disk)
  OBVIOUS
<1>3. r \in Seq(Unit) /\ Len(r) \in Nat
  BY <1>t, RestOK
<1>c. c = ChunkAt(n + 1)
  OBVIOUS
<1>h. h = File!HeadUnits(c) /\ p = File!PayloadUnits(c)
  OBVIOUS
<1>v. v = Upto(given, n + 1) /\ r = File!Rest
  OBVIOUS
<1> HIDE DEF c, h, p, u, v, r
<1>4. e \in Seq(Unit) /\ Begins(h, e) /\ Len(e) = 2 + c.length
  <2>1. h \in Seq(Unit) /\ p \in Seq(Unit)
    BY <1>1
  <2>2. e \in Seq(Unit) /\ Begins(h, e) /\ Len(e) = Len(h) + Len(p)
    BY <2>1, ConcatProperties, BeginsConcat
  <2> QED BY <1>1, <2>2
<1> HIDE DEF e
<1>5. Begins(e, r)
  <2>1. Begins(u \o e, disk) /\ u \in Seq(Unit)
    BY <1>1, <1>2
  <2> QED BY <1>1, <1>4, <1>t, <2>1, BeginsRest
<1>6. Begins(h, r)
  <2>1. h \in Seq(Unit)
    BY <1>1
  <2> QED BY <1>3, <1>4, <1>5, <2>1, BeginsFurther
<1>7. File!InStep /\ File!Rest[1].of = c /\ Len(File!Rest) >= 2 /\ File!Rest # <<>>
  <2>1. c \in Chunks /\ File!Rest \in Seq(Unit) /\ Begins(File!HeadUnits(c), File!Rest)
    BY <1>1, <1>3, <1>6, <1>h, <1>v
  <2> QED BY <2>1, HeadSeen
<1>8. Len(r) >= 2 + c.length
  BY <1>3, <1>4, <1>5 DEF Begins
<1>9. reader.status = "OK" /\ File!ReadPayload(c)
  <2>1. ~(Len(File!Rest) < 2)
    BY <1>3, <1>7, <1>v
  <2> QED BY <1>7, <2>1 DEF File!ReplayRead, File!HeadLen
<1>10. SubSeq(File!Rest, 2 + 1, 2 + c.length) = p
  <2>1. PICK i \in Nat : i = 2 /\ i = Len(h)
    BY <1>1
  <2>2. PICK j \in Nat : j = 2 + c.length /\ j = i + Len(p)
    BY <1>1, <2>1
  <2>3. Begins(h \o p, r) /\ h \in Seq(Unit) /\ p \in Seq(Unit)
    BY <1>1, <1>5 DEF e
  <2>4. SubSeq(r, i + 1, j) = p
    <3>1. i = Len(h)
      BY <2>1
    <3>2. j = i + Len(p)
      BY <2>2
    <3>3. h \in Seq(Unit)
      BY <2>3
    <3>4. p \in Seq(Unit)
      BY <2>3
    <3>5. r \in Seq(Unit)
      BY <1>3
    <3>6. Begins(h \o p, r)
      BY <2>3
    <3>7. Middle(r, i, j) = p
      BY <3>1, <3>2, <3>3, <3>4, <3>5, <3>6, BeginsMiddle, SMTT(30)
    <3> QED BY <3>7 DEF Middle
  <2> QED BY <1>v, <2>1, <2>2, <2>4
<1>11. File!Got(c, c.length)
  <2>1. ~(Len(File!Rest) < 2 + c.length)
    BY <1>1, <1>3, <1>8, <1>v
  <2> QED BY <1>9, <1>10, <1>h, <2>1 DEF File!ReadPayload, File!HeadLen
<1>12. /\ ReaderTypes' /\ reader'.got = Append(reader.got, c)
       /\ reader'.at = reader.at + 2 + c.length /\ reader'.status = reader.status
  <2>1. PICK x \in Nat : x = c.length
    BY <1>1
  <2>2. File!Got(c, x)
    BY <1>11, <2>1
  <2>3. c \in Chunks
    BY <1>1
  <2>4. /\ ReaderTypes' /\ reader'.got = Append(reader.got, c)
        /\ reader'.at = reader.at + 2 + x /\ reader'.status = reader.status
    BY <2>2, <2>3, GotFields
  <2> QED BY <2>1, <2>4
<1>13. UNCHANGED <<given, disk>>
  BY DEF File!ReplayRead, File!fileVars, File!recVars
<1>14. ReadBack(n + 1)' /\ Len(reader'.got) = n + 1
  <2>1. reader.got \in Seq(Chunks) /\ Len(reader.got) = n /\ \A k \in 1..n : reader.got[k] = ChunkAt(k)
    BY DEF ReaderTypes, Behind, ReadBack
  <2> DEFINE g == reader.got
             a == Append(g, c)
  <2>2. g \in Seq(Chunks) /\ Len(g) = n /\ c \in Chunks
    BY <1>1, <2>1
  <2> HIDE DEF g
  <2>3. /\ Len(a) = Len(g) + 1 /\ a[Len(g) + 1] = c /\ \A k \in 1..Len(g) : a[k] = g[k]
    BY <2>2, AppendProperties
  <2> HIDE DEF a
  <2>4. ASSUME NEW k \in 1..(n + 1) PROVE a[k] = ChunkAt(k)
    <3>1. CASE k = n + 1
      BY <1>c, <2>2, <2>3, <3>1
    <3>2. CASE k # n + 1
      <4>1. k \in 1..n
        BY <3>2
      <4> QED BY <2>1, <2>2, <2>3, <4>1 DEF g
    <3> QED BY <3>1, <3>2
  <2>5. reader'.got = a /\ Len(a) = n + 1 /\ n + 1 <= n + 1
    BY <1>12, <2>2, <2>3 DEF a, g
  <2> QED BY <1>13, <2>4, <2>5 DEF ReadBack, ChunkAt
<1>15. reader'.at = Len(v)
  BY <1>1, <1>12
<1>16. (Upto(given, n + 1))' = v
  BY <1>13, <1>v DEF Upto
<1> QED BY <1>2, <1>9, <1>12, <1>13, <1>14, <1>15, <1>16 DEF Behind

(* The record is not there, or not all of it: that is what the reader says.*)
LEMMA FindsTheEnd ==
  ASSUME RecorderTypes, ReaderTypes, NEW n \in Nat, Behind(n), Begins(disk, Laid(given)),
         n + 1 <= Len(given) => Len(disk) < Len(Upto(given, n + 1)), File!ReplayRead
  PROVE  /\ ReaderTypes' /\ reader'.got = reader.got /\ reader'.at = reader.at
         /\ \/ reader'.status = "PENDING" /\ disk = Upto(given, n)
            \/ reader'.status = "BUFFER_TOO_SMALL" /\ disk # Laid(given)
<1>t. given \in Seq(Nat) /\ disk \in Seq(Unit) /\ n + 1 \in Nat /\ Len(given) \in Nat
      /\ Len(disk) \in Nat
  BY DEF RecorderTypes
<1> DEFINE r == File!Rest
           u == Upto(given, n)
           w == Laid(given)
<1>1. n <= Len(given) /\ reader.at = Len(u) /\ Begins(u, disk)
  BY DEF Behind, ReadBack
<1>2. u \in Seq(Unit) /\ w \in Seq(Unit) /\ Upto(given, Len(given)) = w
  <2>1. n \in 0..Len(given)
    BY <1>1, <1>t
  <2> QED BY <1>t, <2>1, UptoOK, LaidOK, UptoAll
<1>3. r \in Seq(Unit) /\ Len(r) \in Nat
  BY <1>t, RestOK
<1>4. r = SubSeq(disk, Len(u) + 1, Len(disk))
  BY <1>1 DEF File!Rest
<1>5. Begins(disk, w)
  OBVIOUS
<1>v. u = Upto(given, n) /\ r = File!Rest /\ w = Laid(given)
  OBVIOUS
<1> HIDE DEF r, u, w
<1>6. Len(r) = Len(disk) - Len(u) /\ Len(u) \in Nat
  <2>1. Len(u) <= Len(disk)
    BY <1>1 DEF Begins
  <2>2. Len(SubSeq(disk, Len(u) + 1, Len(disk))) = Len(disk) - Len(u)
    BY <1>2, <1>t, <2>1, BeginsRest
  <2> QED BY <1>2, <1>4, <2>2
<1>7. CASE r = <<>>
  <2>1. Len(r) = 0
    BY <1>7
  <2>2. Len(disk) <= Len(u)
    BY <1>6, <1>t, <2>1
  <2>3. u = disk
    BY <1>1, <1>2, <1>t, <2>2, BeginsEqual
  <2>4. ~(Len(File!Rest) >= 2) /\ File!Rest = <<>>
    BY <1>7, <1>v, <2>1
  <2>5. File!Ends("PENDING")
    BY <2>4 DEF File!ReplayRead, File!InStep, File!HeadLen
  <2>6. PICK s \in Statuses : s = "PENDING"
    BY DEF Statuses
  <2>7. File!Ends(s)
    BY <2>5, <2>6
  <2> QED BY <1>v, <2>3, <2>6, <2>7, EndsFields
<1>8. CASE r # <<>>
  <2>1. Len(r) >= 1
    BY <1>3, <1>8
  <2>2. n + 1 <= Len(given)
    <3> SUFFICES ASSUME n = Len(given) PROVE FALSE
      BY <1>1, <1>t
    <3>1. u = w
      BY <1>2, <1>v
    <3>2. Len(disk) <= Len(u)
      BY <1>5, <3>1 DEF Begins
    <3> QED BY <1>6, <1>t, <2>1, <3>2
  <2> DEFINE c == ChunkAt(n + 1)
             h == File!HeadUnits(c)
             p == File!PayloadUnits(c)
             v == Upto(given, n + 1)
             e == h \o p
  <2>3. /\ c \in Chunks /\ c.length \in Nat
        /\ h \in Seq(Unit) /\ Len(h) = 2 /\ p \in Seq(Unit) /\ Len(p) = c.length
        /\ v = u \o e /\ v \in Seq(Unit) /\ Len(v) = reader.at + 2 + c.length
    BY <1>v, <2>2, NextRecord
  <2>4. Begins(v, w) /\ Len(v) <= Len(w)
    <3>1. Begins(v, Upto(given, Len(given)))
      BY <1>t, <2>2, UptoBegins
    <3>2. Begins(v, w)
      BY <1>2, <3>1
    <3> QED BY <3>2 DEF Begins
  <2>5. Len(disk) < Len(v)
    BY <2>2
  <2>h. h = File!HeadUnits(c)
    OBVIOUS
  <2> HIDE DEF c, h, p, v
  <2>6. Begins(disk, v)
    <3>1. v \in Seq(Unit) /\ Len(disk) <= Len(v)
      BY <1>t, <2>3, <2>5
    <3> QED BY <1>2, <1>5, <1>t, <2>4, <3>1, BeginsBoth
  <2>7. e \in Seq(Unit) /\ Begins(h, e) /\ Len(e) = 2 + c.length
    <3>1. h \in Seq(Unit) /\ p \in Seq(Unit)
      BY <2>3
    <3>2. e \in Seq(Unit) /\ Begins(h, e) /\ Len(e) = Len(h) + Len(p)
      BY <3>1, ConcatProperties, BeginsConcat
    <3> QED BY <2>3, <3>2
  <2> HIDE DEF e
  <2>8. Begins(r, e)
    <3>1. Begins(disk, u \o e)
      BY <2>3, <2>6
    <3> QED BY <1>1, <1>2, <1>4, <1>t, <2>7, <3>1, BeginsRest
  <2>9. Len(r) < 2 + c.length
    BY <1>1, <1>6, <1>t, <2>3, <2>5
  <2>10. File!Ends("BUFFER_TOO_SMALL")
    <3>1. CASE Len(r) < 2
      <4>1. File!Rest # <<>> /\ ~(Len(File!Rest) >= 2)
        BY <1>3, <1>8, <1>v, <3>1
      <4> QED BY <4>1 DEF File!ReplayRead, File!InStep, File!HeadLen
    <3>2. CASE ~(Len(r) < 2)
      <4>1. Begins(h, r)
        <5>1. h \in Seq(Unit) /\ Len(h) <= Len(r)
          BY <1>3, <2>3, <3>2
        <5> QED BY <1>3, <2>7, <2>8, <5>1, BeginsBoth
      <4>2. File!InStep /\ File!Rest[1].of = c /\ File!Rest # <<>>
        <5>1. c \in Chunks /\ File!Rest \in Seq(Unit) /\ Begins(File!HeadUnits(c), File!Rest)
          BY <1>3, <1>v, <2>3, <2>h, <4>1
        <5> QED BY <5>1, HeadSeen
      <4>3. ~(Len(File!Rest) < 2) /\ Len(File!Rest) < 2 + c.length
        BY <1>v, <2>9, <3>2
      <4>4. File!ReadPayload(c)
        BY <4>2, <4>3 DEF File!ReplayRead, File!HeadLen
      <4> QED BY <4>3, <4>4 DEF File!ReadPayload, File!HeadLen
    <3> QED BY <3>1, <3>2
  <2>11. disk # w
    BY <1>2, <1>t, <2>3, <2>4, <2>5
  <2>12. PICK s \in Statuses : s = "BUFFER_TOO_SMALL"
    BY DEF Statuses
  <2>13. File!Ends(s)
    BY <2>10, <2>12
  <2> QED BY <1>v, <2>11, <2>12, <2>13, EndsFields
<1> QED BY <1>7, <1>8

(* Opening a file that begins with the header, and one that was cut before *)
(* the end of it.                                                          *)
LEMMA Opens ==
  ASSUME RecorderTypes, ReaderTypes, File!ReplayOpen, reader.got = <<>>
  PROVE  /\ ReaderTypes' /\ reader'.got = <<>> /\ reader'.status # "unopened"
         /\ Begins(File!Header, disk) => reader'.status = "OK" /\ Behind(0)'
         /\ Begins(disk, File!Header) /\ Len(disk) < 3 => reader'.status \in {"MALFORMED", "NOT_SUPPORTED"}
<1>t. disk \in Seq(Unit) /\ given \in Seq(Nat) /\ Len(given) \in Nat /\ Len(disk) \in Nat
  BY DEF RecorderTypes
<1>h. File!Header \in Seq(Unit) /\ Len(File!Header) = 3
  BY HeaderOK
<1>u. UNCHANGED <<given, disk>>
  BY DEF File!ReplayOpen, File!fileVars, File!recVars
<1>p. /\ File!IsPrefix(File!Header, disk) <=> Begins(File!Header, disk)
      /\ File!IsPrefix(disk, File!Header) <=> Begins(disk, File!Header)
  BY <1>h, <1>t, BeginsIsPrefix
<1>1. /\ \E s \in Statuses \ {"unopened"}, a \in Nat :
           reader' = [reader EXCEPT !.status = s, !.at = a]
  <2>1. CASE File!IsPrefix(File!Header, disk)
             /\ reader' = [reader EXCEPT !.status = "OK", !.at = Len(File!Header)]
    BY <1>h, <2>1 DEF Statuses
  <2>2. ASSUME NEW s \in {"MALFORMED", "BUFFER_TOO_SMALL", "NOT_SUPPORTED"},
               reader' = [reader EXCEPT !.status = s]
        PROVE  \E q \in Statuses \ {"unopened"}, a \in Nat :
                 reader' = [reader EXCEPT !.status = q, !.at = a]
    <3>1. reader' = [reader EXCEPT !.status = s, !.at = reader.at] /\ reader.at \in Nat
      BY <2>2 DEF ReaderTypes
    <3>2. s \in Statuses \ {"unopened"}
      BY DEF Statuses
    <3> QED BY <3>1, <3>2
  <2>3. ASSUME NEW a \in DOMAIN disk, reader' = [reader EXCEPT !.status = "OK", !.at = a]
        PROVE  \E q \in Statuses \ {"unopened"}, b \in Nat :
                 reader' = [reader EXCEPT !.status = q, !.at = b]
    <3>1. a \in Nat /\ "OK" \in Statuses \ {"unopened"}
      BY <1>t DEF Statuses
    <3> QED BY <2>3, <3>1
  <2> QED BY <2>1, <2>2, <2>3 DEF File!ReplayOpen, File!HeaderCut
<1>2. ReaderTypes' /\ reader'.got = <<>> /\ reader'.status # "unopened"
  BY <1>1 DEF ReaderTypes
<1>3. ASSUME Begins(File!Header, disk) PROVE reader'.status = "OK" /\ Behind(0)'
  <2>1. ~(File!IsStrictPrefix(disk, File!Header))
    <3> SUFFICES ASSUME Begins(disk, File!Header) PROVE disk = File!Header
      BY <1>p DEF File!IsStrictPrefix
    <3>1. Len(disk) <= Len(File!Header)
      BY DEF Begins
    <3> QED BY <1>3, <1>h, <1>t, <3>1, BeginsEqual
  <2>2. reader' = [reader EXCEPT !.status = "OK", !.at = Len(File!Header)]
    BY <1>3, <1>p, <2>1 DEF File!ReplayOpen
  <2>3. reader'.status = "OK" /\ reader'.at = Len(File!Header)
    BY <2>2 DEF ReaderTypes
  <2>4. Upto(given, 0)' = File!Header
    BY <1>u, UptoZero
  <2>5. ReadBack(0)' /\ Len(reader'.got) = 0
    BY <1>2, <1>t, <1>u DEF ReadBack
  <2> QED BY <1>3, <1>u, <2>3, <2>4, <2>5 DEF Behind
<1>4. ASSUME Begins(disk, File!Header), Len(disk) < 3 PROVE reader'.status \in {"MALFORMED", "NOT_SUPPORTED"}
  <2>0. ~(Len(File!Header) <= Len(disk))
    BY <1>4, <1>h, <1>t
  <2>1. disk # File!Header /\ ~Begins(File!Header, disk)
    <3>0. Len(disk) <= Len(disk)
      BY <1>t
    <3>1. disk # File!Header
      BY <2>0, <3>0, Zenon
    <3>2. ~Begins(File!Header, disk)
      BY <2>0, Zenon DEF Begins
    <3> QED BY <3>1, <3>2
  <2>2. PICK s \in {"MALFORMED", "NOT_SUPPORTED"} : reader' = [reader EXCEPT !.status = s]
    BY <1>4, <1>p, <2>1 DEF File!ReplayOpen, File!IsStrictPrefix, File!HeaderCut
  <2> QED BY <2>2 DEF ReaderTypes
<1> QED BY <1>2, <1>3, <1>4
-----------------------------------------------------------------------------
(* THE CAPTURE. *)

CaptureInv ==
  /\ RecorderTypes /\ WriterInStep /\ AcceptedKept /\ CutNotTorn /\ Reported
  /\ ReaderTypes /\ ReaderInStep

LEMMA CaptureStarts == ASSUME File!Init PROVE CaptureInv
<1>1. RecorderTypes
  <2>1. <<>> \in Seq(Nat) /\ Len(<<>>) = 0 /\ <<>> \in Seq(Unit) /\ <<>> \in Seq(Chunks)
    OBVIOUS
  <2>2. given = <<>> /\ disk = <<>> /\ buf = File!Header /\ batch = <<>> /\ accepted = 0
    BY DEF File!Init
  <2>3. /\ given \in Seq(Nat) /\ accepted \in 0..Len(given) /\ disk \in Seq(Unit)
        /\ batch \in Seq(Chunks) /\ buf \in Seq(Unit)
    BY <2>1, <2>2, HeaderOK
  <2> QED BY <2>2, <2>3 DEF File!Init, RecorderTypes
<1>2. WriterInStep
  <2>1. /\ disk = <<>> /\ buf = File!Header /\ given = <<>> /\ chunks = 0 /\ batch = <<>>
        /\ writing = "host"
    BY DEF File!Init
  <2>2. Begun = <<>> /\ Upto(given, chunks) = File!Header
    BY <2>1, UptoZero DEF Begun
  <2>3. <<>> \o File!Header = File!Header /\ File!Header \o <<>> = File!Header
    BY HeaderOK, ConcatEmptySeq
  <2>4. Len(batch) = 0 /\ Len(given) = 0
    BY <2>1
  <2> QED BY <2>1, <2>2, <2>3, <2>4 DEF WriterInStep
<1>3. AcceptedKept /\ CutNotTorn /\ Reported
  BY DEF File!Init, AcceptedKept, CutNotTorn, Reported
<1>4. ReaderTypes /\ ReaderInStep
  <2>1. reader = [at |-> 0, got |-> <<>>, status |-> "unopened"] /\ <<>> \in Seq(Chunks)
    BY DEF File!Init
  <2> QED BY <2>1 DEF ReaderTypes, ReaderInStep, Statuses
<1> QED BY <1>1, <1>2, <1>3, <1>4 DEF CaptureInv

LEMMA CaptureWrites == ASSUME CaptureInv, WriterStep PROVE CaptureInv'
<1>1. RecorderTypes' /\ WriterInStep' /\ AcceptedKept' /\ CutNotTorn' /\ Reported'
  BY TypesKept, InStepKept, AcceptedStays, CutKept, ReportedKept DEF CaptureInv
<1>2. reader' = reader /\ recording = "recording"
  BY DEF WriterStep, File!OpenFails, File!Write, File!WriteHead, File!WriteHeadFails, File!Torn,
         File!WritePayload, File!WritePayloadFails, File!Flush, File!FlushFails, File!Returned,
         File!Close, File!Killed
<1>3. ReaderTypes' /\ ReaderInStep'
  <2>1. reader.status = "unopened" /\ reader.at = 0 /\ reader.got = <<>>
    BY <1>2 DEF CaptureInv, ReaderInStep
  <2> QED BY <1>2, <2>1 DEF CaptureInv, ReaderTypes, ReaderInStep
<1> QED BY <1>1, <1>3 DEF CaptureInv

(* What the writer left is not touched by a reader. *)
LEMMA WriterUntouched ==
  ASSUME CaptureInv,
         UNCHANGED <<disk, buf, recording, writing, batch, first_error, chunks, said, given,
                     accepted, outcome>>
  PROVE  RecorderTypes' /\ WriterInStep' /\ AcceptedKept' /\ CutNotTorn' /\ Reported'
BY DEF CaptureInv, RecorderTypes, WriterInStep, AcceptedKept, CutNotTorn, Reported, Begun,
       ChunkAt, Upto

LEMMA CaptureOpens == ASSUME CaptureInv, File!ReplayOpen PROVE CaptureInv'
<1>u. UNCHANGED <<disk, buf, recording, writing, batch, first_error, chunks, said, given,
                  accepted, outcome>>
  BY DEF File!ReplayOpen, File!fileVars, File!recVars
<1>0. recording # "recording" /\ reader.status = "unopened" /\ reader.got = <<>>
  BY DEF File!ReplayOpen, CaptureInv, ReaderInStep
<1>t. /\ given \in Seq(Nat) /\ Len(given) \in Nat /\ accepted \in 0..Len(given) /\ disk \in Seq(Unit)
      /\ Len(disk) \in Nat
  BY DEF CaptureInv, RecorderTypes
<1>h. File!Header \in Seq(Unit) /\ Len(File!Header) = 3
  BY HeaderOK
<1>1. /\ ReaderTypes' /\ reader'.got = <<>> /\ reader'.status # "unopened"
      /\ Begins(File!Header, disk) => reader'.status = "OK" /\ Behind(0)'
      /\ Begins(disk, File!Header) /\ Len(disk) < 3 => reader'.status \in {"MALFORMED", "NOT_SUPPORTED"}
  BY <1>0, Opens DEF CaptureInv
<1>2. Len(reader'.got) = 0
  BY <1>1
<1>3. ASSUME accepted > 0 PROVE Begins(File!Header, disk)
  <2> DEFINE u == Upto(given, accepted)
  <2>1. Begins(u, disk) /\ u \in Seq(Unit)
    BY <1>3, <1>t, UptoOK DEF CaptureInv, AcceptedKept
  <2>2. Begins(File!Header, u)
    <3>1. Begins(Upto(given, 0), Upto(given, accepted))
      BY <1>t, UptoBegins
    <3> QED BY <3>1, UptoZero
  <2> HIDE DEF u
  <2> QED BY <1>h, <1>t, <2>1, <2>2, BeginsFurther
<1>4. ASSUME ~first_error PROVE ReadsTrue'
  <2> DEFINE w == Laid(given)
  <2>1. Begins(disk, w)
    BY <1>0, <1>4 DEF CaptureInv, CutNotTorn
  <2>2. w \in Seq(Unit) /\ Begins(File!Header, w)
    <3>1. Begins(Upto(given, 0), Upto(given, Len(given)))
      BY <1>t, UptoBegins
    <3> QED BY <1>t, <3>1, UptoZero, UptoAll, LaidOK
  <2>w. w = Laid(given)
    OBVIOUS
  <2> HIDE DEF w
  <2>3. CASE Begins(File!Header, disk)
    BY <1>1, <1>2, <2>3 DEF ReadsTrue
  <2>4. CASE ~Begins(File!Header, disk)
    <3>1. Len(disk) < Len(File!Header) /\ Len(disk) <= Len(File!Header)
      <4>1. Len(File!Header) <= Len(disk) => Begins(File!Header, disk)
        BY <1>h, <1>t, <2>1, <2>2, BeginsBoth
      <4> QED BY <1>h, <1>t, <2>4, <4>1
    <3>2. Begins(disk, File!Header)
      BY <1>h, <1>t, <2>1, <2>2, <3>1, BeginsBoth
    <3>3. reader'.status \in {"MALFORMED", "NOT_SUPPORTED"}
      BY <1>1, <1>h, <3>1, <3>2
    <3>4. accepted' = 0
      BY <1>3, <1>t, <1>u, <2>4
    <3>5. disk # w
      BY <2>2, <2>4
    <3>6. outcome' # "OK"
      BY <1>u, <2>w, <3>5 DEF CaptureInv, Reported
    <3> QED BY <1>2, <3>3, <3>4, <3>6 DEF ReadsTrue
  <2> QED BY <2>3, <2>4
<1>5. ReaderInStep'
  <2>1. recording' # "recording"
    BY <1>0, <1>u
  <2>2. accepted' > 0 => reader'.status = "OK" /\ Len(reader'.got) < accepted'
                         /\ Behind(Len(reader.got))'
    BY <1>1, <1>2, <1>3, <1>t, <1>u
  <2>3. ~first_error' => ReadsTrue'
    BY <1>4, <1>u
  <2> QED BY <1>1, <2>1, <2>2, <2>3 DEF ReaderInStep
<1> QED BY <1>1, <1>5, <1>u, WriterUntouched DEF CaptureInv

(* A reader only adds to what it got. *)
LEMMA ReadsOn ==
  ASSUME RecorderTypes, ReaderTypes, File!ReplayRead
  PROVE  /\ ReaderTypes' /\ reader.status = "OK" /\ reader'.status # "unopened"
         /\ Len(reader'.got) >= Len(reader.got)
         /\ \A k \in 1..Len(reader.got) : reader'.got[k] = reader.got[k]
<1>t. disk \in Seq(Unit) /\ FileChunkMax \in Nat /\ reader.got \in Seq(Chunks)
      /\ Len(reader.got) \in Nat
  BY FileAssumption DEF RecorderTypes, ReaderTypes
<1>0. reader.status = "OK"
  BY DEF File!ReplayRead
<1>r. File!Rest \in Seq(Unit) /\ Len(File!Rest) \in Nat
  BY <1>t, RestOK
<1>1. ASSUME NEW s \in Statuses \ {"unopened"}, File!Ends(s)
      PROVE  /\ ReaderTypes' /\ reader'.status # "unopened" /\ Len(reader'.got) >= Len(reader.got)
             /\ \A k \in 1..Len(reader.got) : reader'.got[k] = reader.got[k]
  BY <1>1, <1>t, EndsFields
<1>2. ASSUME NEW c \in Chunks, NEW x \in Nat, File!Got(c, x)
      PROVE  /\ ReaderTypes' /\ reader'.status # "unopened" /\ Len(reader'.got) >= Len(reader.got)
             /\ \A k \in 1..Len(reader.got) : reader'.got[k] = reader.got[k]
  <2>1. ReaderTypes' /\ reader'.got = Append(reader.got, c) /\ reader'.status = reader.status
    BY <1>2, GotFields
  <2>2. /\ Len(Append(reader.got, c)) = Len(reader.got) + 1
        /\ \A k \in 1..Len(reader.got) : Append(reader.got, c)[k] = reader.got[k]
    BY <1>t, AppendProperties
  <2>3. Len(reader'.got) = Len(reader.got) + 1
    BY <2>1, <2>2
  <2>4. \A k \in 1..Len(reader.got) : reader'.got[k] = reader.got[k]
    BY <2>1, <2>2
  <2> QED BY <1>0, <1>t, <2>1, <2>3, <2>4
<1>3. {"PENDING", "BUFFER_TOO_SMALL", "MALFORMED"} \subseteq Statuses \ {"unopened"}
  BY DEF Statuses
<1>4. File!Bogus \in Chunks
  BY DEF File!Bogus, File!Chunk, Chunks
<1>5. CASE \E s \in {"PENDING", "BUFFER_TOO_SMALL", "MALFORMED"} : File!Ends(s)
  BY <1>0, <1>1, <1>3, <1>5
<1>6. ASSUME File!InStep, File!ReadPayload(File!Rest[1].of), ~File!Ends("BUFFER_TOO_SMALL")
      PROVE  \E c \in Chunks, x \in Nat : File!Got(c, x)
  <2> DEFINE q == File!Rest[1]
  <2>1. q \in Unit
    <3>1. Len(File!Rest) >= 2
      BY <1>6 DEF File!InStep, File!HeadLen
    <3>2. 1 \in 1..Len(File!Rest)
      BY <1>r, <3>1
    <3> QED BY <1>r, <3>2
  <2>2. q.of \in Chunks /\ q.of.length \in Nat
    BY <2>1 DEF Unit, Chunks
  <2>3. \E d \in {q.of, File!Bogus} : File!Got(d, q.of.length)
    BY <1>6 DEF File!ReadPayload
  <2> HIDE DEF q
  <2> QED BY <1>4, <2>2, <2>3
<1>7. CASE \E x \in 0..FileChunkMax : File!Got(File!Bogus, x)
  <2>1. PICK x \in Nat : File!Got(File!Bogus, x)
    BY <1>7, <1>t
  <2> QED BY <1>0, <1>2, <1>4, <2>1
<1>8. \/ \E s \in {"PENDING", "BUFFER_TOO_SMALL", "MALFORMED"} : File!Ends(s)
      \/ \E x \in 0..FileChunkMax : File!Got(File!Bogus, x)
      \/ File!InStep /\ File!ReadPayload(File!Rest[1].of)
  BY DEF File!ReplayRead
<1> QED BY <1>0, <1>2, <1>5, <1>6, <1>7, <1>8

LEMMA CaptureReads == ASSUME CaptureInv, File!ReplayRead PROVE CaptureInv'
<1>u. UNCHANGED <<disk, buf, recording, writing, batch, first_error, chunks, said, given,
                  accepted, outcome>>
  BY DEF File!ReplayRead, File!fileVars, File!recVars
<1>t. /\ given \in Seq(Nat) /\ Len(given) \in Nat /\ accepted \in 0..Len(given) /\ disk \in Seq(Unit)
      /\ Len(disk) \in Nat /\ reader.got \in Seq(Chunks) /\ Len(reader.got) \in Nat
      /\ RecorderTypes /\ ReaderTypes
  BY DEF CaptureInv, RecorderTypes, ReaderTypes
<1>0. /\ ReaderTypes' /\ reader.status = "OK" /\ reader'.status # "unopened"
      /\ Len(reader'.got) >= Len(reader.got)
      /\ \A k \in 1..Len(reader.got) : reader'.got[k] = reader.got[k]
  BY <1>t, ReadsOn
<1>r. recording # "recording"
  BY <1>0 DEF CaptureInv, ReaderInStep
<1>n. PICK n \in Nat : n = Len(reader.got) /\ n + 1 \in Nat
  BY <1>t
<1>1. ASSUME Behind(n), n + 1 <= Len(given), Begins(Upto(given, n + 1), disk)
      PROVE  reader'.status = "OK" /\ Behind(n + 1)'
  BY <1>1, <1>n, <1>t, ReadsIt
<1>2. ASSUME accepted > 0
      PROVE  \/ reader'.status = "OK" /\ Len(reader'.got) < accepted /\ Behind(Len(reader.got))'
             \/ ReadBack(accepted)'
  <2>1. CASE n < accepted /\ Behind(n)
    <3>1. n + 1 <= accepted /\ n + 1 <= Len(given)
      BY <1>n, <1>t, <2>1
    <3>2. Begins(Upto(given, n + 1), disk)
      <4> DEFINE a == Upto(given, n + 1)
                 b == Upto(given, accepted)
      <4>1. Begins(b, disk)
        BY <1>2 DEF CaptureInv, AcceptedKept
      <4>2. Begins(a, b)
        BY <1>n, <1>t, <3>1, UptoBegins
      <4>3. a \in Seq(Unit) /\ b \in Seq(Unit)
        <5>1. n + 1 \in 0..Len(given)
          BY <1>n, <1>t, <3>1
        <5> QED BY <1>t, <5>1, UptoOK
      <4> HIDE DEF a, b
      <4>4. Begins(a, disk)
        BY <1>t, <4>1, <4>2, <4>3, BeginsFurther
      <4> QED BY <4>4 DEF a
    <3>3. reader'.status = "OK" /\ Behind(n + 1)'
      BY <1>1, <2>1, <3>1, <3>2
    <3>4. n + 1 = Len(reader'.got)
      BY <3>3 DEF Behind
    <3>5. CASE n + 1 < accepted
      BY <3>3, <3>4, <3>5
    <3>6. CASE n + 1 = accepted
      BY <1>u, <3>3, <3>6 DEF Behind, ReadBack
    <3> QED BY <1>n, <1>t, <3>1, <3>5, <3>6
  <2>2. CASE ReadBack(accepted)
    <3>1. accepted <= Len(reader'.got)
      <4>1. Len(reader'.got) \in Nat
        BY <1>0 DEF ReaderTypes
      <4> QED BY <1>0, <1>t, <2>2, <4>1 DEF ReadBack
    <3>2. ASSUME NEW k \in 1..accepted PROVE reader'.got[k] = ChunkAt(k)
      <4>1. k \in 1..Len(reader.got)
        BY <1>t, <2>2 DEF ReadBack
      <4> QED BY <1>0, <2>2, <4>1 DEF ReadBack
    <3> QED BY <1>u, <2>2, <3>1, <3>2 DEF ReadBack, ChunkAt
  <2> QED BY <1>0, <1>2, <1>n, <2>1, <2>2 DEF CaptureInv, ReaderInStep
<1>3. ASSUME ~first_error PROVE ReadsTrue'
  <2>1. Behind(n)
    BY <1>0, <1>3, <1>n DEF CaptureInv, ReaderInStep, ReadsTrue
  <2> DEFINE w == Laid(given)
  <2>2. Begins(disk, w)
    BY <1>3, <1>r DEF CaptureInv, CutNotTorn
  <2>3. CASE n + 1 <= Len(given) /\ Len(Upto(given, n + 1)) <= Len(disk)
    <3> DEFINE a == Upto(given, n + 1)
    <3>1. Begins(a, w)
      <4>1. Begins(a, Upto(given, Len(given)))
        BY <1>n, <1>t, <2>3, UptoBegins
      <4> QED BY <1>t, <4>1, UptoAll
    <3>2. a \in Seq(Unit) /\ w \in Seq(Unit)
      <4>1. n + 1 \in 0..Len(given)
        BY <1>n, <1>t, <2>3
      <4> QED BY <1>t, <4>1, UptoOK, LaidOK
    <3>3. Len(a) <= Len(disk)
      BY <2>3
    <3> HIDE DEF a, w
    <3>4. Begins(a, disk)
      BY <1>t, <2>2, <3>1, <3>2, <3>3, BeginsBoth
    <3>5. reader'.status = "OK" /\ Behind(n + 1)'
      BY <1>1, <2>1, <2>3, <3>4 DEF a
    <3>6. n + 1 = Len(reader'.got)
      BY <3>5 DEF Behind
    <3> QED BY <3>5, <3>6 DEF ReadsTrue
  <2>4. CASE ~(n + 1 <= Len(given) /\ Len(Upto(given, n + 1)) <= Len(disk))
    <3>1. n + 1 <= Len(given) => Len(disk) < Len(Upto(given, n + 1))
      <4> SUFFICES ASSUME n + 1 <= Len(given) PROVE Len(disk) < Len(Upto(given, n + 1))
        OBVIOUS
      <4>1. n + 1 \in 0..Len(given)
        BY <1>n, <1>t
      <4>2. Upto(given, n + 1) \in Seq(Unit)
        BY <1>t, <4>1, UptoOK
      <4>3. Len(Upto(given, n + 1)) \in Nat
        BY <4>2
      <4> QED BY <1>t, <2>4, <4>3
    <3>2. /\ reader'.got = reader.got /\ reader'.at = reader.at
          /\ \/ reader'.status = "PENDING" /\ disk = Upto(given, n)
             \/ reader'.status = "BUFFER_TOO_SMALL" /\ disk # Laid(given)
      BY <1>n, <1>t, <2>1, <2>2, <3>1, FindsTheEnd
    <3>3. Behind(n)' /\ n = Len(reader'.got)
      BY <1>n, <1>u, <2>1, <3>2 DEF Behind, ReadBack, ChunkAt, Upto
    <3>4. Upto(given, n)' = Upto(given, n)
      BY <1>u DEF Upto
    <3>5. disk # Laid(given) => outcome' # "OK"
      BY <1>u DEF CaptureInv, Reported
    <3>6. CASE reader'.status = "PENDING" /\ disk = Upto(given, n)
      BY <1>u, <3>3, <3>4, <3>6 DEF ReadsTrue
    <3>7. CASE reader'.status = "BUFFER_TOO_SMALL" /\ disk # Laid(given)
      BY <3>3, <3>5, <3>7 DEF ReadsTrue
    <3> QED BY <3>2, <3>6, <3>7
  <2> QED BY <2>3, <2>4
<1>4. ReaderInStep'
  BY <1>0, <1>2, <1>3, <1>r, <1>u DEF ReaderInStep
<1> QED BY <1>0, <1>4, <1>u, WriterUntouched DEF CaptureInv

LEMMA AllOK ==
  ASSUME RecorderTypes
  PROVE  /\ File!All \in Seq(Chunks) /\ Len(File!All) = Len(given) /\ Len(given) \in Nat
         /\ \A k \in 1..Len(given) : File!All[k] = ChunkAt(k)
<1>1. /\ DOMAIN given = 1..Len(given) /\ Len(given) \in Nat
      /\ \A k \in 1..Len(given) : given[k] \in Nat
  BY DEF RecorderTypes
<1>2. \A k \in 1..Len(given) : ChunkAt(k) \in Chunks
  BY <1>1, ChunkOK DEF ChunkAt
<1>3. File!All = [k \in 1..Len(given) |-> ChunkAt(k)]
  BY <1>1 DEF File!All, ChunkAt
<1>4. File!All \in [1..Len(given) -> Chunks]
  BY <1>2, <1>3
<1>5. File!All \in Seq(Chunks) /\ Len(File!All) = Len(given)
  BY <1>1, <1>4, FunIsSeq
<1> QED BY <1>1, <1>3, <1>5

(* The property, from the invariant. *)
LEMMA EvidenceFollows == ASSUME CaptureInv PROVE CaptureIsEvidence
<1>t. /\ given \in Seq(Nat) /\ Len(given) \in Nat /\ accepted \in 0..Len(given) /\ disk \in Seq(Unit)
      /\ reader.got \in Seq(Chunks) /\ Len(reader.got) \in Nat /\ first_error \in BOOLEAN
      /\ reader.status \in Statuses
  BY DEF CaptureInv, RecorderTypes, ReaderTypes
<1>a. /\ File!All \in Seq(Chunks) /\ Len(File!All) = Len(given)
      /\ \A k \in 1..Len(given) : File!All[k] = ChunkAt(k)
  BY AllOK DEF CaptureInv
<1>1. writing = "host" /\ recording = "recording" /\ ~said => accepted = Len(given)
  BY DEF CaptureInv, Reported
<1> SUFFICES ASSUME File!ReadToTheEnd
             PROVE  /\ File!IsPrefix(SubSeq(File!All, 1, accepted), reader.got)
                    /\ ~first_error =>
                         /\ File!IsPrefix(reader.got, File!All)
                         /\ \/ reader.status \in {"PENDING", "BUFFER_TOO_SMALL"}
                            \/ reader.status \in {"MALFORMED", "NOT_SUPPORTED"} /\ accepted = 0
                         /\ reader.status = "PENDING" =>
                              disk = File!Header \o File!FlattenSeq(
                                       [k \in DOMAIN reader.got |->
                                          File!HeadUnits(File!All[k])
                                            \o File!PayloadUnits(File!All[k])])
                    /\ outcome = "OK" => /\ reader.got = File!All /\ chunks = Len(File!All)
                                         /\ reader.status = "PENDING"
                    /\ recording = "closed" /\ reader.got # File!All => outcome = "error"
  BY <1>1 DEF CaptureIsEvidence, File!CaptureIsEvidence
<1>s. reader.status # "unopened" /\ reader.status # "OK"
  BY DEF File!ReadToTheEnd
<1> DEFINE g == reader.got
           w == File!All
           n == Len(g)
<1>g. g \in Seq(Chunks) /\ w \in Seq(Chunks) /\ n \in Nat /\ n = Len(reader.got) /\ Len(g) = n
      /\ Len(w) = Len(given)
  BY <1>a, <1>t
<1>w. \A k \in 1..Len(given) : w[k] = ChunkAt(k)
  BY <1>a
<1> HIDE DEF g, w, n
<1>2. File!IsPrefix(SubSeq(w, 1, accepted), g)
  <2> DEFINE c == SubSeq(w, 1, accepted)
  <2>1. c \in Seq(Chunks) /\ Len(c) = accepted /\ Begins(c, w)
    <3>1. accepted \in 0..Len(w)
      BY <1>g, <1>t
    <3> QED BY <1>g, <3>1, BeginsCut
  <2> HIDE DEF c
  <2>2. Begins(c, g)
    <3>1. CASE accepted = 0
      BY <1>g, <2>1, <3>1 DEF Begins
    <3>2. CASE accepted # 0
      <4>1. ReadBack(accepted)
        BY <1>s, <1>t, <3>2 DEF CaptureInv, ReaderInStep
      <4>2. accepted <= Len(g) /\ \A k \in 1..accepted : g[k] = ChunkAt(k)
        BY <4>1 DEF ReadBack, g
      <4>3. ASSUME NEW k \in 1..accepted PROVE g[k] = c[k]
        <5>1. k \in 1..Len(given)
          BY <1>t
        <5> QED BY <1>w, <2>1, <4>2, <5>1 DEF Begins
      <4> QED BY <2>1, <4>2, <4>3 DEF Begins
    <3> QED BY <3>1, <3>2
  <2>3. File!IsPrefix(c, g)
    BY <1>g, <2>1, <2>2, BeginsIsPrefix
  <2> QED BY <2>3 DEF c
<1>3. ASSUME ~first_error
      PROVE  /\ Begins(g, w)
             /\ \/ reader.status = "PENDING" /\ disk = Upto(given, n) /\ n <= Len(given)
                \/ reader.status = "BUFFER_TOO_SMALL" /\ outcome # "OK"
                \/ reader.status \in {"MALFORMED", "NOT_SUPPORTED"} /\ accepted = 0 /\ outcome # "OK"
  <2>1. \/ reader.status = "PENDING" /\ Behind(n) /\ disk = Upto(given, n)
        \/ reader.status = "BUFFER_TOO_SMALL" /\ Behind(n) /\ outcome # "OK"
        \/ reader.status \in {"MALFORMED", "NOT_SUPPORTED"} /\ n = 0 /\ accepted = 0 /\ outcome # "OK"
    BY <1>3, <1>g, <1>s DEF CaptureInv, ReaderInStep, ReadsTrue
  <2>2. ASSUME Behind(n) PROVE Begins(g, w) /\ n <= Len(given)
    <3>1. n <= Len(given) /\ \A k \in 1..n : g[k] = ChunkAt(k)
      BY <2>2 DEF Behind, ReadBack, g
    <3>2. ASSUME NEW k \in 1..n PROVE w[k] = g[k]
      <4>1. k \in 1..Len(given)
        BY <1>g, <1>t, <3>1
      <4> QED BY <1>w, <3>1, <4>1
    <3> QED BY <1>g, <3>1, <3>2 DEF Begins
  <2>3. ASSUME n = 0 PROVE Begins(g, w)
    BY <1>g, <1>t, <2>3 DEF Begins
  <2> QED BY <2>1, <2>2, <2>3
<1>4. ASSUME n <= Len(given)
      PROVE  Upto(given, n) = File!Header \o File!FlattenSeq(
                                [k \in DOMAIN g |-> File!HeadUnits(w[k]) \o File!PayloadUnits(w[k])])
  <2> DEFINE s == SubSeq(given, 1, n)
  <2>1. s \in Seq(Nat) /\ Len(s) = n /\ Begins(s, given)
    <3>1. n \in 0..Len(given)
      BY <1>4, <1>g, <1>t
    <3> QED BY <1>t, <3>1, BeginsCut
  <2>2. DOMAIN g = 1..n
    BY <1>g
  <2>u. Upto(given, n) = File!Header \o File!FlattenSeq(Records(s))
    BY DEF Upto, Laid
  <2> HIDE DEF s
  <2>3. DOMAIN s = 1..n
    BY <2>1
  <2>4. ASSUME NEW k \in 1..n
        PROVE  Record(k, s[k]) = File!HeadUnits(w[k]) \o File!PayloadUnits(w[k])
    <3>1. k \in 1..Len(given)
      BY <1>4, <1>g, <1>t
    <3>2. w[k] = File!Chunk(k, s[k])
      BY <1>w, <2>1, <3>1 DEF ChunkAt, Begins
    <3> QED BY <3>2 DEF Record
  <2>5. Records(s) = [k \in DOMAIN g |-> File!HeadUnits(w[k]) \o File!PayloadUnits(w[k])]
    BY <2>2, <2>3, <2>4 DEF Records
  <2> QED BY <2>5, <2>u
<1>5. ASSUME ~first_error PROVE File!IsPrefix(g, w)
  BY <1>3, <1>5, <1>g, BeginsIsPrefix
<1>6. ASSUME outcome = "OK"
      PROVE  g = w /\ chunks = Len(w) /\ reader.status = "PENDING"
  <2>1. ~first_error /\ disk = Laid(given) /\ chunks = Len(given)
    BY <1>6 DEF CaptureInv, Reported
  <2>2. reader.status = "PENDING" /\ disk = Upto(given, n) /\ n <= Len(given) /\ Begins(g, w)
    BY <1>3, <1>6, <2>1
  <2>3. n = Len(given)
    <3> SUFFICES ASSUME n < Len(given) PROVE FALSE
      BY <1>g, <1>t, <2>2
    <3>1. Len(Upto(given, n)) + 2 <= Len(Upto(given, Len(given)))
      BY <1>g, <1>t, UptoBegins
    <3>2. Upto(given, Len(given)) = disk /\ Upto(given, n) = disk
      BY <1>t, <2>1, <2>2, UptoAll
    <3>3. Len(disk) \in Nat
      BY <1>t
    <3> QED BY <3>1, <3>2, <3>3
  <2>4. Len(w) <= Len(g)
    BY <1>g, <1>t, <2>3
  <2>5. g = w
    BY <1>g, <2>2, <2>4, BeginsEqual
  <2> QED BY <1>g, <2>1, <2>2, <2>5
<1>7. recording = "closed" /\ g # w => outcome = "error"
  BY <1>6 DEF CaptureInv, Reported
<1>8. ASSUME ~first_error
      PROVE  /\ \/ reader.status \in {"PENDING", "BUFFER_TOO_SMALL"}
                \/ reader.status \in {"MALFORMED", "NOT_SUPPORTED"} /\ accepted = 0
             /\ reader.status = "PENDING" =>
                  disk = File!Header \o File!FlattenSeq(
                           [k \in DOMAIN g |-> File!HeadUnits(w[k]) \o File!PayloadUnits(w[k])])
  <2>1. reader.status = "PENDING" => disk = Upto(given, n) /\ n <= Len(given)
    BY <1>3, <1>8
  <2>2. \/ reader.status \in {"PENDING", "BUFFER_TOO_SMALL"}
        \/ reader.status \in {"MALFORMED", "NOT_SUPPORTED"} /\ accepted = 0
    BY <1>3, <1>8
  <2> QED BY <1>4, <2>1, <2>2
<1> QED BY <1>2, <1>5, <1>6, <1>7, <1>8 DEF g, w

(* A capture is evidence, for every recording: whatever batches the host   *)
(* hands over, wherever it is killed and whichever writes fail, what       *)
(* gsp_recorder_write accepted is read back first and in order, a file     *)
(* whose writer met no error reads as it was written up to where it was    *)
(* cut, and what is missing from a closed one was reported.                *)
THEOREM CapturesAreEvidence == File!Spec => []CaptureIsEvidence
<1>1. File!Init => CaptureInv
  BY CaptureStarts
<1>2. CaptureInv /\ [File!Next]_(File!vars) => CaptureInv'
  <2> SUFFICES ASSUME CaptureInv, [File!Next]_(File!vars) PROVE CaptureInv'
    OBVIOUS
  <2>1. CASE WriterStep
    BY <2>1, CaptureWrites
  <2>2. CASE File!ReplayOpen
    BY <2>2, CaptureOpens
  <2>3. CASE File!ReplayRead
    BY <2>3, CaptureReads
  <2>4. CASE UNCHANGED File!vars
    <3>1. UNCHANGED <<disk, buf, recording, writing, batch, first_error, chunks, said, given,
                      accepted, outcome, reader>>
      BY <2>4 DEF File!vars, File!fileVars, File!recVars
    <3>2. RecorderTypes' /\ WriterInStep' /\ AcceptedKept' /\ CutNotTorn' /\ Reported'
      BY <3>1, WriterUntouched
    <3>3. ReaderTypes' /\ ReaderInStep'
      BY <3>1 DEF CaptureInv, ReaderTypes, ReaderInStep, ReadsTrue, Behind, ReadBack, ChunkAt, Upto
    <3> QED BY <3>2, <3>3 DEF CaptureInv
  <2> QED BY <2>1, <2>2, <2>3, <2>4 DEF File!Next, WriterStep
<1>3. CaptureInv => CaptureIsEvidence
  BY EvidenceFollows
<1> QED BY <1>1, <1>2, <1>3, PTL DEF File!Spec
=============================================================================
