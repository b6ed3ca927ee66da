--------------------------- MODULE AsyncioProofs ---------------------------
(***************************************************************************)
(* The agreement of the asyncio transport with its server, for any number  *)
(* of clients, connection tables and rings of any size.                    *)
(***************************************************************************)
EXTENDS AsyncioTransport, FiniteSetTheorems, TLAPS

(* dict.pop(conn, None) on a table without repetitions takes that key and  *)
(* nothing else.                                                           *)
Distinct(s) == \A i, j \in 1..Len(s) : s[i] = s[j] => i = j

LEMMA RemoveFirstDistinct ==
  ASSUME NEW S, NEW s \in Seq(S), Distinct(s), NEW e
  PROVE  /\ RemoveFirst(s, e) \in Seq(S)
         /\ Distinct(RemoveFirst(s, e))
         /\ Range(RemoveFirst(s, e)) = Range(s) \ {e}
         /\ e \in Range(s) => Len(RemoveFirst(s, e)) = Len(s) - 1
<1>1. CASE ~\E i \in 1..Len(s) : s[i] = e
  <2>1. RemoveFirst(s, e) = s  BY <1>1 DEF RemoveFirst
  <2> QED BY <1>1, <2>1 DEF Range
<1>2. CASE \E i \in 1..Len(s) : s[i] = e
  <2> PICK k \in 1..Len(s) : s[k] = e  BY <1>2
  <2>1. {i \in 1..Len(s) : s[i] = e} = {k}  BY DEF Distinct
  <2>2. Min({k}) = k  BY DEF Min
  <2>3. SelectInSeq(s, LAMBDA v : v = e) = k  BY <2>1, <2>2 DEF SelectInSeq
  <2>4. RemoveFirst(s, e) = SubSeq(s, 1, k - 1) \o SubSeq(s, k + 1, Len(s))
    BY <1>2, <2>3 DEF RemoveFirst, RemoveAt
  <2> DEFINE p == SubSeq(s, 1, k - 1)
             q == SubSeq(s, k + 1, Len(s))
             r == p \o q
  <2>a. p \in Seq(S) /\ Len(p) = k - 1 /\ \A i \in 1..(k - 1) : p[i] = s[i]
    OBVIOUS
  <2>b. q \in Seq(S) /\ Len(q) = Len(s) - k /\ \A i \in 1..(Len(s) - k) : q[i] = s[i + k]
    OBVIOUS
  <2>c. r = p \o q  OBVIOUS
  <2> HIDE DEF p, q, r
  <2>5. r \in Seq(S) /\ Len(r) = Len(s) - 1
    BY <2>a, <2>b, <2>c
  <2>6. ASSUME NEW i \in 1..Len(r) PROVE r[i] = IF i < k THEN s[i] ELSE s[i + 1]
    <3>1. CASE i < k
      <4>1. r[i] = p[i]  BY <2>a, <2>b, <2>c, <3>1
      <4> QED BY <2>a, <3>1, <4>1
    <3>2. CASE ~(i < k)
      <4>1. i - (k - 1) \in 1..(Len(s) - k)  BY <2>5, <3>2
      <4>2. r[i] = q[i - (k - 1)]  BY <2>a, <2>b, <2>c, <3>2, <4>1
      <4>3. q[i - (k - 1)] = s[(i - (k - 1)) + k]  BY <2>b, <4>1
      <4> QED BY <3>2, <4>2, <4>3
    <3> QED BY <3>1, <3>2
  <2>7. Distinct(r)
    BY <2>5, <2>6 DEF Distinct
  <2>8. ASSUME NEW x \in Range(r) PROVE x \in Range(s) \ {e}
    <3> PICK i \in 1..Len(r) : r[i] = x  BY <2>5, <2>8 DEF Range
    <3> DEFINE j == IF i < k THEN i ELSE i + 1
    <3>1. j \in 1..Len(s) /\ j # k /\ s[j] = x  BY <2>5, <2>6
    <3> QED BY <3>1 DEF Range, Distinct
  <2>9. ASSUME NEW x \in Range(s) \ {e} PROVE x \in Range(r)
    <3> PICK j \in 1..Len(s) : s[j] = x  BY <2>9 DEF Range
    <3> DEFINE i == IF j < k THEN j ELSE j - 1
    <3>1. j # k  OBVIOUS
    <3>2. i \in 1..Len(r) /\ r[i] = x  BY <2>5, <2>6, <3>1
    <3> QED BY <2>5, <3>2 DEF Range
  <2>10. RemoveFirst(s, e) = r  BY <2>4 DEF p, q, r
  <2> QED BY <2>5, <2>7, <2>8, <2>9, <2>10
<1> QED BY <1>1, <1>2

(* Appending a key that is not there. *)
LEMMA AppendDistinct ==
  ASSUME NEW S, NEW s \in Seq(S), Distinct(s), NEW e \in S, e \notin Range(s)
  PROVE  /\ Append(s, e) \in Seq(S)
         /\ Distinct(Append(s, e))
         /\ Range(Append(s, e)) = Range(s) \cup {e}
         /\ Len(Append(s, e)) = Len(s) + 1
<1> DEFINE r == Append(s, e)
<1>1. r \in Seq(S) /\ Len(r) = Len(s) + 1 /\ \A i \in 1..Len(r) : r[i] = IF i <= Len(s) THEN s[i] ELSE e
  OBVIOUS
<1> HIDE DEF r
<1>2. \A i \in 1..Len(s) : s[i] # e  BY DEF Range
<1>3. Distinct(r)  BY <1>1, <1>2 DEF Distinct
<1>4. ASSUME NEW x \in Range(r) PROVE x \in Range(s) \cup {e}
  <2> PICK i \in 1..Len(r) : r[i] = x  BY <1>1, <1>4 DEF Range
  <2> QED BY <1>1 DEF Range
<1>5. ASSUME NEW x \in Range(s) \cup {e} PROVE x \in Range(r)
  <2>1. CASE x = e
    <3>1. Len(r) \in 1..Len(r) /\ r[Len(r)] = x  BY <1>1, <2>1
    <3> QED BY <1>1, <3>1 DEF Range
  <2>2. CASE x \in Range(s)
    <3> PICK i \in 1..Len(s) : s[i] = x  BY <2>2 DEF Range
    <3>1. i \in 1..Len(r) /\ r[i] = x  BY <1>1
    <3> QED BY <1>1, <3>1 DEF Range
  <2> QED BY <1>5, <2>1, <2>2
<1> QED BY <1>1, <1>3, <1>4, <1>5 DEF r

(* Contains, the code's `in`, is membership in the range. *)
LEMMA ContainsIsIn ==
  ASSUME NEW S, NEW s \in Seq(S), NEW e PROVE Contains(s, e) <=> e \in Range(s)
BY DEF Contains, Range

LEMMA ConnsFinite == IsFiniteSet(Conns)
BY AsyncioAssumption, FS_Interval DEF Conns

(* A set of connections that gains or loses one. *)
LEMMA OpenCount ==
  ASSUME NEW S \in SUBSET Conns, NEW c
  PROVE  /\ Cardinality(S) \in Nat
         /\ c \notin S => Cardinality(S \cup {c}) = Cardinality(S) + 1
         /\ c \in S => Cardinality(S \ {c}) = Cardinality(S) - 1
<1>1. IsFiniteSet(S)  BY ConnsFinite, FS_Subset
<1> QED BY <1>1, FS_CardinalityType, FS_AddElement, FS_RemoveElement

(***************************************************************************)
(* TransportAgrees made inductive.  Which coroutine may still call the     *)
(* server for its connection (Owed) ties the two tables together across    *)
(* the awaits; that a connection whose coroutine has not begun is nowhere  *)
(* yet (Unborn) lets its id be added; and that an open stream out of the   *)
(* writers' table belongs to a coroutine on its way out (Closes) is why    *)
(* stop(), which closes the streams in that table, misses no other.        *)
(***************************************************************************)
AsyncioTypes ==
  /\ task \in [Tasks -> {"none", "flush", "ended"}]
  /\ then \in [Tasks -> {"read", "resume", "return"}]
  /\ writers \in Seq(Conns) /\ Distinct(writers)
  /\ closing \in BOOLEAN /\ stopping \in {"no", "listener", "writers", "done"}
  /\ open \in SUBSET Conns
  /\ kept \in [Conns -> Nat] /\ inbox \in [Conns -> Nat]
  /\ sock \in [Conns -> {"none", "accepted", "open", "closing", "closed"}]

SameTables == ~closing => Range(writers) = open /\ Len(writers) = Cardinality(open)

Unborn ==
  \A c \in Conns : sock[c] \in {"none", "accepted"} =>
    task[c] = "none" /\ kept[c] = 0 /\ c \notin open /\ c \notin Range(writers)

Owed ==
  \A c \in Conns :
    /\ c \in open => task[c] \in {"flush", "ended"} /\ (task[c] = "ended" => closing)
    /\ c \in open /\ task[c] = "flush" => then[c] # "return"
    /\ task[c] = "flush" /\ then[c] # "return" /\ ~closing => c \in open
    /\ kept[c] > 0 => then[c] = "resume" \/ task[c] = "ended"

Closes ==
  /\ closing <=> stopping # "no"
  /\ \A c \in Conns :
       sock[c] = "open" =>
         \/ stopping \in {"no", "listener"} /\ c \in Range(writers)
         \/ stopping \in {"writers", "done"} /\ c \in late
         \/ Leaving(c)
  /\ stopping = "done" => Range(writers) \subseteq late

AgreeInv == AsyncioTypes /\ SameTables /\ Unborn /\ Owed /\ Closes

LEMMA AgreeGives == AgreeInv => TransportAgrees
BY DEF AgreeInv, TransportAgrees, AsyncioTypes, SameTables, Owed, Closes

LEMMA AgreeInit == Init => AgreeInv
<1> SUFFICES ASSUME Init PROVE AgreeInv  OBVIOUS
<1>1. Range(writers) = {} /\ Len(writers) = 0  BY DEF Init, Range
<1>a. Distinct(writers)  BY <1>1 DEF Distinct
<1>b. writers \in Seq(Conns)  BY DEF Init
<1>c. kept \in [Conns -> Nat] /\ inbox \in [Conns -> Nat]  BY DEF Init
<1>d. /\ task \in [Tasks -> {"none", "flush", "ended"}]
      /\ then \in [Tasks -> {"read", "resume", "return"}]
      /\ sock \in [Conns -> {"none", "accepted", "open", "closing", "closed"}]
      /\ closing \in BOOLEAN /\ stopping \in {"no", "listener", "writers", "done"}
      /\ open \in SUBSET Conns
  BY DEF Init
<1>2. AsyncioTypes  BY <1>a, <1>b, <1>c, <1>d DEF AsyncioTypes
<1>3. SameTables  BY <1>1, FS_EmptySet DEF Init, SameTables
<1>4. Unborn /\ Owed  BY <1>1 DEF Init, Unborn, Owed, Tasks
<1>5. Closes  BY DEF Init, Closes
<1> QED BY <1>2, <1>3, <1>4, <1>5 DEF AgreeInv

(***************************************************************************)
(* The steps, one lemma each.                                              *)
(***************************************************************************)

(* A step that touches no coroutine of a client, no table and no stream. *)
LEMMA Aside ==
  ASSUME AgreeInv,
         task' \in [Tasks -> {"none", "flush", "ended"}],
         then' \in [Tasks -> {"read", "resume", "return"}],
         \A c \in Conns : task'[c] = task[c] /\ then'[c] = then[c],
         inbox' \in [Conns -> Nat],
         UNCHANGED <<writers, closing, stopping, late, open, kept, sock>>
  PROVE  AgreeInv'
<1>1. AsyncioTypes'  BY DEF AgreeInv, AsyncioTypes
<1>2. SameTables'  BY DEF AgreeInv, SameTables
<1>3. Unborn'  BY DEF AgreeInv, Unborn
<1>4. Owed'  BY DEF AgreeInv, Owed
<1>5. Closes'  BY DEF AgreeInv, Closes, Leaving
<1> QED BY <1>1, <1>2, <1>3, <1>4, <1>5 DEF AgreeInv

LEMMA HostApart == Host \in Tasks /\ Host \notin Conns /\ Conns \subseteq Tasks
BY DEF Host, Tasks, Conns

LEMMA HostSteps ==
  ASSUME AgreeInv, Announce \/ Announced PROVE AgreeInv'
<1>1. /\ task' \in [Tasks -> {"none", "flush", "ended"}]
      /\ then' \in [Tasks -> {"read", "resume", "return"}]
  BY HostApart DEF AgreeInv, AsyncioTypes, Announce, Announced, PumpAsync
<1>2. \A c \in Conns : task'[c] = task[c] /\ then'[c] = then[c]
  BY HostApart DEF AgreeInv, AsyncioTypes, Announce, Announced, PumpAsync
<1>3. inbox' \in [Conns -> Nat] /\ UNCHANGED <<writers, closing, stopping, late, open, kept, sock>>
  BY DEF AgreeInv, AsyncioTypes, Announce, Announced, stopVars, netVars
<1> QED BY <1>1, <1>2, <1>3, Aside

(* The client's side: only the inbox, the buffer or the peer moves. *)
LEMMA PeerSteps ==
  ASSUME AgreeInv, NEW c \in Conns,
         \/ PeerReads(c)
         \/ \E n \in 1..MaxTraffic : Send(c, n)
         \/ \E p \in {"reads", "stalled", "gone"} : PeerIs(c, p)
  PROVE  AgreeInv'
<1>1. UNCHANGED <<task, then, writers, closing, stopping, late, open, kept, sock>>
  BY DEF PeerReads, Send, PeerIs, taskVars, stopVars, netVars
<1>2. inbox \in [Conns -> Nat]  BY DEF AgreeInv, AsyncioTypes
<1>3. inbox' = inbox \/ \E n \in Nat : inbox' = [inbox EXCEPT ![c] = inbox[c] + n]
  BY AsyncioAssumption DEF PeerReads, Send, PeerIs
<1>4. inbox' \in [Conns -> Nat]  BY <1>2, <1>3
<1>5. /\ task' \in [Tasks -> {"none", "flush", "ended"}]
      /\ then' \in [Tasks -> {"read", "resume", "return"}]
  BY <1>1 DEF AgreeInv, AsyncioTypes
<1> QED BY <1>1, <1>4, <1>5, Aside

(* The streams of the listener and of the system: one only is touched. *)
LEMMA SocketSteps ==
  ASSUME AgreeInv, NEW c \in Conns, Accept(c) \/ Lost(c) PROVE AgreeInv'
<1>1. UNCHANGED <<task, then, writers, closing, stopping, late, open, kept, inbox>>
  BY DEF Accept, Lost, taskVars, stopVars
<1>2. \/ sock[c] = "none" /\ sock' = [sock EXCEPT ![c] = "accepted"]
      \/ sock[c] \in {"closing", "open"} /\ sock' = [sock EXCEPT ![c] = "closed"]
  BY DEF Accept, Lost
<1>3. AsyncioTypes'  BY <1>1, <1>2 DEF AgreeInv, AsyncioTypes
<1>4. SameTables'  BY <1>1 DEF AgreeInv, SameTables
<1>5. Unborn'  BY <1>1, <1>2 DEF AgreeInv, Unborn, AsyncioTypes
<1>6. Owed'  BY <1>1 DEF AgreeInv, Owed
<1>7. Closes'  BY <1>1, <1>2 DEF AgreeInv, Leaving, Closes, Unborn, AsyncioTypes
<1> QED BY <1>3, <1>4, <1>5, <1>6, <1>7 DEF AgreeInv

(* A client's coroutine begins: its id is in no table yet. *)
LEMMA ClientBegins ==
  ASSUME AgreeInv, NEW c \in Conns, OnClient(c) PROVE AgreeInv'
<1>1. /\ sock[c] = "accepted" /\ task[c] = "none" /\ kept[c] = 0
      /\ c \notin open /\ c \notin Range(writers) /\ c \in Tasks
  BY HostApart DEF OnClient, AgreeInv, Unborn
<1>2. UNCHANGED <<closing, stopping, kept, inbox>>
  BY DEF OnClient
<1>3. CASE Cardinality(open) < max_connections
  <2>1. /\ open' = open \cup {c} /\ writers' = Append(writers, c)
        /\ sock' = [sock EXCEPT ![c] = "open"]
        /\ task' = [task EXCEPT ![c] = "flush"] /\ then' = [then EXCEPT ![c] = "read"]
        /\ late' = IF stopping \in {"writers", "done"} THEN late \cup {c} ELSE late
    BY <1>3 DEF OnClient, PumpAsync
  <2>2. /\ writers' \in Seq(Conns) /\ Distinct(writers')
        /\ Range(writers') = Range(writers) \cup {c} /\ Len(writers') = Len(writers) + 1
    BY <1>1, <2>1, AppendDistinct DEF AgreeInv, AsyncioTypes
  <2>3. open \in SUBSET Conns  BY DEF AgreeInv, AsyncioTypes
  <2>4. Cardinality(open') = Cardinality(open) + 1
    BY <1>1, <2>1, <2>3, OpenCount
  <2>5. AsyncioTypes'  BY <1>1, <1>2, <2>1, <2>2, <2>3 DEF AgreeInv, AsyncioTypes
  <2>6. SameTables'  BY <1>2, <2>1, <2>2, <2>4 DEF AgreeInv, SameTables
  <2>7. Unborn'  BY <1>1, <1>2, <2>1, <2>2, HostApart DEF AgreeInv, Unborn, AsyncioTypes
  <2>8. Owed'  BY <1>1, <1>2, <2>1, HostApart DEF AgreeInv, Owed, AsyncioTypes
  <2>9. Closes'  BY <1>1, <1>2, <2>1, <2>2 DEF AgreeInv, Leaving, Closes, AsyncioTypes
  <2> QED BY <2>5, <2>6, <2>7, <2>8, <2>9 DEF AgreeInv
<1>4. CASE ~(Cardinality(open) < max_connections)
  <2>1. /\ UNCHANGED <<open, writers, then>>
        /\ sock' = [sock EXCEPT ![c] = "closing"]
        /\ task' = [task EXCEPT ![c] = "ended"]
        /\ late' = IF stopping \in {"writers", "done"} THEN late \cup {c} ELSE late
    BY <1>4 DEF OnClient
  <2>2. AsyncioTypes'  BY <1>1, <1>2, <2>1 DEF AgreeInv, AsyncioTypes
  <2>3. SameTables'  BY <1>2, <2>1 DEF AgreeInv, SameTables
  <2>4. Unborn'  BY <1>1, <1>2, <2>1, HostApart DEF AgreeInv, Unborn, AsyncioTypes
  <2>5. Owed'  BY <1>1, <1>2, <2>1, HostApart DEF AgreeInv, Owed, AsyncioTypes
  <2>6. Closes'  BY <1>1, <1>2, <2>1 DEF AgreeInv, Leaving, Closes, AsyncioTypes
  <2> QED BY <2>2, <2>3, <2>4, <2>5, <2>6 DEF AgreeInv
<1> QED BY <1>3, <1>4

(* on_bytes and the pump: what is kept is fetched by the same coroutine. *)
LEMMA BytesRead ==
  ASSUME AgreeInv, NEW c \in Conns, Read(c) \/ ResumeBytes(c) PROVE AgreeInv'
<1>1. c \in Tasks /\ task[c] = "flush" /\ then[c] # "return"
  BY HostApart DEF Read, ResumeBytes, Flushed
<1>2. PICK n \in Nat : OnBytes(c, n)
  BY DEF Read, ResumeBytes, AgreeInv, AsyncioTypes
<1>a. inbox \in [Conns -> Nat]  BY DEF AgreeInv, AsyncioTypes
<1>b. inbox' = [inbox EXCEPT ![c] = 0] \/ inbox' = inbox  BY DEF Read, ResumeBytes
<1>3. inbox' \in [Conns -> Nat]
  BY <1>a, <1>b
<1>4. PICK k \in Nat, next \in {"read", "resume"} :
        /\ kept' = [kept EXCEPT ![c] = k] /\ then' = [then EXCEPT ![c] = next]
        /\ k > 0 => next = "resume"
  <2> DEFINE k == Retained(n - Least(n, WriteRing))
             next == AfterBytes(Least(n, WriteRing) < n)
  <2>1. WriteRing \in Nat /\ RxCapacity \in Nat  BY AsyncioAssumption
  <2>2. k \in Nat /\ (k > 0 => Least(n, WriteRing) < n)  BY <2>1 DEF Least, Retained
  <2>3. next \in {"read", "resume"} /\ (k > 0 => next = "resume")
    BY <2>2 DEF AfterBytes
  <2>4. kept' = [kept EXCEPT ![c] = k] /\ then' = [then EXCEPT ![c] = next]
    BY <1>2 DEF OnBytes, PumpAsync
  <2> HIDE DEF k, next
  <2> QED BY <2>2, <2>3, <2>4
<1>5. /\ task' = [task EXCEPT ![c] = "flush"]
      /\ UNCHANGED <<writers, closing, stopping, late, open, sock>>
  BY <1>2 DEF OnBytes, PumpAsync, stopVars, netVars
<1>6. AsyncioTypes'  BY <1>1, <1>3, <1>4, <1>5 DEF AgreeInv, AsyncioTypes
<1>7. SameTables'  BY <1>5 DEF AgreeInv, SameTables
<1>8. Unborn'  BY <1>1, <1>4, <1>5, HostApart DEF AgreeInv, Unborn, AsyncioTypes
<1>9. Owed'  BY <1>1, <1>4, <1>5, HostApart DEF AgreeInv, Owed, AsyncioTypes
<1>10. Closes'  BY <1>1, <1>4, <1>5, HostApart DEF AgreeInv, Closes, Leaving, AsyncioTypes
<1> QED BY <1>6, <1>7, <1>8, <1>9, <1>10 DEF AgreeInv

(* The finally clause takes the client out of both tables, or, once stop() *)
(* has begun, out of the writers' only, and closes its stream itself.      *)
LEMMA ClientLeaves ==
  ASSUME AgreeInv, NEW c \in Conns, Finally(c) PROVE AgreeInv'
<1>1. c \in Tasks /\ task[c] = "flush" /\ then[c] = "read"
  BY HostApart DEF Finally, Flushed
<1>a. sock[c] \notin {"none", "accepted"}
  BY <1>1 DEF AgreeInv, Unborn
<1>b. ~(kept[c] > 0) /\ kept[c] \in Nat
  BY <1>1 DEF AgreeInv, AsyncioTypes, Owed
<1>2. kept[c] = 0 /\ sock[c] \notin {"none", "accepted"}
  BY <1>a, <1>b
<1>3. /\ writers' \in Seq(Conns) /\ Distinct(writers')
      /\ Range(writers') = Range(writers) \ {c}
      /\ c \in Range(writers) => Len(writers') = Len(writers) - 1
  <2>1. writers \in Seq(Conns) /\ Distinct(writers) /\ writers' = RemoveFirst(writers, c)
    BY DEF Finally, PopWriter, AgreeInv, AsyncioTypes
  <2> QED BY <2>1, RemoveFirstDistinct
<1>4. UNCHANGED <<closing, stopping, late, inbox>>
  BY DEF Finally, stopVars
<1>5. CASE closing
  <2>1. /\ task' = [task EXCEPT ![c] = "ended"]
        /\ sock' = [sock EXCEPT ![c] = IF sock[c] = "open" THEN "closing" ELSE sock[c]]
        /\ UNCHANGED <<open, kept, then>>
    BY <1>5 DEF Finally
  <2>2. sock'[c] \in {"closing", "closed"} /\ \A d \in Conns \ {c} : sock'[d] = sock[d]
    BY <1>2, <2>1 DEF AgreeInv, AsyncioTypes
  <2>3. task'[c] = "ended" /\ \A d \in Conns \ {c} : task'[d] = task[d]
    BY <1>1, <2>1, HostApart DEF AgreeInv, AsyncioTypes
  <2>4. AsyncioTypes'  BY <1>1, <1>3, <1>4, <2>1 DEF AgreeInv, AsyncioTypes
  <2>5. SameTables'  BY <1>4, <1>5 DEF SameTables
  <2>6. Unborn'  BY <1>3, <2>1, <2>2, <2>3 DEF AgreeInv, Unborn
  <2>7. Owed'  BY <1>4, <1>5, <2>1, <2>3 DEF AgreeInv, Owed
  <2>8. Closes'  BY <1>3, <1>4, <2>1, <2>2 DEF AgreeInv, Leaving, Closes, AsyncioTypes
  <2> QED BY <2>4, <2>5, <2>6, <2>7, <2>8 DEF AgreeInv
<1>6. CASE ~closing
  <2>1. /\ task' = [task EXCEPT ![c] = "flush"] /\ then' = [then EXCEPT ![c] = "return"]
        /\ open' = open \ {c} /\ kept' = [kept EXCEPT ![c] = 0] /\ sock' = sock
    BY <1>6 DEF Finally, PumpAsync
  <2>2. c \in open /\ open \in SUBSET Conns  BY <1>1, <1>6 DEF AgreeInv, Owed, AsyncioTypes
  <2>3. Cardinality(open') = Cardinality(open) - 1  BY <2>1, <2>2, OpenCount
  <2>4. AsyncioTypes'  BY <1>1, <1>3, <1>4, <2>1 DEF AgreeInv, AsyncioTypes
  <2>5. SameTables'  BY <1>3, <1>4, <1>6, <2>1, <2>2, <2>3 DEF AgreeInv, SameTables
  <2>6. Unborn'  BY <1>1, <1>2, <1>3, <2>1, HostApart DEF AgreeInv, Unborn, AsyncioTypes
  <2>7. Owed'  BY <1>1, <1>4, <1>6, <2>1, HostApart DEF AgreeInv, Owed, AsyncioTypes
  <2>8. Closes'
    <3>1. /\ task'[c] = "flush" /\ then'[c] = "return"
          /\ \A d \in Conns \ {c} : task'[d] = task[d] /\ then'[d] = then[d]
      BY <1>1, <2>1, HostApart DEF AgreeInv, AsyncioTypes
    <3> QED BY <1>3, <1>4, <1>6, <2>1, <3>1 DEF AgreeInv, Leaving, Closes
  <2> QED BY <2>4, <2>5, <2>6, <2>7, <2>8 DEF AgreeInv
<1> QED BY <1>5, <1>6

(* The last line of _on_client: the connection is in no table by then. *)
LEMMA ClientReturns ==
  ASSUME AgreeInv, NEW c \in Conns, Return(c) PROVE AgreeInv'
<1>1. c \in Tasks /\ task[c] = "flush" /\ then[c] = "return" /\ c \notin open
  BY HostApart DEF Return, Flushed, AgreeInv, Owed
<1>2. sock[c] \notin {"none", "accepted"}
  BY <1>1 DEF AgreeInv, Unborn
<1>3. /\ task' = [task EXCEPT ![c] = "ended"]
      /\ sock' = [sock EXCEPT ![c] = IF sock[c] = "open" THEN "closing" ELSE sock[c]]
      /\ UNCHANGED <<then, writers, closing, stopping, late, open, kept, inbox>>
  BY DEF Return, stopVars
<1>4. sock'[c] \notin {"none", "accepted"} /\ \A d \in Conns \ {c} : sock'[d] = sock[d]
  BY <1>2, <1>3 DEF AgreeInv, AsyncioTypes
<1>5. task'[c] = "ended" /\ \A d \in Conns \ {c} : task'[d] = task[d]
  BY <1>1, <1>3, HostApart DEF AgreeInv, AsyncioTypes
<1>6. AsyncioTypes'  BY <1>1, <1>3 DEF AgreeInv, AsyncioTypes
<1>7. SameTables'  BY <1>3 DEF AgreeInv, SameTables
<1>8. Unborn'  BY <1>3, <1>4, <1>5 DEF AgreeInv, Unborn
<1>9. Owed'  BY <1>1, <1>3, <1>5 DEF AgreeInv, Owed
<1>10. Closes'  BY <1>1, <1>3, <1>4 DEF AgreeInv, Leaving, Closes, AsyncioTypes
<1> QED BY <1>6, <1>7, <1>8, <1>9, <1>10 DEF AgreeInv

(* stop(): every open connection's stream is in the writers' table when    *)
(* that is walked, or closed already, or its coroutine begins afterwards.  *)
LEMMA Stops ==
  ASSUME AgreeInv, Stop \/ StopStep PROVE AgreeInv'
<1>1. UNCHANGED <<task, then, late, open, kept, inbox>>
  BY DEF Stop, StopStep, StopWriters, StopAwaited, StopDone, taskVars
<1>2. CASE Stop
  <2>1. closing' = TRUE /\ stopping' = "listener" /\ stopping = "no" /\ UNCHANGED <<writers, sock>>
    BY <1>2 DEF Stop, netVars, AgreeInv, Closes
  <2>2. AsyncioTypes'  BY <1>1, <2>1 DEF AgreeInv, AsyncioTypes
  <2>3. SameTables'  BY <2>1 DEF SameTables
  <2>4. Unborn'  BY <1>1, <2>1 DEF AgreeInv, Unborn
  <2>5. Owed'  BY <1>1, <2>1 DEF AgreeInv, Owed
  <2>6. Closes'  BY <1>1, <2>1 DEF AgreeInv, Closes, Leaving
  <2> QED BY <2>2, <2>3, <2>4, <2>5, <2>6 DEF AgreeInv
<1>3. CASE StopWriters
  <2>1. /\ stopping = "listener" /\ stopping' = "writers" /\ closing /\ closing'
        /\ UNCHANGED <<writers, closing>> /\ sock' = CloseWriters
    BY <1>3 DEF StopWriters, AgreeInv, Closes
  <2>2. \A c \in Conns :
          sock'[c] = IF c \in Range(writers) /\ sock[c] = "open" THEN "closing" ELSE sock[c]
    BY <2>1, ContainsIsIn DEF CloseWriters, AgreeInv, AsyncioTypes
  <2>3. sock' \in [Conns -> {"none", "accepted", "open", "closing", "closed"}]
    BY <2>1 DEF CloseWriters, AgreeInv, AsyncioTypes
  <2>4. AsyncioTypes'  BY <1>1, <2>1, <2>3 DEF AgreeInv, AsyncioTypes
  <2>5. SameTables'  BY <2>1 DEF SameTables
  <2>6. Unborn'  BY <1>1, <2>1, <2>2 DEF AgreeInv, Unborn
  <2>7. Owed'  BY <1>1, <2>1 DEF AgreeInv, Owed
  <2>8. ASSUME NEW c \in Conns, sock'[c] = "open" PROVE Leaving(c)
    BY <2>1, <2>2, <2>8 DEF AgreeInv, Closes
  <2>9. Closes'  BY <1>1, <2>1, <2>8 DEF Closes, Leaving
  <2> QED BY <2>4, <2>5, <2>6, <2>7, <2>9 DEF AgreeInv
<1>4. CASE StopAwaited
  <2>1. UNCHANGED <<writers, closing, stopping, sock>>
    BY <1>4 DEF StopAwaited, netVars
  <2>2. /\ task' \in [Tasks -> {"none", "flush", "ended"}]
        /\ then' \in [Tasks -> {"read", "resume", "return"}] /\ inbox' \in [Conns -> Nat]
    BY <1>1 DEF AgreeInv, AsyncioTypes
  <2> QED BY <1>1, <2>1, <2>2, Aside
<1>5. CASE StopDone
  <2>1. /\ stopping = "writers" /\ stopping' = "done" /\ writers' = <<>> /\ closing /\ closing'
        /\ UNCHANGED <<closing, sock>>
    BY <1>5 DEF StopDone, netVars, AgreeInv, Closes
  <2>2. Range(writers') = {} /\ Distinct(writers') /\ writers' \in Seq(Conns)
    BY <2>1 DEF Range, Distinct
  <2>3. AsyncioTypes'  BY <1>1, <2>1, <2>2 DEF AgreeInv, AsyncioTypes
  <2>4. SameTables'  BY <2>1 DEF SameTables
  <2>5. Unborn'  BY <1>1, <2>1, <2>2 DEF AgreeInv, Unborn
  <2>6. Owed'  BY <1>1, <2>1 DEF AgreeInv, Owed
  <2>7. Closes'  BY <1>1, <2>1, <2>2 DEF AgreeInv, Closes, Leaving
  <2> QED BY <2>3, <2>4, <2>5, <2>6, <2>7 DEF AgreeInv
<1> QED BY <1>2, <1>3, <1>4, <1>5 DEF StopStep

LEMMA AgreeNext == AgreeInv /\ [Next]_vars => AgreeInv'
<1> SUFFICES ASSUME AgreeInv, [Next]_vars PROVE AgreeInv'  OBVIOUS
<1>1. CASE UNCHANGED vars
  <2>1. UNCHANGED <<task, then, writers, closing, stopping, late, open, kept, inbox, sock>>
    BY <1>1 DEF vars, taskVars, stopVars, netVars
  <2>2. /\ task' \in [Tasks -> {"none", "flush", "ended"}]
        /\ then' \in [Tasks -> {"read", "resume", "return"}] /\ inbox' \in [Conns -> Nat]
    BY <2>1 DEF AgreeInv, AsyncioTypes
  <2> QED BY <2>1, <2>2, Aside
<1>2. ASSUME NEW t \in Tasks, Step(t) PROVE AgreeInv'
  <2>1. CASE Awaited(t)
    <3>1. UNCHANGED <<task, then, writers, closing, stopping, late, open, kept, inbox, sock>>
      BY <2>1 DEF Awaited, stopVars, netVars
    <3>2. /\ task' \in [Tasks -> {"none", "flush", "ended"}]
          /\ then' \in [Tasks -> {"read", "resume", "return"}] /\ inbox' \in [Conns -> Nat]
      BY <3>1 DEF AgreeInv, AsyncioTypes
    <3> QED BY <3>1, <3>2, Aside
  <2>2. CASE t \in Conns /\ (Read(t) \/ ResumeBytes(t))  BY <2>2, BytesRead
  <2>3. CASE t \in Conns /\ Finally(t)  BY <2>3, ClientLeaves
  <2>4. CASE t \in Conns /\ Return(t)  BY <2>4, ClientReturns
  <2>5. CASE Announced  BY <2>5, HostSteps
  <2> QED BY <1>2, <2>1, <2>2, <2>3, <2>4, <2>5 DEF Step
<1>3. ASSUME NEW c \in Conns, Accept(c) \/ Lost(c) PROVE AgreeInv'  BY <1>3, SocketSteps
<1>4. ASSUME NEW c \in Conns, OnClient(c) PROVE AgreeInv'  BY <1>4, ClientBegins
<1>5. ASSUME NEW c \in Conns, NEW n \in 1..MaxTraffic, Send(c, n) PROVE AgreeInv'
  BY <1>5, PeerSteps
<1>6. ASSUME NEW c \in Conns, NEW p \in {"reads", "stalled", "gone"}, PeerIs(c, p)
      PROVE  AgreeInv'
  BY <1>6, PeerSteps
<1>7. ASSUME NEW c \in Conns, PeerReads(c) PROVE AgreeInv'  BY <1>7, PeerSteps
<1>8. CASE Announce  BY <1>8, HostSteps
<1>9. CASE Stop \/ StopStep  BY <1>9, Stops
<1> QED BY <1>1, <1>2, <1>3, <1>4, <1>5, <1>6, <1>7, <1>8, <1>9 DEF Next

(***************************************************************************)
(* The two tables name the same clients until stop(), whatever coroutines  *)
(* are suspended in between; every one of them has a coroutine that will   *)
(* fetch what the server kept; and stop() leaves no stream open but those  *)
(* of coroutines that begin after it closed them, or that are on their way *)
(* to closing their own.                                                   *)
(***************************************************************************)
THEOREM TransportAgreement == Spec => []TransportAgrees
<1>1. Spec => Init /\ [][Next]_vars  BY DEF Spec
<1>2. Spec => []AgreeInv  BY <1>1, AgreeInit, AgreeNext, PTL
<1> QED BY <1>2, AgreeGives, PTL
=============================================================================
