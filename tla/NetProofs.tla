------------------------------ MODULE NetProofs ------------------------------
(***************************************************************************)
(* The socket transport's safety, for every number of clients, table, ring *)
(* and queue sizes, and whatever the clients and the kernel do.            *)
(***************************************************************************)
EXTENDS Net, PartProofs

(***************************************************************************)
(* Types.  A free slot is a cleared one, so that what gs_net_accept finds  *)
(* in it is known.                                                         *)
(***************************************************************************)
Conn == [in_use : BOOLEAN, sock : Clients \cup {NoClient}, conn : 0..IdMax,
         want_write : BOOLEAN, resume : BOOLEAN, queue : Seq(Nat), q_offset : {0, 1}]

Write == [conn : Ids, number : Nat]

Rx == [part : {0, 1}, rest : Nat, count : Nat]

ConnsOK ==
  /\ conns \in [Slots -> Conn]
  /\ \A s \in Slots : IF conns[s].in_use
                      THEN /\ conns[s].sock \in Clients /\ conns[s].conn \in Ids
                           /\ conns[s].queue = <<>> => conns[s].q_offset = 0
                      ELSE conns[s] = FreeConn

ServerOK ==
  /\ known \subseteq Ids /\ ring \in Seq(Write) /\ Len(ring) <= WriteRing
  /\ rx \in [Ids -> Rx]

ClientsOK ==
  /\ link \in [Clients -> {"idle", "open", "fin", "reset"}]
  /\ backlog \in Seq(Clients)
  /\ up \in [Clients -> Nat] /\ down \in [Clients -> 0..SendBuffer]

CallOK ==
  /\ next_conn \in Ids /\ cur \in Slots

NetTypes == ConnsOK /\ ServerOK /\ ClientsOK /\ CallOK

(***************************************************************************)
(* Who is connected.  A client waits in the backlog or has one socket, not *)
(* both and neither twice, and is not free to connect again meanwhile.     *)
(***************************************************************************)
SocketsInv ==
  /\ \A s \in Slots : conns[s].in_use =>
       /\ link[conns[s].sock] # "idle"
       /\ \A k \in 1..Len(backlog) : backlog[k] # conns[s].sock
  /\ \A j, k \in 1..Len(backlog) : j # k => backlog[j] # backlog[k]
  /\ \A k \in 1..Len(backlog) : link[backlog[k]] # "idle"

NetInv == NetTypes /\ TablesAgree /\ SocketsInv
-----------------------------------------------------------------------------
LEMMA HalfOK ==
  ASSUME NEW n \in Nat
  PROVE  /\ n \div 2 \in Nat /\ n % 2 \in {0, 1}
         /\ n = 2 * (n \div 2) + (n % 2)
OBVIOUS

LEMMA LeastOK ==
  ASSUME NEW a \in Nat, NEW b \in Nat
  PROVE  Least(a, b) \in Nat /\ Least(a, b) <= a /\ Least(a, b) <= b
         /\ (Least(a, b) = a \/ Least(a, b) = b)
BY DEF Least

NumbersOf(w) == [k \in 1..Len(w) |-> w[k].number]

(* The numbers a rise from above lo to at most hi. *)
Follows(a, lo, hi) ==
  /\ lo + Len(a) <= hi
  /\ \A k \in 1..(Len(a) - 1) : a[k] < a[k + 1]
  /\ \A k \in 1..Len(a) : lo < a[k] /\ a[k] <= hi

(* The server's answer to a read: it queues replies to that connection     *)
(* behind what is in the ring, no more than fit, and stays in order.  Of a *)
(* read that fits behind what is kept no unit is lost.                     *)
LEMMA OnBytesOK ==
  ASSUME ServerOK, NEW id \in Ids, NEW k \in Nat, NEW res, res = on_bytes(id, k)
  PROVE  /\ res.full \in BOOLEAN /\ res.rx \in Rx
         /\ res.ring \in Seq(Write) /\ Len(res.ring) <= WriteRing
         /\ \A j \in 1..Len(res.ring) : res.ring[j].conn = id \/ \E i \in 1..Len(ring) :
                                                                  res.ring[j] = ring[i]
         /\ \E added \in Seq(Write) :
              /\ res.ring = ring \o added /\ \A j \in 1..Len(added) : added[j].conn = id
              /\ Follows(NumbersOf(added), rx[id].count, res.rx.count)
         /\ rx[id].rest + k <= RxCapacity =>
              /\ ~res.lost /\ (res.full <=> res.rx.rest > 0)
              /\ 2 * res.rx.count + res.rx.part + res.rx.rest =
                   2 * rx[id].count + rx[id].part + rx[id].rest + k
<1> DEFINE r      == rx[id]
           stuck  == r.rest = RxCapacity /\ k > 0
           n      == r.rest + (IF stuck THEN 0 ELSE k)
           free   == WriteRing - Len(ring)
           closes == IF r.part = 1 /\ n > 0 THEN 1 ELSE 0
           first  == Least(closes, free)
           begun  == n - closes
           whole  == IF r.part = 1 /\ closes = 0 THEN 0 ELSE Least(begun \div 2, free - first)
           rest   == begun - 2 * whole
           full   == rest > 0 /\ whole + first = free
           kept   == rest + (IF stuck THEN k ELSE 0)
           count  == r.count + closes + whole
           numbers == (IF first = 1 THEN <<r.count + 1>> ELSE <<>>)
                        \o [j \in 1..whole |-> r.count + closes + j]
           added  == [j \in 1..Len(numbers) |-> [conn |-> id, number |-> numbers[j]]]
<1>1. r \in Rx /\ r.rest \in Nat /\ r.part \in {0, 1} /\ r.count \in Nat
  BY DEF ServerOK, Rx
<1>2. n \in Nat /\ free \in Nat
  BY <1>1, WriteAssumption DEF ServerOK
<1>3. closes \in {0, 1} /\ closes <= n
  BY <1>2
<1>4. res.full = full /\ res.ring = ring \o added
      /\ res.rx = [count |-> count, rest |-> IF full /\ kept <= RxCapacity THEN kept ELSE 0,
                   part |-> IF full THEN 0 ELSE IF closes = 0 /\ r.part = 1 THEN 1 ELSE rest]
  BY DEF on_bytes
<1> HIDE DEF r, n, free, closes
<1>5. first \in {0, 1} /\ first <= free /\ begun \in Nat
  <2>1. closes \in Nat /\ closes <= 1
    BY <1>3
  <2>2. first \in Nat /\ first <= closes /\ first <= free
    BY <1>2, <2>1, LeastOK
  <2> HIDE DEF first
  <2>3. first \in {0, 1}
    BY <2>1, <2>2
  <2>4. begun \in Nat
    BY <1>2, <1>3
  <2> QED BY <2>2, <2>3, <2>4
<1> HIDE DEF first, begun
<1>6. begun \div 2 \in Nat /\ begun % 2 \in {0, 1} /\ begun = 2 * (begun \div 2) + (begun % 2)
  BY <1>5, HalfOK
<1>7. /\ whole \in Nat /\ whole <= free - first /\ rest \in Nat
      /\ \/ r.part = 1 /\ closes = 0
         \/ rest \in {0, 1}
         \/ whole + first = free
  <2> DEFINE h == begun \div 2
             q == begun % 2
  <2>1. h \in Nat /\ q \in {0, 1} /\ begun = 2 * h + q
    BY <1>6
  <2> HIDE DEF h, q
  <2>2. CASE r.part = 1 /\ closes = 0
    <3>1. whole = 0
      BY <2>2
    <3> QED BY <1>2, <1>5, <2>2, <3>1
  <2>3. CASE ~(r.part = 1 /\ closes = 0)
    <3>1. whole = Least(h, free - first)
      BY <2>3 DEF h
    <3>2. free - first \in Nat
      BY <1>2, <1>5
    <3>3. whole \in Nat /\ whole <= h /\ whole <= free - first
          /\ (whole = h \/ whole = free - first)
      BY <2>1, <3>1, <3>2, LeastOK
    <3> HIDE DEF whole
    <3> QED BY <1>2, <1>5, <2>1, <3>3
  <2> QED BY <2>2, <2>3
<1> HIDE DEF whole
<1>8. full \in BOOLEAN
  OBVIOUS
<1>9. res.rx \in Rx
  <2>1. count \in Nat
    BY <1>1, <1>3, <1>7
  <2>2. kept \in Nat
    BY <1>7
  <2>3. ~full => (closes = 0 /\ r.part = 1) \/ rest \in {0, 1}
    BY <1>7
  <2> HIDE DEF count, kept, full, rest
  <2> QED BY <1>4, <2>1, <2>2, <2>3 DEF Rx
<1>10. numbers \in Seq(Nat) /\ Len(numbers) = first + whole
  <2> DEFINE one == IF first = 1 THEN <<r.count + 1>> ELSE <<>>
             more == [j \in 1..whole |-> r.count + closes + j]
  <2>1. one \in Seq(Nat) /\ Len(one) = first
    BY <1>1, <1>5
  <2>2. more \in [1..whole -> Nat]
    BY <1>1, <1>3, <1>7
  <2>3. more \in Seq(Nat) /\ Len(more) = whole
    BY <1>7, <2>2, FunIsSeq
  <2> HIDE DEF one, more
  <2>4. one \o more \in Seq(Nat) /\ Len(one \o more) = first + whole
    BY <2>1, <2>3, ConcatProperties
  <2> QED BY <2>4 DEF one, more
<1> HIDE DEF numbers
<1>11. added \in Seq(Write) /\ Len(added) = first + whole /\ \A j \in 1..Len(added) : added[j].conn = id
  <2>1. added \in [1..Len(numbers) -> Write] /\ \A j \in 1..Len(numbers) : added[j].conn = id
    BY <1>10 DEF Write
  <2>2. Len(numbers) \in Nat
    BY <1>10
  <2> HIDE DEF added
  <2> QED BY <1>10, <2>1, <2>2, FunIsSeq
<1> HIDE DEF added
<1>12. ring \in Seq(Write) /\ Len(ring) <= WriteRing /\ Len(ring) \in Nat
  BY DEF ServerOK
<1>13. /\ ring \o added \in Seq(Write) /\ Len(ring \o added) = Len(ring) + (first + whole)
       /\ \A j \in 1..Len(ring \o added) : (ring \o added)[j] =
             IF j <= Len(ring) THEN ring[j] ELSE added[j - Len(ring)]
  <2>1. /\ ring \o added \in Seq(Write) /\ Len(ring \o added) = Len(ring) + Len(added)
        /\ \A j \in 1..(Len(ring) + Len(added)) : (ring \o added)[j] =
              IF j <= Len(ring) THEN ring[j] ELSE added[j - Len(ring)]
    BY <1>11, <1>12, ConcatProperties, SMTT(30)
  <2> QED BY <1>11, <2>1
<1>14. Len(ring \o added) <= WriteRing
  BY <1>5, <1>7, <1>12, <1>13, WriteAssumption DEF free
<1>15. ASSUME NEW j \in 1..Len(res.ring)
       PROVE  res.ring[j].conn = id \/ \E i \in 1..Len(ring) : res.ring[j] = ring[i]
  <2>1. CASE j <= Len(ring)
    BY <1>4, <1>12, <1>13, <2>1
  <2>2. CASE ~(j <= Len(ring))
    <3>1. j - Len(ring) \in 1..Len(added)
      BY <1>4, <1>5, <1>7, <1>11, <1>12, <1>13, <2>2
    <3> QED BY <1>4, <1>11, <1>13, <2>2, <3>1
  <2> QED BY <2>1, <2>2
<1>16. NumbersOf(added) = numbers /\ Follows(numbers, r.count, count)
  <2>1. NumbersOf(added) = numbers
    <3>1. Len(added) = Len(numbers) /\ Len(numbers) \in Nat
      BY <1>10, <1>11
    <3>2. \A j \in 1..Len(numbers) : added[j].number = numbers[j]
      BY DEF added
    <3>3. numbers = [j \in 1..Len(numbers) |-> numbers[j]]
      BY <1>10, LenProperties
    <3> QED BY <3>1, <3>2, <3>3 DEF NumbersOf
  <2>2. first <= closes
    <3>1. closes \in Nat
      BY <1>3
    <3> QED BY <1>2, <3>1, LeastOK DEF first
  <2>3. ASSUME NEW j \in 1..Len(numbers)
        PROVE  numbers[j] = IF j <= first THEN r.count + 1 ELSE r.count + closes + (j - first)
    <3> DEFINE one == IF first = 1 THEN <<r.count + 1>> ELSE <<>>
               more == [i \in 1..whole |-> r.count + closes + i]
    <3>1. one \in Seq(Nat) /\ Len(one) = first /\ (first = 1 => one[1] = r.count + 1)
      BY <1>1, <1>5
    <3>2. more \in [1..whole -> Nat] /\ \A i \in 1..whole : more[i] = r.count + closes + i
      BY <1>1, <1>3, <1>7
    <3>3. more \in Seq(Nat) /\ Len(more) = whole
      BY <1>7, <3>2, FunIsSeq
    <3>4. numbers = one \o more
      BY DEF numbers
    <3> HIDE DEF one, more
    <3>5. \A i \in 1..(Len(one) + Len(more)) :
            (one \o more)[i] = IF i <= Len(one) THEN one[i] ELSE more[i - Len(one)]
      BY <3>1, <3>3, ConcatProperties
    <3>6. j \in 1..(first + whole)
      BY <1>10
    <3>7. CASE j <= first
      <4>1. j = 1 /\ first = 1
        BY <1>5, <3>6, <3>7
      <4> QED BY <3>1, <3>3, <3>4, <3>5, <3>6, <3>7, <4>1
    <3>8. CASE ~(j <= first)
      <4>1. j - first \in 1..whole
        BY <1>5, <1>7, <3>6, <3>8
      <4> QED BY <3>1, <3>2, <3>3, <3>4, <3>5, <3>6, <3>8, <4>1
    <3> QED BY <3>7, <3>8
  <2>4. r.count + Len(numbers) <= count
    BY <1>1, <1>3, <1>5, <1>7, <1>10, <2>2
  <2>5. ASSUME NEW j \in 1..Len(numbers) PROVE r.count < numbers[j] /\ numbers[j] <= count
    <3>1. j \in 1..(first + whole)
      BY <1>10
    <3> QED BY <1>1, <1>3, <1>5, <1>7, <2>2, <2>3, <3>1
  <2>6. ASSUME NEW j \in 1..(Len(numbers) - 1) PROVE numbers[j] < numbers[j + 1]
    <3>1. j \in 1..(first + whole) /\ j + 1 \in 1..(first + whole)
      BY <1>5, <1>7, <1>10
    <3>2. /\ numbers[j] = IF j <= first THEN r.count + 1 ELSE r.count + closes + (j - first)
          /\ numbers[j + 1] = IF j + 1 <= first THEN r.count + 1
                                               ELSE r.count + closes + ((j + 1) - first)
      BY <1>10, <2>3, <3>1
    <3> QED BY <1>1, <1>3, <1>5, <1>7, <2>2, <3>1, <3>2
  <2> QED BY <2>1, <2>4, <2>5, <2>6 DEF Follows
<1>17. \E a \in Seq(Write) :
         /\ res.ring = ring \o a /\ \A j \in 1..Len(a) : a[j].conn = id
         /\ Follows(NumbersOf(a), rx[id].count, res.rx.count)
  <2>1. res.rx.count = count
    BY <1>4
  <2> QED BY <1>4, <1>11, <1>16, <2>1 DEF r
<1>18. ASSUME rx[id].rest + k <= RxCapacity
       PROVE  /\ ~res.lost /\ (res.full <=> res.rx.rest > 0)
              /\ 2 * res.rx.count + res.rx.part + res.rx.rest =
                   2 * rx[id].count + rx[id].part + rx[id].rest + k
  <2>1. ~stuck /\ n = r.rest + k /\ n <= RxCapacity
    BY <1>1, <1>18, NetAssumption DEF n, r
  <2>2. kept = rest
    BY <1>7, <2>1
  <2>3. rest <= RxCapacity
    BY <1>2, <1>3, <1>7, <2>1, NetAssumption DEF begun
  <2>4. res.lost = IF full THEN kept > RxCapacity ELSE stuck
    BY DEF on_bytes, r, n, free, closes, first, begun, whole
  <2>5. ~res.lost
    <3>1. CASE full
      <4>1. ~(kept > RxCapacity)
        BY <1>7, <2>2, <2>3, NetAssumption
      <4> HIDE DEF kept, full
      <4> QED BY <2>4, <3>1, <4>1
    <3>2. CASE ~full
      <4> HIDE DEF kept, full, stuck
      <4> QED BY <2>1, <2>4, <3>2
    <3> QED BY <3>1, <3>2
  <2>6. /\ res.rx.count = count /\ res.rx.rest = IF full /\ kept <= RxCapacity THEN kept ELSE 0
        /\ res.rx.part = IF full THEN 0 ELSE IF closes = 0 /\ r.part = 1 THEN 1 ELSE rest
    BY <1>4
  <2>7. res.full <=> res.rx.rest > 0
    <3>1. full => rest > 0
      OBVIOUS
    <3> HIDE DEF full, kept, rest
    <3> QED BY <1>4, <1>7, <1>8, <2>2, <2>3, <2>6, <3>1
  <2>8. r.part = 1 /\ n > 0 <=> closes = 1
    BY DEF closes
  <2>9. rest > 0 \/ closes = 1 => n > 0
    BY <1>2, <1>3, <1>7, <2>8 DEF begun
  <2>10. /\ rest = n - closes - 2 * whole /\ count = r.count + closes + whole
         /\ r.part = 1 /\ closes = 0 => whole = 0 /\ n = 0
    BY <1>2, <1>3, <2>8 DEF begun, whole
  <2>11. full => rest > 0
    OBVIOUS
  <2> HIDE DEF full, kept, rest, count
  <2>12. 2 * res.rx.count + res.rx.part + res.rx.rest =
           2 * rx[id].count + rx[id].part + rx[id].rest + k
    <3>1. CASE full
      <4>1. res.rx.rest = rest /\ res.rx.part = 0 /\ closes = r.part
        BY <1>1, <1>3, <1>7, <2>2, <2>3, <2>6, <2>8, <2>9, <2>11, <3>1
      <4> QED BY <1>1, <1>2, <1>3, <1>7, <2>1, <2>6, <2>10, <4>1 DEF r
    <3>2. CASE ~full /\ closes = 0 /\ r.part = 1
      <4>1. res.rx.rest = 0 /\ res.rx.part = 1
        BY <2>6, <3>2
      <4> QED BY <1>1, <1>2, <1>3, <1>7, <2>1, <2>6, <2>10, <3>2, <4>1 DEF r
    <3>3. CASE ~full /\ ~(closes = 0 /\ r.part = 1)
      <4>1. res.rx.rest = 0 /\ res.rx.part = rest /\ closes = r.part
        BY <1>1, <1>3, <2>6, <2>8, <3>3
      <4> QED BY <1>1, <1>2, <1>3, <1>7, <2>1, <2>6, <2>10, <4>1 DEF r
    <3> QED BY <3>1, <3>2, <3>3
  <2> QED BY <2>5, <2>7, <2>12
<1> QED BY <1>4, <1>8, <1>9, <1>13, <1>14, <1>15, <1>17, <1>18
-----------------------------------------------------------------------------
(* What the steps of a call leave alone: the same connections in the same  *)
(* slots, and writes for nobody else.                                      *)
Alike(cs) ==
  /\ cs \in [Slots -> Conn]
  /\ \A s \in Slots :
       /\ cs[s].in_use <=> conns[s].in_use
       /\ cs[s].sock = conns[s].sock /\ cs[s].conn = conns[s].conn
       /\ IF cs[s].in_use THEN cs[s].queue = <<>> => cs[s].q_offset = 0 ELSE cs[s] = FreeConn

Addressed(rg) ==
  /\ rg \in Seq(Write) /\ Len(rg) <= WriteRing
  /\ \A k \in 1..Len(rg) : rg[k].conn \in known

(* Everything but the program counter of the call. *)
Steady == ConnsOK /\ ServerOK /\ ClientsOK /\ TablesAgree /\ SocketsInv

LEMMA AlikeNow ==
  ASSUME Steady PROVE Alike(conns) /\ Addressed(ring)
BY DEF Steady, ConnsOK, ServerOK, TablesAgree, Alike, Addressed

(* The tables by name: ids and sockets are one per slot in use. *)
LEMMA Tables ==
  ASSUME Steady
  PROVE  /\ \A i : i \in known <=> \E s \in Slots : conns[s].in_use /\ conns[s].conn = i
         /\ \A s, t \in Slots : conns[s].in_use /\ conns[t].in_use /\ s # t =>
              conns[s].conn # conns[t].conn /\ conns[s].sock # conns[t].sock
BY DEF Steady, TablesAgree

(* A step that changes no socket. *)
LEMMA SameTables ==
  ASSUME Steady, Alike(conns'), known' = known, Addressed(ring'), rx' \in [Ids -> Rx],
         ClientsOK', backlog' = backlog, \A c \in Clients : link[c] # "idle" => link'[c] # "idle"
  PROVE  Steady'
<1>1. ConnsOK'
  BY DEF ConnsOK, Alike, Steady
<1>2. ServerOK'
  BY DEF ServerOK, Addressed, Steady
<1>3. TablesAgree'
  <2>1. /\ \A i : i \in known' <=> \E s \in Slots : conns'[s].in_use /\ conns'[s].conn = i
        /\ \A s, t \in Slots : conns'[s].in_use /\ conns'[t].in_use /\ s # t =>
              conns'[s].conn # conns'[t].conn /\ conns'[s].sock # conns'[t].sock
    BY Tables DEF Alike
  <2> QED BY <2>1 DEF TablesAgree, Addressed
<1>4. SocketsInv'
  <2>1. ASSUME NEW s \in Slots, conns'[s].in_use
        PROVE  /\ link'[conns'[s].sock] # "idle"
               /\ \A k \in 1..Len(backlog') : backlog'[k] # conns'[s].sock
    <3>1. conns[s].in_use /\ conns'[s].sock = conns[s].sock
      BY <2>1 DEF Alike
    <3>2. conns[s].sock \in Clients
      BY <3>1 DEF Steady, ConnsOK
    <3> QED BY <3>1, <3>2 DEF Steady, SocketsInv
  <2>2. \A k \in 1..Len(backlog) : backlog[k] \in Clients
    BY DEF Steady, ClientsOK
  <2>3. \A k \in 1..Len(backlog') : link'[backlog'[k]] # "idle"
    BY <2>2 DEF Steady, SocketsInv
  <2>4. \A j, k \in 1..Len(backlog') : j # k => backlog'[j] # backlog'[k]
    BY DEF Steady, SocketsInv
  <2> QED BY <2>1, <2>3, <2>4 DEF SocketsInv
<1> QED BY <1>1, <1>2, <1>3, <1>4 DEF Steady

LEMMA FreeIsConn == FreeConn \in Conn /\ ~FreeConn.in_use /\ FreeConn.queue = <<>> /\ FreeConn.q_offset = 0
BY NetAssumption DEF FreeConn, Conn

(* gs_net_drop takes the connection out of both tables, and its writes. *)
LEMMA DropOK ==
  ASSUME Steady, NEW cs, Alike(cs), NEW rg, Addressed(rg), NEW s \in Slots, conns[s].in_use,
         gs_net_drop(s, cs, rg), backlog' = backlog
  PROVE  Steady'
<1> DEFINE c  == conns[s].sock
           id == conns[s].conn
<1>1. c \in Clients /\ id \in Ids
  BY DEF Steady, ConnsOK
<1>2. cs[s].sock = c /\ cs[s].conn = id /\ cs \in [Slots -> Conn]
  BY DEF Alike
<1>3. /\ known' = known \ {id} /\ ring' = drop_writes_for(rg, id)
      /\ rx' = [rx EXCEPT ![id] = NewRx] /\ conns' = [cs EXCEPT ![s] = FreeConn]
      /\ link' = [link EXCEPT ![c] = "idle"]
      /\ up' = [up EXCEPT ![c] = 0] /\ down' = [down EXCEPT ![c] = 0]
  BY <1>2 DEF gs_net_drop
<1> HIDE DEF c, id
<1>4. FreeConn \in Conn /\ ~FreeConn.in_use
  BY FreeIsConn
<1>5. /\ conns' \in [Slots -> Conn] /\ conns'[s] = FreeConn
      /\ \A t \in Slots \ {s} : conns'[t] = cs[t]
  BY <1>2, <1>3, <1>4
<1>6. \A t \in Slots : conns'[t].in_use =>
        /\ t # s /\ conns[t].in_use /\ conns'[t].sock = conns[t].sock
        /\ conns'[t].conn = conns[t].conn
        /\ conns'[t].queue = <<>> => conns'[t].q_offset = 0
  BY <1>4, <1>5 DEF Alike
<1>7. \A t \in Slots : ~conns'[t].in_use => conns'[t] = FreeConn
  BY <1>5 DEF Alike
<1>8. \A t \in Slots \ {s} : conns[t].in_use =>
        conns'[t].in_use /\ conns'[t].conn = conns[t].conn /\ conns[t].conn # id /\ conns[t].sock # c
  BY <1>5, Tables DEF Alike, c, id
<1>9. ConnsOK'
  <2>1. \A t \in Slots : conns[t].in_use => conns[t].sock \in Clients /\ conns[t].conn \in Ids
    BY DEF Steady, ConnsOK
  <2> QED BY <1>5, <1>6, <1>7, <2>1 DEF ConnsOK
<1>10. /\ ring' \in Seq(Write) /\ Len(ring') <= Len(rg)
       /\ \A k \in 1..Len(ring') : \E j \in 1..Len(rg) : ring'[k] = rg[j] /\ rg[j].conn # id
  BY <1>3, DropWritesFor DEF Addressed
<1>11. ServerOK'
  <2>1. NewRx \in Rx
    BY DEF NewRx, Rx
  <2>2. rx' \in [Ids -> Rx] /\ known' \subseteq Ids
    BY <1>1, <1>3, <2>1 DEF Steady, ServerOK
  <2>3. Len(ring') <= WriteRing
    BY <1>10, WriteAssumption DEF Addressed
  <2> QED BY <1>10, <2>2, <2>3 DEF ServerOK
<1>12. ClientsOK'
  BY <1>1, <1>3, NetAssumption DEF Steady, ClientsOK
<1>13. TablesAgree'
  <2>1. \A k \in 1..Len(ring') : ring'[k].conn \in known'
    BY <1>3, <1>10 DEF Addressed
  <2>2. \A i : i \in known' <=> \E t \in Slots : conns'[t].in_use /\ conns'[t].conn = i
    BY <1>3, <1>6, <1>8, Tables DEF id
  <2>3. \A u, t \in Slots : conns'[u].in_use /\ conns'[t].in_use /\ u # t =>
              conns'[u].conn # conns'[t].conn /\ conns'[u].sock # conns'[t].sock
    BY <1>6, Tables
  <2> QED BY <2>1, <2>2, <2>3 DEF TablesAgree
<1>14. SocketsInv'
  <2>1. \A t \in Clients : t # c => link'[t] = link[t]
    BY <1>1, <1>3 DEF Steady, ClientsOK
  <2>2. \A k \in 1..Len(backlog) : backlog[k] \in Clients /\ backlog[k] # c
    BY DEF Steady, SocketsInv, ClientsOK, c
  <2>3. ASSUME NEW t \in Slots, conns'[t].in_use
        PROVE  /\ link'[conns'[t].sock] # "idle"
               /\ \A k \in 1..Len(backlog') : backlog'[k] # conns'[t].sock
    <3>1. conns[t].in_use /\ conns'[t].sock = conns[t].sock /\ conns[t].sock # c
      BY <1>6, <1>8, <2>3
    <3>2. conns[t].sock \in Clients
      BY <3>1 DEF Steady, ConnsOK
    <3> QED BY <2>1, <3>1, <3>2 DEF Steady, SocketsInv
  <2> QED BY <2>1, <2>2, <2>3 DEF Steady, SocketsInv
<1> QED BY <1>9, <1>11, <1>12, <1>13, <1>14 DEF Steady

(* A queue after a send: what is left of it, and a reply cut in half stays *)
(* at its head.                                                            *)
LEMMA QueueAfterSend ==
  ASSUME NEW q \in Seq(Nat), NEW off \in {0, 1}, q = <<>> => off = 0,
         NEW room \in Nat
  PROVE  LET left == 2 * Len(q) - off
             sent == Least(left, room)
             gone == whole_sent(off + sent)
         IN
         /\ left \in Nat /\ sent \in Nat /\ sent <= room /\ gone \in 0..Len(q)
         /\ offset_after(off + sent) \in {0, 1} /\ off + sent = 2 * gone + offset_after(off + sent)
         /\ SubSeq(q, gone + 1, Len(q)) \in Seq(Nat)
         /\ Len(SubSeq(q, gone + 1, Len(q))) = Len(q) - gone
         /\ SubSeq(q, gone + 1, Len(q)) = <<>> => offset_after(off + sent) = 0
<1> DEFINE left == 2 * Len(q) - off
           sent == Least(left, room)
           gone == whole_sent(off + sent)
<1>1. Len(q) \in Nat /\ (Len(q) = 0 => off = 0)
  BY EmptySeq
<1>2. left \in Nat
  BY <1>1
<1> HIDE DEF left
<1>3. sent \in Nat /\ sent <= room /\ sent <= left
  BY <1>2, LeastOK
<1> HIDE DEF sent
<1>4. off + sent \in Nat /\ off + sent <= 2 * Len(q)
  BY <1>1, <1>3 DEF left
<1> DEFINE r == offset_after(off + sent)
<1>5. gone \in Nat /\ r \in {0, 1} /\ off + sent = 2 * gone + r
  BY <1>4, HalfOK DEF whole_sent, offset_after
<1> HIDE DEF r, gone
<1>6. gone \in 0..Len(q) /\ (r = 1 => gone < Len(q))
  BY <1>1, <1>4, <1>5
<1> DEFINE t == SubSeq(q, gone + 1, Len(q))
<1>7. t \in Seq(Nat) /\ Len(t) = Len(q) - gone
  BY <1>6, SubSeqProperties
<1> HIDE DEF t
<1>8. t = <<>> => r = 0
  <2>1. t = <<>> => Len(t) = 0
    OBVIOUS
  <2> QED BY <1>1, <1>5, <1>6, <1>7, <2>1
<1> QED BY <1>2, <1>3, <1>5, <1>6, <1>7, <1>8 DEF r, t, gone, sent, left

LEMMA FlushOK ==
  ASSUME Steady, NEW cs, Alike(cs), NEW rg, Addressed(rg), NEW s \in Slots, conns[s].in_use,
         gs_net_flush(s, cs, rg), backlog' = backlog
  PROVE  Steady'
<1> DEFINE c    == cs[s].sock
           q    == cs[s].queue
           off  == cs[s].q_offset
           room == SendBuffer - down[c]
           left == 2 * Len(q) - off
           sent == Least(left, room)
           gone == whole_sent(off + sent)
           rest == SubSeq(q, gone + 1, Len(q))
           at   == offset_after(off + sent)
           wait == blocked(sent, left)
<1>1. /\ cs \in [Slots -> Conn] /\ cs[s] \in Conn /\ c = conns[s].sock /\ cs[s].in_use
      /\ q = <<>> => off = 0
  BY DEF Alike
<1>2. c \in Clients
  BY <1>1 DEF Steady, ConnsOK
<1>3. q \in Seq(Nat) /\ off \in {0, 1} /\ room \in Nat /\ down[c] \in Nat
  BY <1>1, <1>2, NetAssumption DEF Steady, ClientsOK, Conn
<1>4. CASE left > 0 /\ link[c] = "reset"
  <2>1. gs_net_drop(s, cs, rg)
    BY <1>4 DEF gs_net_flush
  <2> QED BY <2>1, DropOK
<1>5. CASE ~(left > 0 /\ link[c] = "reset")
  <2>1. /\ conns' = [cs EXCEPT ![s].queue = rest, ![s].q_offset = at, ![s].want_write = wait]
        /\ down' = [down EXCEPT ![c] = @ + sent]
        /\ ring' = rg /\ known' = known /\ rx' = rx /\ link' = link /\ up' = up
    BY <1>5 DEF gs_net_flush
  <2>2. /\ sent \in Nat /\ sent <= room /\ at \in {0, 1} /\ wait \in BOOLEAN
        /\ rest \in Seq(Nat)
        /\ rest = <<>> => at = 0
    <3>2. wait \in BOOLEAN
      BY DEF blocked
    <3> HIDE DEF c, q, off, room
    <3>3. /\ sent \in Nat /\ sent <= room /\ at \in {0, 1} /\ rest \in Seq(Nat)
          /\ rest = <<>> => at = 0
      <4>1. q \in Seq(Nat) /\ off \in {0, 1} /\ (q = <<>> => off = 0) /\ room \in Nat
        BY <1>1, <1>3
      <4> QED BY <4>1, QueueAfterSend, Zenon
    <3> QED BY <3>2, <3>3
  <2> HIDE DEF c, q, off, room, left, sent, gone, rest, at, wait
  <2>3. /\ conns' \in [Slots -> Conn]
        /\ \A t \in Slots \ {s} : conns'[t] = cs[t]
        /\ conns'[s].in_use = cs[s].in_use /\ conns'[s].sock = cs[s].sock
        /\ conns'[s].conn = cs[s].conn /\ conns'[s].queue = rest /\ conns'[s].q_offset = at
    BY <1>1, <2>1, <2>2 DEF Conn
  <2>4. Alike(conns')
    <3>1. \A t \in Slots \ {s} :
            /\ conns'[t].in_use <=> conns[t].in_use
            /\ conns'[t].sock = conns[t].sock /\ conns'[t].conn = conns[t].conn
            /\ IF conns'[t].in_use THEN conns'[t].queue = <<>> => conns'[t].q_offset = 0
                                   ELSE conns'[t] = FreeConn
      BY <2>3 DEF Alike
    <3>2. /\ conns'[s].in_use <=> conns[s].in_use
          /\ conns'[s].in_use /\ conns'[s].sock = conns[s].sock /\ conns'[s].conn = conns[s].conn
          /\ conns'[s].queue = <<>> => conns'[s].q_offset = 0
      BY <1>1, <2>2, <2>3 DEF Alike
    <3> QED BY <2>3, <3>1, <3>2 DEF Alike
  <2>5. down' \in [Clients -> 0..SendBuffer]
    <3>1. down[c] + sent \in 0..SendBuffer
      BY <1>3, <2>2, NetAssumption DEF room
    <3> QED BY <1>2, <2>1, <3>1 DEF Steady, ClientsOK
  <2>6. ClientsOK'
    BY <2>1, <2>5 DEF Steady, ClientsOK
  <2>7. rx' \in [Ids -> Rx]
    BY <2>1 DEF Steady, ServerOK
  <2> QED BY <2>1, <2>4, <2>6, <2>7, SameTables
<1> QED BY <1>4, <1>5

(* The server's answer to an offer. *)
LEMMA OfferOK ==
  ASSUME Steady, NEW id \in known, NEW k \in Nat, NEW res, res = on_bytes(id, k)
  PROVE  Addressed(res.ring) /\ [rx EXCEPT ![id] = res.rx] \in [Ids -> Rx] /\ res.full \in BOOLEAN
<1>1. ServerOK /\ id \in Ids
  BY DEF Steady, ServerOK
<1>2. /\ res.full \in BOOLEAN /\ res.rx \in Rx
      /\ res.ring \in Seq(Write) /\ Len(res.ring) <= WriteRing
      /\ \A j \in 1..Len(res.ring) : res.ring[j].conn = id \/ \E i \in 1..Len(ring) :
                                                               res.ring[j] = ring[i]
  BY <1>1, OnBytesOK
<1>3. Addressed(ring)
  BY AlikeNow
<1> QED BY <1>1, <1>2, <1>3 DEF Addressed, ServerOK

LEMMA OfferSteady ==
  ASSUME Steady, NEW s \in Slots, conns[s].in_use, NEW k \in Nat,
         NEW res, res = on_bytes(conns[s].conn, k),
         ring' = res.ring, rx' = [rx EXCEPT ![conns[s].conn] = res.rx],
         conns' = conns \/ conns' = [conns EXCEPT ![s].resume = res.full],
         UNCHANGED <<known, link, down, backlog>>, up' \in [Clients -> Nat]
  PROVE  Steady'
<1>1. conns[s].conn \in known
  BY Tables
<1>2. Addressed(ring') /\ rx' \in [Ids -> Rx] /\ res.full \in BOOLEAN
  BY <1>1, OfferOK
<1>3. Alike(conns)
  BY AlikeNow
<1>4. Alike(conns')
  <2>1. CASE conns' = conns
    BY <1>3, <2>1
  <2>2. CASE conns' = [conns EXCEPT ![s].resume = res.full]
    <3>1. conns \in [Slots -> Conn] /\ conns[s] \in Conn
      BY <1>3 DEF Alike
    <3> DEFINE full == res.full
    <3>2. full \in BOOLEAN /\ conns' = [conns EXCEPT ![s].resume = full]
      BY <1>2, <2>2
    <3> HIDE DEF full
    <3>3. /\ conns' \in [Slots -> Conn]
          /\ \A t \in Slots \ {s} : conns'[t] = conns[t]
          /\ conns'[s].in_use = conns[s].in_use /\ conns'[s].sock = conns[s].sock
          /\ conns'[s].conn = conns[s].conn /\ conns'[s].queue = conns[s].queue
          /\ conns'[s].q_offset = conns[s].q_offset
      BY <3>1, <3>2 DEF Conn
    <3>4. \A t \in Slots \ {s} :
            /\ conns'[t].in_use <=> conns[t].in_use
            /\ conns'[t].sock = conns[t].sock /\ conns'[t].conn = conns[t].conn
            /\ IF conns'[t].in_use THEN conns'[t].queue = <<>> => conns'[t].q_offset = 0
                                   ELSE conns'[t] = FreeConn
      BY <1>3, <3>3 DEF Alike
    <3>5. /\ conns'[s].in_use <=> conns[s].in_use
          /\ conns'[s].in_use /\ conns'[s].sock = conns[s].sock /\ conns'[s].conn = conns[s].conn
          /\ conns'[s].queue = <<>> => conns'[s].q_offset = 0
      BY <1>3, <3>3 DEF Alike
    <3> QED BY <3>3, <3>4, <3>5 DEF Alike
  <2> QED BY <2>1, <2>2
<1>5. ClientsOK'
  BY DEF Steady, ClientsOK
<1> QED BY <1>2, <1>4, <1>5, SameTables

(* The tables alone, when no connection and no ring changes. *)
LEMMA OnlyClients ==
  ASSUME Steady, UNCHANGED <<conns, known, ring, rx, backlog>>, ClientsOK',
         \A c \in Clients : link[c] # "idle" => link'[c] # "idle"
  PROVE  Steady'
<1>1. Alike(conns') /\ Addressed(ring')
  BY AlikeNow
<1>2. rx' \in [Ids -> Rx]
  BY DEF Steady, ServerOK
<1> QED BY <1>1, <1>2, SameTables

LEMMA NothingMoved ==
  ASSUME Steady, UNCHANGED <<conns, known, ring, rx, link, up, down, backlog>>
  PROVE  Steady'
<1>1. ClientsOK'
  BY DEF Steady, ClientsOK
<1> QED BY <1>1, OnlyClients

(* gs_net_accept: the first in the backlog leaves it, for a slot or for    *)
(* nothing.                                                                *)
LEMMA AcceptOK ==
  ASSUME Steady, next_conn \in Ids, AcceptOne PROVE Steady' /\ next_conn' \in Ids
<1> DEFINE c    == Head(backlog)
           open == {s \in Slots : ~conns[s].in_use}
           slot == CHOOSE s \in open : \A t \in open : s <= t
<1>1. PICK watchable \in BOOLEAN :
      LET ok == watchable /\ open # {} /\ Accepts(next_conn) IN
      /\ pc = "accept" /\ backlog # <<>>
      /\ backlog' = Tail(backlog)
      /\ next_conn' = IF watchable /\ open # {} THEN (next_conn % IdMax) + 1 ELSE next_conn
      /\ known' = IF ok THEN known \cup {next_conn} ELSE known
      /\ conns' = IF ok THEN [conns EXCEPT ![slot].in_use = TRUE, ![slot].sock = c,
                                           ![slot].conn = next_conn]
                  ELSE conns
      /\ link' = IF ok THEN link ELSE [link EXCEPT ![c] = "idle"]
      /\ up' = IF ok THEN up ELSE [up EXCEPT ![c] = 0]
      /\ UNCHANGED <<ring, rx, lost, down, out, callVars>>
  BY Zenon DEF AcceptOne
<1> DEFINE ok == watchable /\ open # {} /\ Accepts(next_conn)
<1>2. backlog \in Seq(Clients) /\ backlog # <<>>
  BY <1>1 DEF Steady, ClientsOK
<1>3. /\ Len(backlog) \in Nat /\ Len(backlog) >= 1 /\ c = backlog[1] /\ c \in Clients
      /\ Tail(backlog) \in Seq(Clients) /\ Len(Tail(backlog)) = Len(backlog) - 1
      /\ \A k \in 1..(Len(backlog) - 1) : Tail(backlog)[k] = backlog[k + 1]
  BY <1>2, HeadTailProperties, LenProperties
<1>4. next_conn' \in Ids
  <2>1. IdMax \in Nat \ {0} /\ next_conn \in 1..IdMax
    BY NetAssumption DEF Ids
  <2>2. (next_conn % IdMax) + 1 \in 1..IdMax
    <3> DEFINE r == next_conn % IdMax
    <3>1. r \in 0..(IdMax - 1)
      BY <2>1, WrapSum
    <3> HIDE DEF r
    <3>2. r + 1 \in 1..IdMax
      BY <2>1, <3>1
    <3> QED BY <3>2 DEF r
  <2> QED BY <1>1, <2>1, <2>2 DEF Ids
<1> HIDE DEF c
<1>5. /\ \A k \in 1..Len(backlog') : /\ k + 1 \in 1..Len(backlog) /\ backlog'[k] = backlog[k + 1]
                                     /\ backlog'[k] # c /\ backlog'[k] \in Clients
                                     /\ link[backlog'[k]] # "idle"
      /\ \A j, k \in 1..Len(backlog') : j # k => backlog'[j] # backlog'[k]
      /\ backlog' \in Seq(Clients)
  <2> DEFINE rest == Tail(backlog)
  <2>0. /\ backlog' = rest /\ rest \in Seq(Clients) /\ Len(rest) = Len(backlog) - 1
        /\ \A k \in 1..(Len(backlog) - 1) : rest[k] = backlog[k + 1]
    BY <1>1, <1>3
  <2> HIDE DEF rest
  <2>1. ASSUME NEW k \in 1..Len(backlog')
        PROVE  k + 1 \in 1..Len(backlog) /\ backlog'[k] = backlog[k + 1]
    BY <1>3, <2>0
  <2>2. \A j, k \in 1..Len(backlog) : j # k => backlog[j] # backlog[k]
    BY DEF Steady, SocketsInv
  <2>3. ASSUME NEW k \in 1..Len(backlog')
        PROVE  backlog'[k] # c /\ backlog'[k] \in Clients /\ link[backlog'[k]] # "idle"
    <3>1. backlog[k + 1] # backlog[1]
      BY <1>3, <2>1, <2>2
    <3>2. backlog[k + 1] \in Clients /\ link[backlog[k + 1]] # "idle"
      BY <1>2, <2>1 DEF Steady, SocketsInv
    <3> QED BY <1>3, <2>1, <3>1, <3>2
  <2>4. ASSUME NEW j \in 1..Len(backlog'), NEW k \in 1..Len(backlog'), j # k
        PROVE  backlog'[j] # backlog'[k]
    <3>1. j + 1 # k + 1
      BY <2>0, <2>4
    <3> QED BY <2>1, <2>2, <3>1
  <2> QED BY <2>0, <2>1, <2>3, <2>4
<1>6. /\ link[c] # "idle"
      /\ \A s \in Slots : conns[s].in_use =>
           /\ conns[s].sock # c /\ conns[s].sock \in Clients /\ conns[s].conn \in Ids
           /\ link[conns[s].sock] # "idle"
           /\ \A k \in 1..Len(backlog) : backlog[k] # conns[s].sock
  BY <1>3 DEF Steady, SocketsInv, ConnsOK
<1>7. ASSUME ~ok PROVE Steady'
  <2>1. /\ UNCHANGED <<conns, known, ring, rx, down>>
        /\ link' = [link EXCEPT ![c] = "idle"] /\ up' = [up EXCEPT ![c] = 0]
    BY <1>1, <1>7
  <2>2. ConnsOK' /\ ServerOK' /\ TablesAgree'
    BY <2>1 DEF Steady, ConnsOK, ServerOK, TablesAgree
  <2>3. ClientsOK'
    BY <1>3, <1>5, <2>1 DEF Steady, ClientsOK
  <2>4. \A d \in Clients : d # c => link'[d] = link[d]
    BY <1>3, <2>1 DEF Steady, ClientsOK
  <2>5. ASSUME NEW s \in Slots, conns'[s].in_use
        PROVE  /\ link'[conns'[s].sock] # "idle"
               /\ \A k \in 1..Len(backlog') : backlog'[k] # conns'[s].sock
    BY <1>5, <1>6, <2>1, <2>4, <2>5
  <2>6. \A k \in 1..Len(backlog') : link'[backlog'[k]] # "idle"
    BY <1>5, <2>4
  <2>7. SocketsInv'
    BY <1>5, <2>5, <2>6 DEF SocketsInv
  <2> QED BY <2>2, <2>3, <2>7 DEF Steady
<1>8. ASSUME ok PROVE Steady'
  <2>1. slot \in Slots /\ ~conns[slot].in_use
    <3>1. open \in SUBSET Nat /\ open # {}
      BY <1>8 DEF Slots
    <3>2. \E s \in open : \A t \in open : s <= t
      BY <3>1, LeastNat
    <3>3. slot \in open
      BY <3>2
    <3> QED BY <3>3
  <2>2. /\ known' = known \cup {next_conn} /\ UNCHANGED <<ring, rx, link, up, down>>
        /\ conns' = [conns EXCEPT ![slot].in_use = TRUE, ![slot].sock = c,
                                  ![slot].conn = next_conn]
    BY <1>1, <1>8
  <2>3. next_conn \notin known
    BY <1>8 DEF Accepts
  <2> HIDE DEF slot, open, ok
  <2>4. conns \in [Slots -> Conn] /\ conns[slot] \in Conn /\ conns[slot] = FreeConn
    BY <2>1 DEF Steady, ConnsOK
  <2>5. next_conn \in 0..IdMax
    BY NetAssumption DEF Ids
  <2>6. /\ conns' \in [Slots -> Conn]
        /\ \A t \in Slots \ {slot} : conns'[t] = conns[t]
        /\ conns'[slot].in_use /\ conns'[slot].sock = c /\ conns'[slot].conn = next_conn
        /\ conns'[slot].queue = conns[slot].queue /\ conns'[slot].q_offset = conns[slot].q_offset
    BY <1>3, <2>1, <2>2, <2>4, <2>5 DEF Conn
  <2>7. conns'[slot].q_offset = 0
    BY <2>4, <2>6, FreeIsConn
  <2>8. \A t \in Slots : t # slot => (conns'[t].in_use <=> conns[t].in_use) /\ conns'[t] = conns[t]
    BY <2>6
  <2>9. ConnsOK'
    BY <1>3, <2>6, <2>7, <2>8 DEF Steady, ConnsOK
  <2>10. ServerOK' /\ ClientsOK'
    BY <1>5, <2>2 DEF Steady, ServerOK, ClientsOK
  <2>11. TablesAgree'
    <3>1. \A k \in 1..Len(ring') : ring'[k].conn \in known'
      BY <2>2 DEF Steady, TablesAgree
    <3>2. \A i : i \in known' <=> \E t \in Slots : conns'[t].in_use /\ conns'[t].conn = i
      BY <2>1, <2>2, <2>6, <2>8, Tables
    <3>3. \A t \in Slots : t # slot /\ conns'[t].in_use =>
            conns'[t].conn # next_conn /\ conns'[t].sock # c
      BY <1>6, <2>3, <2>8, Tables
    <3>4. \A u, t \in Slots : conns'[u].in_use /\ conns'[t].in_use /\ u # t =>
              conns'[u].conn # conns'[t].conn /\ conns'[u].sock # conns'[t].sock
      BY <2>6, <2>8, <3>3, Tables
    <3> QED BY <3>1, <3>2, <3>4 DEF TablesAgree
  <2>12. SocketsInv'
    <3>1. ASSUME NEW s \in Slots, conns'[s].in_use
          PROVE  /\ link'[conns'[s].sock] # "idle"
                 /\ \A k \in 1..Len(backlog') : backlog'[k] # conns'[s].sock
      <4>1. CASE s = slot
        BY <1>5, <1>6, <2>2, <2>6, <4>1
      <4>2. CASE s # slot
        <5>1. conns[s].in_use /\ conns'[s].sock = conns[s].sock
          BY <2>8, <3>1, <4>2
        <5>2. link'[conns'[s].sock] # "idle"
          BY <1>6, <2>2, <5>1
        <5>3. \A k \in 1..Len(backlog') : k + 1 \in 1..Len(backlog) /\ backlog'[k] = backlog[k + 1]
          BY <1>5
        <5> QED BY <1>6, <5>1, <5>2, <5>3
      <4> QED BY <4>1, <4>2
    <3> QED BY <1>5, <2>2, <3>1 DEF SocketsInv
  <2> QED BY <2>9, <2>10, <2>11, <2>12 DEF Steady
<1> QED BY <1>4, <1>7, <1>8

(* gsp_net_close and gsp_net_open leave nobody in either table. *)
LEMMA ReopenOK ==
  ASSUME Steady, Reopen PROVE Steady' /\ next_conn' \in Ids
<1> DEFINE held == {conns[s].conn : s \in {t \in Slots : conns[t].in_use}}
           C    == Addressees(ring) \ held
<1>1. /\ conns' = [s \in Slots |-> FreeConn] /\ next_conn' = 1
      /\ known' = known \ held /\ ring' = kept_writes(ring, C)
      /\ rx' = [i \in Ids |-> IF i \in held THEN NewRx ELSE rx[i]]
      /\ link' = [c \in Clients |-> "idle"] /\ backlog' = <<>>
      /\ up' = [c \in Clients |-> 0] /\ down' = [c \in Clients |-> 0]
  BY DEF Reopen
<1>2. known = held
  BY DEF Steady, TablesAgree
<1>3. ring \in Seq(Write) /\ \A k \in 1..Len(ring) : ring[k].conn \in held
  BY <1>2 DEF Steady, ServerOK, TablesAgree
<1>4. \A k \in 1..Len(ring) : ring[k].conn \notin C
  BY <1>3
<1> HIDE DEF held, C
<1>5. ring' = <<>> /\ known' = {}
  BY <1>1, <1>2, <1>3, <1>4, KeptNone
<1>6. ConnsOK'
  BY <1>1, FreeIsConn DEF ConnsOK
<1>7. ServerOK'
  <2>1. NewRx \in Rx
    BY DEF NewRx, Rx
  <2>2. rx' \in [Ids -> Rx]
    BY <1>1, <2>1 DEF Steady, ServerOK
  <2> QED BY <1>5, <2>2, WriteAssumption DEF ServerOK
<1>8. ClientsOK'
  BY <1>1, NetAssumption DEF ClientsOK
<1>9. \A s \in Slots : ~conns'[s].in_use
  BY <1>1, FreeIsConn
<1>10. TablesAgree' /\ SocketsInv'
  BY <1>1, <1>5, <1>9 DEF TablesAgree, SocketsInv
<1> QED BY <1>1, <1>6, <1>7, <1>8, <1>10, NetAssumption DEF Steady, Ids

LEMMA ConnectOK ==
  ASSUME Steady, NEW c \in Clients, Connect(c) PROVE Steady'
<1>1. /\ link[c] = "idle" /\ link' = [link EXCEPT ![c] = "open"] /\ backlog' = Append(backlog, c)
      /\ UNCHANGED <<conns, known, ring, rx, up, down>>
  BY DEF Connect, serverVars
<1>2. ConnsOK' /\ ServerOK' /\ TablesAgree'
  BY <1>1 DEF Steady, ConnsOK, ServerOK, TablesAgree
<1>3. ClientsOK'
  BY <1>1 DEF Steady, ClientsOK
<1>4. /\ backlog \in Seq(Clients) /\ Len(backlog) \in Nat
      /\ \A k \in 1..Len(backlog) : backlog[k] \in Clients /\ backlog[k] # c
  <2>1. backlog \in Seq(Clients) /\ \A k \in 1..Len(backlog) : link[backlog[k]] # "idle"
    BY DEF Steady, ClientsOK, SocketsInv
  <2>2. Len(backlog) \in Nat /\ \A k \in 1..Len(backlog) : backlog[k] \in Clients
    BY <2>1
  <2>3. \A k \in 1..Len(backlog) : backlog[k] # c
    BY <1>1, <2>1
  <2> QED BY <2>1, <2>2, <2>3
<1>5. /\ link'[c] = "open" /\ \A d \in Clients : d # c => link'[d] = link[d]
  BY <1>1 DEF Steady, ClientsOK
<1> DEFINE more == Append(backlog, c)
<1>6. /\ backlog' = more /\ Len(more) = Len(backlog) + 1 /\ more[Len(backlog) + 1] = c
      /\ \A k \in 1..Len(backlog) : more[k] = backlog[k]
  BY <1>1, <1>4
<1> HIDE DEF more
<1>7. ASSUME NEW k \in 1..Len(more)
      PROVE  \/ k \in 1..Len(backlog) /\ more[k] = backlog[k]
             \/ k = Len(backlog) + 1 /\ more[k] = c
  BY <1>4, <1>6
<1>8. \A s \in Slots : conns[s].in_use =>
        /\ conns[s].sock \in Clients /\ conns[s].sock # c /\ link[conns[s].sock] # "idle"
        /\ \A k \in 1..Len(backlog) : backlog[k] # conns[s].sock
  BY <1>1 DEF Steady, SocketsInv, ConnsOK
<1>9. ASSUME NEW s \in Slots, conns'[s].in_use
      PROVE  /\ link'[conns'[s].sock] # "idle"
             /\ \A k \in 1..Len(backlog') : backlog'[k] # conns'[s].sock
  <2>1. conns[s].in_use /\ conns'[s].sock = conns[s].sock
    BY <1>1, <1>9
  <2>2. link'[conns'[s].sock] # "idle"
    BY <1>5, <1>8, <2>1
  <2> QED BY <1>6, <1>7, <1>8, <2>1, <2>2
<1>10. ASSUME NEW j \in 1..Len(more), NEW k \in 1..Len(more), j # k PROVE more[j] # more[k]
  <2>1. \A x, y \in 1..Len(backlog) : x # y => backlog[x] # backlog[y]
    BY DEF Steady, SocketsInv
  <2> QED BY <1>4, <1>7, <1>10, <2>1
<1>11. ASSUME NEW k \in 1..Len(more) PROVE link'[more[k]] # "idle"
  <2>1. \A x \in 1..Len(backlog) : link[backlog[x]] # "idle"
    BY DEF Steady, SocketsInv
  <2> QED BY <1>4, <1>5, <1>7, <2>1
<1>12. SocketsInv'
  BY <1>6, <1>9, <1>10, <1>11 DEF SocketsInv
<1> QED BY <1>2, <1>3, <1>12 DEF Steady

(* What the pump hands to a socket: the ring's head joins its queue. *)
LEMMA PumpOK ==
  ASSUME Steady, PumpOne PROVE Steady'
<1> DEFINE w == Head(ring)
           s == CHOOSE t \in gs_net_find(w.conn) : TRUE
           cs == [conns EXCEPT ![s].queue = Append(@, w.number)]
<1>1. /\ ring # <<>> /\ backlog' = backlog
      /\ IF gs_net_find(w.conn) = {}
         THEN ring' = Tail(ring) /\ UNCHANGED <<conns, known, rx, link, up, down>>
         ELSE gs_net_flush(s, cs, Tail(ring))
  BY DEF PumpOne
<1>2. ring \in Seq(Write) /\ Len(ring) <= WriteRing /\ \A k \in 1..Len(ring) : ring[k].conn \in known
  BY DEF Steady, ServerOK, TablesAgree
<1>3. /\ w \in Write /\ Tail(ring) \in Seq(Write) /\ Len(Tail(ring)) = Len(ring) - 1
      /\ \A k \in 1..(Len(ring) - 1) : k + 1 \in 1..Len(ring) /\ Tail(ring)[k] = ring[k + 1]
  BY <1>1, <1>2
<1> DEFINE rg == Tail(ring)
<1>4. Addressed(rg)
  <2> HIDE DEF rg
  <2>1. rg \in Seq(Write) /\ Len(rg) = Len(ring) - 1
        /\ \A k \in 1..(Len(ring) - 1) : k + 1 \in 1..Len(ring) /\ rg[k] = ring[k + 1]
    BY <1>3 DEF rg
  <2>2. Len(rg) <= WriteRing
    BY <1>2, <2>1, WriteAssumption
  <2> QED BY <1>2, <2>1, <2>2 DEF Addressed
<1>5. Alike(conns)
  BY AlikeNow
<1>6. CASE gs_net_find(w.conn) = {}
  <2>1. rx' \in [Ids -> Rx] /\ ClientsOK'
    BY <1>1, <1>6 DEF Steady, ServerOK, ClientsOK
  <2>2. conns' = conns /\ ring' = rg /\ known' = known /\ link' = link
    BY <1>1, <1>6
  <2>3. Alike(conns') /\ Addressed(ring')
    BY <1>4, <1>5, <2>2
  <2> QED BY <1>1, <2>1, <2>2, <2>3, SameTables
<1>7. CASE gs_net_find(w.conn) # {}
  <2>1. s \in Slots /\ conns[s].in_use
    <3>1. s \in gs_net_find(w.conn)
      BY <1>7
    <3> QED BY <3>1 DEF gs_net_find
  <2>2. w.number \in Nat
    BY <1>3 DEF Write
  <2>3. conns \in [Slots -> Conn] /\ conns[s] \in Conn /\ conns[s].queue \in Seq(Nat)
    BY <1>5, <2>1 DEF Alike, Conn
  <2> DEFINE q == Append(conns[s].queue, w.number)
  <2>4. q \in Seq(Nat) /\ q # <<>> /\ cs = [conns EXCEPT ![s].queue = q]
    <3>1. cs = [conns EXCEPT ![s].queue = q]
      BY Zenon
    <3> DEFINE old == conns[s].queue
               n   == w.number
    <3>2. old \in Seq(Nat) /\ n \in Nat
      BY <2>2, <2>3
    <3> HIDE DEF old, n
    <3>3. Append(old, n) \in Seq(Nat) /\ Len(Append(old, n)) = Len(old) + 1 /\ Len(old) \in Nat
      BY <3>2
    <3>4. Append(old, n) # <<>>
      BY <3>3, EmptySeq
    <3> QED BY <3>1, <3>3, <3>4 DEF old, n
  <2>5. gs_net_flush(s, cs, rg)
    BY <1>1, <1>7
  <2> HIDE DEF s, w, q, cs, rg
  <2>6. /\ cs \in [Slots -> Conn]
        /\ \A t \in Slots \ {s} : cs[t] = conns[t]
        /\ cs[s].in_use = conns[s].in_use /\ cs[s].sock = conns[s].sock
        /\ cs[s].conn = conns[s].conn /\ cs[s].queue = q
    BY <2>1, <2>3, <2>4 DEF Conn
  <2>7. \A t \in Slots \ {s} :
          /\ cs[t].in_use <=> conns[t].in_use
          /\ cs[t].sock = conns[t].sock /\ cs[t].conn = conns[t].conn
          /\ IF cs[t].in_use THEN cs[t].queue = <<>> => cs[t].q_offset = 0
                             ELSE cs[t] = FreeConn
    BY <1>5, <2>6 DEF Alike
  <2>8. /\ cs[s].in_use <=> conns[s].in_use
        /\ cs[s].in_use /\ cs[s].sock = conns[s].sock /\ cs[s].conn = conns[s].conn
        /\ cs[s].queue # <<>>
    BY <2>1, <2>4, <2>6
  <2>9. Alike(cs)
    BY <2>6, <2>7, <2>8 DEF Alike
  <2> QED BY <1>1, <1>4, <2>1, <2>5, <2>9, FlushOK
<1> QED BY <1>6, <1>7
-----------------------------------------------------------------------------
(* The place of a call in its loops. *)
LEMMA CurOK ==
  ASSUME cur \in Slots
  PROVE  (NextRead => cur' \in Slots) /\ (NextResume => cur' \in Slots) /\ 1 \in Slots
BY NetAssumption DEF NextRead, NextResume, Slots

(* An offer that the slot in the loop makes. *)
LEMMA OfferStep ==
  ASSUME NetInv, conns[cur].in_use, NEW k \in Nat, NEW used,
         \/ Offer(k, used, NextRead) \/ Offer(k, used, NextResume),
         backlog' = backlog, up' \in [Clients -> Nat]
  PROVE  Steady' /\ cur' \in Slots
<1>1. Steady /\ cur \in Slots
  BY DEF NetInv, NetTypes, CallOK, Steady
<1> DEFINE res == on_bytes(conns[cur].conn, k)
<1>2. /\ ring' = res.ring /\ rx' = [rx EXCEPT ![conns[cur].conn] = res.rx]
      /\ UNCHANGED <<known, link, down>>
      /\ conns' = conns \/ conns' = [conns EXCEPT ![cur].resume = res.full]
      /\ cur' = cur \/ NextRead \/ NextResume
  BY DEF Offer
<1> HIDE DEF res
<1>3. cur' \in Slots
  BY <1>1, <1>2, CurOK
<1>4. Steady'
  BY <1>1, <1>2, OfferSteady DEF res
<1> QED BY <1>3, <1>4

LEMMA NetStep ==
  ASSUME NetInv, [Next]_vars PROVE NetInv'
<1>1. Steady /\ next_conn \in Ids /\ cur \in Slots
  BY DEF NetInv, NetTypes, CallOK, Steady
<1>2. SUFFICES Steady' /\ next_conn' \in Ids /\ cur' \in Slots
  BY DEF NetInv, NetTypes, CallOK, Steady
<1>3. CASE Select
  BY <1>1, <1>3, NothingMoved, CurOK DEF Select, serverVars, clientVars
<1>4. CASE SelectFails
  BY <1>1, <1>4, NothingMoved DEF SelectFails, serverVars, clientVars
<1>5. CASE AcceptOne
  <2>1. cur' = cur
    BY <1>5 DEF AcceptOne, callVars
  <2> QED BY <1>1, <1>5, <2>1, AcceptOK
<1>6. CASE AcceptDone \/ AcceptFails
  BY <1>1, <1>6, NothingMoved DEF AcceptDone, AcceptFails, LeaveAccept, serverVars, clientVars
<1>7. CASE ServeFlush
  <2>1. backlog' = backlog /\ next_conn' = next_conn /\ cur' = cur
    BY <1>7 DEF ServeFlush
  <2>2. CASE conns[cur].in_use /\ cur \in ready.writers
    <3>1. gs_net_flush(cur, conns, ring)
      BY <1>7, <2>2 DEF ServeFlush
    <3> QED BY <1>1, <2>1, <2>2, <3>1, AlikeNow, FlushOK
  <2>3. CASE ~(conns[cur].in_use /\ cur \in ready.writers)
    <3>1. UNCHANGED <<conns, known, ring, rx, link, up, down>>
      BY <1>7, <2>3 DEF ServeFlush
    <3> QED BY <1>1, <2>1, <3>1, NothingMoved
  <2> QED BY <2>2, <2>3
<1>8. CASE ServeRead
  <2>1. backlog' = backlog /\ next_conn' = next_conn
    BY <1>8 DEF ServeRead
  <2> DEFINE c   == conns[cur].sock
             got == Least(up[c], ReadSize)
  <2>2. CASE NextRead /\ UNCHANGED <<conns, serverVars, clientVars>>
    BY <1>1, <2>1, <2>2, NothingMoved, CurOK DEF serverVars, clientVars
  <2>3. CASE conns[cur].in_use /\ gs_net_drop(cur, conns, ring) /\ NextRead
    BY <1>1, <2>1, <2>3, AlikeNow, DropOK, CurOK
  <2>4. CASE /\ conns[cur].in_use /\ up' = [up EXCEPT ![c] = @ - got]
             /\ Offer(got, 0, NextRead)
    <3>1. c \in Clients
      BY <1>1, <2>4 DEF Steady, ConnsOK
    <3>2. up \in [Clients -> Nat] /\ up[c] \in Nat /\ ReadSize \in Nat
      BY <1>1, <3>1, NetAssumption DEF Steady, ClientsOK
    <3> HIDE DEF c
    <3>3a. got \in Nat /\ got <= up[c]
      BY <3>2, LeastOK
    <3> HIDE DEF got
    <3>3. got \in Nat /\ up[c] - got \in Nat
      BY <3>2, <3>3a
    <3>4. up' \in [Clients -> Nat]
      BY <2>4, <3>1, <3>2, <3>3
    <3> QED BY <1>1, <2>1, <2>4, <3>3, <3>4, OfferStep
  <2> QED BY <1>8, <2>2, <2>3, <2>4 DEF ServeRead
<1>9. CASE PumpOne
  <2>1. next_conn' = next_conn /\ cur' = cur
    BY <1>9 DEF PumpOne, callVars
  <2> QED BY <1>1, <1>9, <2>1, PumpOK
<1>10. CASE PumpDone
  <2>1. backlog' = backlog /\ next_conn' = next_conn
    BY <1>10 DEF PumpDone
  <2>2. up \in [Clients -> Nat]
    BY <1>1 DEF Steady, ClientsOK
  <2>3. CASE feeder = "none"
    <3>1. cur' = 1 /\ UNCHANGED <<conns, serverVars, clientVars>>
      BY <1>10, <2>3 DEF PumpDone
    <3> QED BY <1>1, <2>1, <3>1, NothingMoved, CurOK DEF serverVars, clientVars
  <2>4. CASE feeder # "none" /\ ~conns[cur].in_use
    <3>1. (NextRead \/ NextResume) /\ UNCHANGED <<conns, serverVars, clientVars>>
      BY <1>10, <2>4 DEF PumpDone
    <3> QED BY <1>1, <2>1, <3>1, NothingMoved, CurOK DEF serverVars, clientVars
  <2>5. CASE feeder # "none" /\ conns[cur].in_use
    <3>1. /\ Offer(no_units, attempt, IF feeder = "read" THEN NextRead ELSE NextResume)
          /\ up' = up
      BY <1>10, <2>5 DEF PumpDone
    <3>2. Offer(no_units, attempt, NextRead) \/ Offer(no_units, attempt, NextResume)
      BY <3>1, Zenon DEF Offer
    <3>3. no_units \in Nat
      BY DEF no_units
    <3> QED BY <1>1, <2>1, <2>2, <2>5, <3>1, <3>2, <3>3, OfferStep
  <2> QED BY <2>3, <2>4, <2>5
<1>11. CASE Resume
  <2>1. backlog' = backlog /\ next_conn' = next_conn
    BY <1>11 DEF Resume
  <2>2. CASE NextResume /\ UNCHANGED <<conns, serverVars, clientVars>>
    BY <1>1, <2>1, <2>2, NothingMoved, CurOK DEF serverVars, clientVars
  <2>3. CASE conns[cur].in_use /\ Offer(no_units, 0, NextResume) /\ UNCHANGED up
    <3>1. up' \in [Clients -> Nat] /\ no_units \in Nat
      BY <1>1, <2>3 DEF Steady, ClientsOK, no_units
    <3> QED BY <1>1, <2>1, <2>3, <3>1, OfferStep
  <2> QED BY <1>11, <2>2, <2>3 DEF Resume
<1>12. CASE Reopen
  <2>1. cur' = cur
    BY <1>12 DEF Reopen, callVars
  <2> QED BY <1>1, <1>12, <2>1, ReopenOK
<1>13. ASSUME NEW s \in Slots, gsp_net_close_connection(s)
       PROVE  Steady' /\ next_conn' \in Ids /\ cur' \in Slots
  <2>1. /\ conns[s].in_use /\ gs_net_drop(s, conns, ring)
        /\ backlog' = backlog /\ next_conn' = next_conn /\ cur' = cur
    BY <1>13 DEF gsp_net_close_connection, callVars
  <2> QED BY <1>1, <2>1, AlikeNow, DropOK
<1>14. ASSUME NEW c \in Clients, Client(c)
       PROVE  Steady' /\ next_conn' \in Ids /\ cur' \in Slots
  <2>1. next_conn' = next_conn /\ cur' = cur
    BY <1>14 DEF Client, Connect, Send, Receive, Finish, Break, callVars
  <2>2. CASE Connect(c)
    BY <1>1, <2>1, <2>2, ConnectOK
  <2>3. CASE Send(c)
    <3>1. ClientsOK' /\ link' = link /\ UNCHANGED <<conns, known, ring, rx, backlog>>
      BY <1>1, <2>3 DEF Send, Steady, ClientsOK, serverVars
    <3> QED BY <1>1, <2>1, <3>1, OnlyClients
  <2>4. CASE Receive(c)
    <3>1. PICK k \in 1..down[c] : down' = [down EXCEPT ![c] = @ - k]
      BY <2>4 DEF Receive
    <3>2. down[c] \in 0..SendBuffer /\ SendBuffer \in Nat
      BY <1>1, NetAssumption DEF Steady, ClientsOK
    <3>3. down[c] - k \in 0..SendBuffer
      BY <3>2
    <3>4. ClientsOK' /\ link' = link /\ UNCHANGED <<conns, known, ring, rx, backlog>>
      BY <1>1, <2>4, <3>1, <3>3 DEF Receive, Steady, ClientsOK, serverVars
    <3> QED BY <1>1, <2>1, <3>4, OnlyClients
  <2>5. CASE Finish(c)
    <3>1. /\ link' = [link EXCEPT ![c] = "fin"]
          /\ UNCHANGED <<conns, known, ring, rx, backlog, up, down>>
      BY <2>5 DEF Finish, serverVars
    <3>2. ClientsOK' /\ \A d \in Clients : link[d] # "idle" => link'[d] # "idle"
      BY <1>1, <3>1 DEF Steady, ClientsOK
    <3> QED BY <1>1, <2>1, <3>1, <3>2, OnlyClients
  <2>6. CASE Break(c)
    <3>1. /\ link' = [link EXCEPT ![c] = "reset"] /\ up' = [up EXCEPT ![c] = 0]
          /\ UNCHANGED <<conns, known, ring, rx, backlog, down>>
      BY <2>6 DEF Break, serverVars
    <3>2. ClientsOK' /\ \A d \in Clients : link[d] # "idle" => link'[d] # "idle"
      BY <1>1, <3>1 DEF Steady, ClientsOK
    <3> QED BY <1>1, <2>1, <3>1, <3>2, OnlyClients
  <2> QED BY <1>14, <2>2, <2>3, <2>4, <2>5, <2>6 DEF Client
<1>15. CASE UNCHANGED vars
  BY <1>1, <1>15, NothingMoved DEF vars, serverVars, clientVars, callVars
<1> QED BY <1>3, <1>4, <1>5, <1>6, <1>7, <1>8, <1>9, <1>10, <1>11, <1>12, <1>13, <1>14, <1>15
     DEF Next, gsp_net_poll

LEMMA NetStart == Init => NetInv
<1> SUFFICES ASSUME Init PROVE NetInv
  OBVIOUS
<1>1. \A s \in Slots : conns[s] = FreeConn
  BY DEF Init
<1>2. ConnsOK /\ \A s \in Slots : ~conns[s].in_use
  BY <1>1, FreeIsConn DEF Init, ConnsOK
<1>3. ServerOK
  <2>1. NewRx \in Rx
    BY DEF NewRx, Rx
  <2> QED BY <2>1, WriteAssumption DEF Init, ServerOK
<1>4. ClientsOK
  BY NetAssumption DEF Init, ClientsOK
<1>5. CallOK
  BY NetAssumption DEF Init, CallOK, Slots, Ids
<1>6. TablesAgree /\ SocketsInv
  BY <1>2 DEF Init, TablesAgree, SocketsInv
<1> QED BY <1>2, <1>3, <1>4, <1>5, <1>6 DEF NetInv, NetTypes

(* Transport and server agree on who is connected at every step of every   *)
(* poll (gs_net_accept, gs_net_drop, gsp_net_close), whichever connections *)
(* break, close or are refused between two system calls, also when ids are *)
(* taken a second time and when the transport is opened again.             *)
THEOREM TransportKeepsTables == Spec => []TablesAgree
<1>1. NetInv => TablesAgree
  BY DEF NetInv
<1> QED BY NetStart, NetStep, <1>1, PTL DEF Spec
-----------------------------------------------------------------------------
(***************************************************************************)
(* The stream of one connection.  First what is left of a sequence behind  *)
(* its first i elements, and the units of a queue.                         *)
(***************************************************************************)
Behind(u, i) == SubSeq(u, i + 1, Len(u))

Unit == Nat \X {0, 1}

LEMMA BehindOK ==
  ASSUME NEW S, NEW u \in Seq(S), NEW i \in 0..Len(u)
  PROVE  /\ Behind(u, i) \in Seq(S) /\ Len(Behind(u, i)) = Len(u) - i
         /\ \A k \in 1..(Len(u) - i) : Behind(u, i)[k] = u[i + k]
<1>1. Len(u) \in Nat /\ \A k \in (i + 1)..Len(u) : u[k] \in S
  BY LenProperties
<1>2. /\ Behind(u, i) \in Seq(S)
      /\ Len(Behind(u, i)) = IF i + 1 <= Len(u) THEN Len(u) - (i + 1) + 1 ELSE 0
      /\ \A k \in 1..(Len(u) - (i + 1) + 1) : Behind(u, i)[k] = u[(i + 1) + k - 1]
  BY <1>1, SubSeqProperties DEF Behind
<1> QED BY <1>1, <1>2

LEMMA BehindSplit ==
  ASSUME NEW S, NEW u \in Seq(S), NEW i \in 0..Len(u), NEW j \in i..Len(u)
  PROVE  Behind(u, i) = SubSeq(u, i + 1, j) \o Behind(u, j)
<1>1. i + 1 \in 1..(Len(u) + 1) /\ j \in ((i + 1) - 1)..Len(u) /\ Len(u) \in j..Len(u)
  OBVIOUS
<1> QED BY <1>1, ConcatAdjacentSubSeq DEF Behind

LEMMA BehindBehind ==
  ASSUME NEW S, NEW u \in Seq(S), NEW i \in 0..Len(u), NEW j \in 0..(Len(u) - i)
  PROVE  Behind(Behind(u, i), j) = Behind(u, i + j)
<1> DEFINE v == Behind(u, i)
           a == Behind(v, j)
           b == Behind(u, i + j)
<1>1. v \in Seq(S) /\ Len(v) = Len(u) - i /\ \A k \in 1..(Len(u) - i) : v[k] = u[i + k]
  BY BehindOK
<1>2. Len(u) \in Nat /\ j \in 0..Len(v) /\ i + j \in 0..Len(u)
  BY <1>1
<1> HIDE DEF v
<1>3. a \in Seq(S) /\ Len(a) = Len(v) - j /\ \A k \in 1..(Len(v) - j) : a[k] = v[j + k]
  <2>1. v \in Seq(S) /\ j \in 0..Len(v)
    BY <1>1, <1>2
  <2> QED BY <2>1, BehindOK
<1>4. b \in Seq(S) /\ Len(b) = Len(u) - (i + j) /\ \A k \in 1..(Len(u) - (i + j)) : b[k] = u[(i + j) + k]
  BY <1>2, BehindOK
<1> HIDE DEF a, b
<1>5. Len(a) = Len(b)
  BY <1>1, <1>2, <1>3, <1>4
<1>6. ASSUME NEW k \in 1..Len(a) PROVE a[k] = b[k]
  <2>1. j + k \in 1..(Len(u) - i) /\ i + (j + k) = (i + j) + k /\ k \in 1..(Len(u) - (i + j))
    BY <1>1, <1>2, <1>3
  <2> QED BY <1>1, <1>3, <1>4, <2>1
<1>7. a = b
  BY <1>3, <1>4, <1>5, <1>6, SeqEqual
<1> QED BY <1>7 DEF a, b, v

LEMMA BehindConcat ==
  ASSUME NEW S, NEW u \in Seq(S), NEW v \in Seq(S), NEW i \in 0..Len(u)
  PROVE  Behind(u \o v, i) = Behind(u, i) \o v
<1> DEFINE w == u \o v
           a == Behind(w, i)
           c == Behind(u, i)
           b == c \o v
<1>1. /\ w \in Seq(S) /\ Len(w) = Len(u) + Len(v) /\ Len(u) \in Nat /\ Len(v) \in Nat
      /\ \A k \in 1..(Len(u) + Len(v)) : w[k] = IF k <= Len(u) THEN u[k] ELSE v[k - Len(u)]
  BY ConcatProperties, LenProperties
<1> HIDE DEF w
<1>0. w \in Seq(S) /\ Len(w) = Len(u) + Len(v) /\ Len(u) \in Nat /\ Len(v) \in Nat
  BY <1>1
<1>2. a \in Seq(S) /\ Len(a) = Len(w) - i /\ \A k \in 1..(Len(w) - i) : a[k] = w[i + k]
  <2>1. i \in 0..Len(w)
    BY <1>0
  <2> QED BY <1>0, <2>1, BehindOK
<1>3. c \in Seq(S) /\ Len(c) = Len(u) - i /\ \A k \in 1..(Len(u) - i) : c[k] = u[i + k]
  BY BehindOK
<1> HIDE DEF a, c
<1>4. /\ b \in Seq(S) /\ Len(b) = Len(c) + Len(v)
      /\ \A k \in 1..(Len(c) + Len(v)) : b[k] = IF k <= Len(c) THEN c[k] ELSE v[k - Len(c)]
  BY <1>3, ConcatProperties
<1> HIDE DEF b
<1>5. Len(a) = Len(b)
  BY <1>1, <1>2, <1>3, <1>4
<1>6. ASSUME NEW k \in 1..Len(a) PROVE a[k] = b[k]
  <2>1. CASE k <= Len(c)
    <3>1. /\ k \in 1..(Len(u) - i) /\ i + k \in 1..(Len(u) + Len(v)) /\ i + k <= Len(u)
          /\ k \in 1..(Len(c) + Len(v)) /\ k \in 1..(Len(w) - i)
      BY <1>0, <1>2, <1>3, <2>1
    <3>2. a[k] = u[i + k] /\ b[k] = c[k]
      BY <1>1, <1>2, <1>4, <2>1, <3>1
    <3> QED BY <1>3, <3>1, <3>2
  <2>2. CASE ~(k <= Len(c))
    <3>1. /\ i + k \in 1..(Len(u) + Len(v)) /\ ~(i + k <= Len(u))
          /\ (i + k) - Len(u) = k - Len(c) /\ k \in 1..(Len(c) + Len(v)) /\ k \in 1..(Len(w) - i)
      BY <1>0, <1>2, <1>3, <2>2
    <3>2. a[k] = v[(i + k) - Len(u)] /\ b[k] = v[k - Len(c)]
      BY <1>1, <1>2, <1>4, <2>2, <3>1
    <3> QED BY <3>1, <3>2
  <2> QED BY <2>1, <2>2
<1>7. a = b
  BY <1>2, <1>4, <1>5, <1>6, SeqEqual
<1> QED BY <1>7 DEF a, b, c, w

(* A unit's place in its reply. *)
LEMMA UnitPlace ==
  ASSUME NEW n \in Nat, NEW k \in 1..(2 * n)
  PROVE  /\ (k + 1) \div 2 \in 1..n /\ (k + 1) % 2 \in {0, 1}
         /\ k + 1 = 2 * ((k + 1) \div 2) + ((k + 1) % 2)
<1> DEFINE h == (k + 1) \div 2
           r == (k + 1) % 2
<1>1. k + 1 \in Nat
  OBVIOUS
<1>2. h \in Nat /\ r \in {0, 1} /\ k + 1 = 2 * h + r
  BY <1>1, HalfOK
<1> HIDE DEF h, r
<1>3. h \in 1..n
  BY <1>2
<1> QED BY <1>2, <1>3 DEF h, r

LEMMA UnitsOK ==
  ASSUME NEW q \in Seq(Nat)
  PROVE  /\ Units(q) \in Seq(Unit) /\ Len(Units(q)) = 2 * Len(q)
         /\ \A k \in 1..(2 * Len(q)) : Units(q)[k] = <<q[(k + 1) \div 2], (k + 1) % 2>>
<1>1. Len(q) \in Nat /\ 2 * Len(q) \in Nat
  BY LenProperties
<1>2. ASSUME NEW k \in 1..(2 * Len(q)) PROVE <<q[(k + 1) \div 2], (k + 1) % 2>> \in Unit
  <2>1. (k + 1) \div 2 \in 1..Len(q) /\ (k + 1) % 2 \in {0, 1}
    BY <1>1, UnitPlace
  <2>2. q[(k + 1) \div 2] \in Nat
    BY <2>1, ElementOfSeq
  <2> QED BY <2>1, <2>2 DEF Unit
<1>3. Units(q) \in [1..(2 * Len(q)) -> Unit]
  BY <1>2 DEF Units
<1>4. Units(q) \in Seq(Unit) /\ Len(Units(q)) = 2 * Len(q)
  BY <1>1, <1>3, FunIsSeq
<1> QED BY <1>4 DEF Units

LEMMA HalfAtMost ==
  ASSUME NEW L \in Nat, NEW k \in Nat, NEW h \in Nat, NEW r \in {0, 1}, k + 1 = 2 * h + r, k <= 2 * L
  PROVE  h <= L
OBVIOUS

LEMMA SamePlace ==
  ASSUME NEW L \in Nat, NEW k \in Nat, NEW k2 \in Nat, k2 = k - 2 * L,
         NEW h \in Nat, NEW h2 \in Nat, NEW r \in {0, 1}, NEW r2 \in {0, 1},
         k + 1 = 2 * h + r, k2 + 1 = 2 * h2 + r2
  PROVE  r = r2 /\ h = h2 + L
<1>1. r \in Int /\ r2 \in Int /\ 0 <= r /\ r <= 1 /\ 0 <= r2 /\ r2 <= 1
  OBVIOUS
<1>2. 2 * (h - (h2 + L)) = r2 - r
  BY <1>1
<1>3. h - (h2 + L) = 0
  BY <1>1, <1>2
<1> QED BY <1>1, <1>2, <1>3

LEMMA UnitsConcat ==
  ASSUME NEW p \in Seq(Nat), NEW q \in Seq(Nat)
  PROVE  Units(p \o q) = Units(p) \o Units(q)
<1> DEFINE w == p \o q
           a == Units(w)
           x == Units(p)
           y == Units(q)
           b == x \o y
<1>1. /\ w \in Seq(Nat) /\ Len(w) = Len(p) + Len(q) /\ Len(p) \in Nat /\ Len(q) \in Nat
      /\ \A k \in 1..(Len(p) + Len(q)) : w[k] = IF k <= Len(p) THEN p[k] ELSE q[k - Len(p)]
  BY ConcatProperties, LenProperties
<1>0. w \in Seq(Nat) /\ Len(w) = Len(p) + Len(q) /\ Len(p) \in Nat /\ Len(q) \in Nat
  BY <1>1
<1> HIDE DEF w
<1>2. /\ a \in Seq(Unit) /\ Len(a) = 2 * Len(w)
      /\ \A k \in 1..(2 * Len(w)) : a[k] = <<w[(k + 1) \div 2], (k + 1) % 2>>
  BY <1>1, UnitsOK
<1>3. /\ x \in Seq(Unit) /\ Len(x) = 2 * Len(p)
      /\ \A k \in 1..(2 * Len(p)) : x[k] = <<p[(k + 1) \div 2], (k + 1) % 2>>
  BY UnitsOK
<1>4. /\ y \in Seq(Unit) /\ Len(y) = 2 * Len(q)
      /\ \A k \in 1..(2 * Len(q)) : y[k] = <<q[(k + 1) \div 2], (k + 1) % 2>>
  BY UnitsOK
<1> HIDE DEF a, x, y
<1>5. /\ b \in Seq(Unit) /\ Len(b) = Len(x) + Len(y)
      /\ \A k \in 1..(Len(x) + Len(y)) : b[k] = IF k <= Len(x) THEN x[k] ELSE y[k - Len(x)]
  BY <1>3, <1>4, ConcatProperties
<1> HIDE DEF b
<1>6. Len(a) = Len(b)
  BY <1>1, <1>2, <1>3, <1>4, <1>5
<1>7. ASSUME NEW k \in 1..Len(a) PROVE a[k] = b[k]
  <2> DEFINE h == (k + 1) \div 2
             r == (k + 1) % 2
  <2>1. k \in 1..(2 * Len(w)) /\ Len(w) \in Nat
    BY <1>1, <1>2
  <2>2. h \in 1..Len(w) /\ r \in {0, 1} /\ k + 1 = 2 * h + r
    BY <2>1, UnitPlace
  <2>2a. k \in Nat /\ h \in Nat
    BY <2>1, <2>2
  <2>3. a[k] = <<w[h], r>>
    BY <1>2, <2>1
  <2>4. CASE k <= 2 * Len(p)
    <3>1. b[k] = <<p[h], r>>
      <4>1. k \in 1..(Len(x) + Len(y)) /\ k <= Len(x) /\ k \in 1..(2 * Len(p))
        BY <1>0, <1>3, <1>4, <2>1, <2>4
      <4>2. b[k] = x[k]
        BY <1>5, <4>1
      <4> QED BY <1>3, <4>1, <4>2
    <3> HIDE DEF h, r
    <3>2. h <= Len(p)
      BY <1>0, <2>2, <2>2a, <2>4, HalfAtMost
    <3>3. w[h] = p[h]
      <4>1. h \in 1..(Len(p) + Len(q))
        BY <1>0, <2>2
      <4> QED BY <1>1, <3>2, <4>1
    <3> QED BY <2>3, <3>1, <3>3
  <2>5. CASE ~(k <= 2 * Len(p))
    <3> DEFINE k2 == k - 2 * Len(p)
               h2 == (k2 + 1) \div 2
               r2 == (k2 + 1) % 2
    <3>1. k2 \in 1..(2 * Len(q)) /\ k2 = k - 2 * Len(p)
      BY <1>0, <2>1, <2>5
    <3> HIDE DEF k2
    <3>2. h2 \in 1..Len(q) /\ r2 \in {0, 1} /\ k2 + 1 = 2 * h2 + r2
      BY <1>0, <3>1, UnitPlace
    <3>3. y[k2] = <<q[h2], r2>>
      BY <1>4, <3>1
    <3> HIDE DEF h, r, h2, r2
    <3>4. r = r2 /\ h = h2 + Len(p)
      <4>1. h2 \in Nat /\ k2 \in Nat
        BY <1>0, <3>1, <3>2
      <4> DEFINE L == Len(p)
      <4>2. L \in Nat /\ k2 = k - 2 * L
        BY <1>0, <3>1
      <4> HIDE DEF L
      <4>3. r = r2 /\ h = h2 + L
        BY <2>2, <2>2a, <3>2, <4>1, <4>2, SamePlace
      <4> QED BY <4>3 DEF L
    <3>5. w[h] = q[h2]
      <4>1. h \in 1..(Len(p) + Len(q)) /\ ~(h <= Len(p)) /\ h - Len(p) = h2
        BY <1>0, <2>2, <3>2, <3>4
      <4> QED BY <1>1, <4>1
    <3>6. b[k] = y[k2]
      <4>1. k \in 1..(Len(x) + Len(y)) /\ ~(k <= Len(x)) /\ k - Len(x) = k2
        BY <1>0, <1>3, <1>4, <2>1, <2>5, <3>1
      <4> QED BY <1>5, <4>1
    <3> QED BY <2>3, <3>3, <3>4, <3>5, <3>6
  <2> QED BY <2>4, <2>5
<1>8. a = b
  BY <1>2, <1>5, <1>6, <1>7, SeqEqual
<1> QED BY <1>8 DEF a, b, w, x, y

(* The units behind g replies are those of the queue without them. *)
LEMMA UnitsBehind ==
  ASSUME NEW q \in Seq(Nat), NEW g \in 0..Len(q)
  PROVE  Units(Behind(q, g)) = Behind(Units(q), 2 * g)
<1> DEFINE f == SubSeq(q, 1, g)
           t == Behind(q, g)
<1>1. /\ f \in Seq(Nat) /\ Len(f) = g
  <2>1. Len(q) \in Nat /\ \A k \in 1..g : q[k] \in Nat
    BY LenProperties
  <2> QED BY <2>1, SubSeqProperties
<1>2. t \in Seq(Nat) /\ q = f \o t
  <2>1. t \in Seq(Nat)
    BY BehindOK
  <2>2. 0 \in 0..Len(q) /\ g \in 0..Len(q)
    OBVIOUS
  <2>3. Behind(q, 0) = SubSeq(q, 0 + 1, g) \o t
    BY <2>2, BehindSplit
  <2>4. Behind(q, 0) = q
    BY SubSeqFull DEF Behind
  <2> QED BY <2>1, <2>3, <2>4
<1> HIDE DEF f, t
<1>3. Units(q) = Units(f) \o Units(t)
  BY <1>1, <1>2, UnitsConcat
<1>4. Units(f) \in Seq(Unit) /\ Len(Units(f)) = 2 * g /\ Units(t) \in Seq(Unit)
  BY <1>1, <1>2, UnitsOK
<1> DEFINE x == Units(f)
           y == Units(t)
<1> HIDE DEF x, y
<1>5. x \in Seq(Unit) /\ y \in Seq(Unit) /\ Len(x) = 2 * g /\ 2 * g \in 0..Len(x)
  BY <1>4 DEF x, y
<1>6. Behind(x \o y, 2 * g) = Behind(x, 2 * g) \o y
  BY <1>5, BehindConcat
<1>7. Behind(x, 2 * g) = <<>>
  <2>1. Behind(x, 2 * g) \in Seq(Unit) /\ Len(Behind(x, 2 * g)) = 0
    BY <1>5, BehindOK
  <2> QED BY <2>1, EmptySeq
<1>8. <<>> \o y = y
  BY <1>5, ConcatEmptySeq
<1> QED BY <1>3, <1>6, <1>7, <1>8 DEF x, y, t
-----------------------------------------------------------------------------
StreamOf(o, q, off, w) ==
  o \o SubSeq(Units(q), off + 1, 2 * Len(q)) \o Units(NumbersOf(w))

LEMMA NumbersOfOK ==
  ASSUME NEW w \in Seq(Write)
  PROVE  /\ NumbersOf(w) \in Seq(Nat) /\ Len(NumbersOf(w)) = Len(w)
         /\ \A k \in 1..Len(w) : NumbersOf(w)[k] = w[k].number
<1>1. Len(w) \in Nat /\ \A k \in 1..Len(w) : w[k] \in Write
  BY ElementOfSeq, LenProperties
<1>2. NumbersOf(w) \in [1..Len(w) -> Nat]
  BY <1>1 DEF NumbersOf, Write
<1> QED BY <1>1, <1>2, FunIsSeq DEF NumbersOf

LEMMA NumbersOfConcat ==
  ASSUME NEW v \in Seq(Write), NEW w \in Seq(Write)
  PROVE  NumbersOf(v \o w) = NumbersOf(v) \o NumbersOf(w)
<1> DEFINE u == v \o w
           a == NumbersOf(u)
           x == NumbersOf(v)
           y == NumbersOf(w)
           b == x \o y
<1>1. /\ u \in Seq(Write) /\ Len(u) = Len(v) + Len(w)
      /\ \A k \in 1..(Len(v) + Len(w)) : u[k] = IF k <= Len(v) THEN v[k] ELSE w[k - Len(v)]
  BY ConcatProperties
<1>2. Len(v) \in Nat /\ Len(w) \in Nat
  BY LenProperties
<1> HIDE DEF u
<1>3. a \in Seq(Nat) /\ Len(a) = Len(u) /\ \A k \in 1..Len(u) : a[k] = u[k].number
  BY <1>1, NumbersOfOK
<1>4. x \in Seq(Nat) /\ Len(x) = Len(v) /\ \A k \in 1..Len(v) : x[k] = v[k].number
  BY NumbersOfOK
<1>5. y \in Seq(Nat) /\ Len(y) = Len(w) /\ \A k \in 1..Len(w) : y[k] = w[k].number
  BY NumbersOfOK
<1> HIDE DEF a, x, y
<1>6. /\ b \in Seq(Nat) /\ Len(b) = Len(x) + Len(y)
      /\ \A k \in 1..(Len(x) + Len(y)) : b[k] = IF k <= Len(x) THEN x[k] ELSE y[k - Len(x)]
  <2>1. x \in Seq(Nat) /\ y \in Seq(Nat)
    BY <1>4, <1>5
  <2> QED BY <2>1, ConcatProperties
<1> HIDE DEF b
<1>7. ASSUME NEW k \in 1..Len(a) PROVE a[k] = b[k]
  <2>1. CASE k <= Len(v)
    <3>1. k \in 1..Len(v) /\ k \in 1..(Len(v) + Len(w)) /\ k \in 1..Len(u)
      BY <1>1, <1>2, <1>3, <2>1
    <3>2. a[k] = u[k].number /\ u[k] = v[k]
      BY <1>1, <1>3, <2>1, <3>1
    <3>3. b[k] = x[k]
      BY <1>4, <1>5, <1>6, <2>1, <3>1
    <3> QED BY <1>4, <3>1, <3>2, <3>3
  <2>2. CASE ~(k <= Len(v))
    <3>1. k - Len(v) \in 1..Len(w) /\ k \in 1..(Len(v) + Len(w)) /\ k \in 1..Len(u)
      BY <1>1, <1>2, <1>3, <2>2
    <3>2. a[k] = u[k].number /\ u[k] = w[k - Len(v)]
      BY <1>1, <1>3, <2>2, <3>1
    <3>3. b[k] = y[k - Len(v)]
      BY <1>4, <1>5, <1>6, <2>2, <3>1
    <3> QED BY <1>5, <3>1, <3>2, <3>3
  <2> QED BY <2>1, <2>2
<1>8. a = b
  BY <1>1, <1>3, <1>4, <1>5, <1>6, <1>7, SeqEqual
<1> QED BY <1>8 DEF a, b, u, x, y

LEMMA ThreeParts ==
  ASSUME NEW x \in Seq(Unit), NEW y \in Seq(Unit), NEW z \in Seq(Unit)
  PROVE  (x \o y) \o z = x \o (y \o z)
BY ConcatAssociative

(* The three parts of a stream. *)
LEMMA StreamParts ==
  ASSUME NEW o \in Seq(Unit), NEW q \in Seq(Nat), NEW off \in 0..(2 * Len(q)), NEW w \in Seq(Write)
  PROVE  /\ StreamOf(o, q, off, w) = (o \o Behind(Units(q), off)) \o Units(NumbersOf(w))
         /\ Behind(Units(q), off) \in Seq(Unit) /\ Units(NumbersOf(w)) \in Seq(Unit)
         /\ StreamOf(o, q, off, w) \in Seq(Unit)
<1>1. Units(q) \in Seq(Unit) /\ Len(Units(q)) = 2 * Len(q)
  BY UnitsOK
<1>2. Behind(Units(q), off) \in Seq(Unit)
  BY <1>1, BehindOK
<1>3. Units(NumbersOf(w)) \in Seq(Unit)
  BY NumbersOfOK, UnitsOK
<1>4. StreamOf(o, q, off, w) = (o \o Behind(Units(q), off)) \o Units(NumbersOf(w))
  BY <1>1 DEF StreamOf, Behind
<1>5. o \o Behind(Units(q), off) \in Seq(Unit)
  BY <1>2, ConcatProperties
<1> QED BY <1>2, <1>3, <1>4, <1>5, ConcatProperties

(* A send moves units from the queue to the wire and the stream stays. *)
LEMMA SendKeepsStream ==
  ASSUME NEW o \in Seq(Unit), NEW q \in Seq(Nat), NEW w \in Seq(Write),
         NEW off \in {0, 1}, NEW m \in Nat, off + m <= 2 * Len(q)
  PROVE  LET sent == SubSeq(Units(q), off + 1, off + m)
         IN  /\ o \o sent \in Seq(Unit)
             /\ Len(o \o sent) = Len(o) + m
             /\ StreamOf(o \o sent, SubSeq(q, whole_sent(off + m) + 1, Len(q)),
                         offset_after(off + m), w) = StreamOf(o, q, off, w)
<1> DEFINE g == whole_sent(off + m)
           r == offset_after(off + m)
<1>16. Len(q) \in Nat /\ off + m \in Nat
  BY LenProperties
<1>17. g \in Nat /\ r \in {0, 1} /\ off + m = 2 * g + r
  BY <1>16, HalfOK DEF whole_sent, offset_after
<1> HIDE DEF g, r
<1>18. g \in 0..Len(q)
  BY <1>16, <1>17
<1> DEFINE u    == Units(q)
           sent == SubSeq(u, off + 1, off + m)
           t    == Behind(q, g)
           y    == Units(NumbersOf(w))
           a    == Behind(u, off)
           b    == Behind(u, off + m)
<1>0. Len(q) \in Nat /\ off \in Nat /\ r \in Nat
  BY <1>16, <1>17
<1>1. u \in Seq(Unit) /\ Len(u) = 2 * Len(q)
  BY UnitsOK
<1>2. t \in Seq(Nat) /\ Len(t) = Len(q) - g
  BY <1>18, BehindOK
<1>3. Units(t) = Behind(u, 2 * g)
  BY <1>18, UnitsBehind
<1>4. off \in 0..Len(u) /\ off + m \in off..Len(u) /\ off + m \in 0..Len(u)
  BY <1>0, <1>1
<1>5. 2 * g \in 0..Len(u) /\ r \in 0..(Len(u) - 2 * g) /\ r \in 0..(2 * Len(t))
  BY <1>0, <1>1, <1>2, <1>17, <1>18
<1> HIDE DEF u
<1>6. a = sent \o b
  BY <1>1, <1>4, BehindSplit
<1>7. Behind(Units(t), r) = b
  <2>1. Behind(Behind(u, 2 * g), r) = Behind(u, 2 * g + r)
    BY <1>1, <1>5, BehindBehind
  <2> QED BY <1>3, <1>17, <2>1
<1>8. sent \in Seq(Unit) /\ Len(sent) = m
  <2>1. \A k \in (off + 1)..(off + m) : u[k] \in Unit
    <3>1. ASSUME NEW k \in (off + 1)..(off + m) PROVE k \in 1..Len(u)
      BY <1>0, <1>4
    <3> QED BY <1>1, <3>1, ElementOfSeq
  <2>2. off + 1 \in Int /\ off + m \in Int
    BY <1>0
  <2>3. sent \in Seq(Unit) /\ Len(sent) = IF off + 1 <= off + m THEN off + m - (off + 1) + 1 ELSE 0
    BY <2>1, <2>2, SubSeqProperties
  <2> QED BY <1>0, <2>3
<1>9. a \in Seq(Unit) /\ b \in Seq(Unit)
  BY <1>1, <1>4, BehindOK
<1> HIDE DEF sent, a, b, t
<1>10. o \o sent \in Seq(Unit) /\ Len(o \o sent) = Len(o) + m
  BY <1>8, ConcatProperties
<1>11. (o \o sent) \o b = o \o a
  BY <1>6, <1>8, <1>9, ThreeParts, Zenon
<1>12. StreamOf(o \o sent, t, r, w) = ((o \o sent) \o Behind(Units(t), r)) \o y
  BY <1>2, <1>5, <1>10, StreamParts
<1>13. off \in 0..(2 * Len(q))
  BY <1>1, <1>4
<1>14. StreamOf(o, q, off, w) = (o \o a) \o y
  BY <1>13, StreamParts DEF a, u
<1>15. StreamOf(o \o sent, t, r, w) = StreamOf(o, q, off, w)
  BY <1>7, <1>11, <1>12, <1>14
<1> QED BY <1>10, <1>15 DEF t, sent, u, g, r, Behind

(* The pump moves a reply from the ring to the queue and the stream stays. *)
LEMMA PumpKeepsStream ==
  ASSUME NEW o \in Seq(Unit), NEW q \in Seq(Nat), NEW off \in 0..(2 * Len(q)),
         NEW x \in Write, NEW w \in Seq(Write)
  PROVE  StreamOf(o, Append(q, x.number), off, w) = StreamOf(o, q, off, <<x>> \o w)
<1> DEFINE n  == <<x.number>>
           p  == q \o n
           u  == Units(q)
           v  == Units(n)
           y  == Units(NumbersOf(w))
           a  == Behind(u, off)
<1>1. x.number \in Nat /\ n \in Seq(Nat) /\ Len(n) = 1
  BY DEF Write
<1>2. Append(q, x.number) = p /\ p \in Seq(Nat) /\ Len(p) = Len(q) + 1 /\ Len(q) \in Nat
  <2>1. Append(q, x.number) = p
    BY <1>1, AppendIsConcat
  <2>2. p \in Seq(Nat) /\ Len(p) = Len(q) + Len(n)
    BY <1>1, ConcatProperties
  <2>3. Len(q) \in Nat
    BY LenProperties
  <2> HIDE DEF p, n
  <2> QED BY <1>1, <2>1, <2>2, <2>3
<1>3. NumbersOf(<<x>>) = n /\ <<x>> \in Seq(Write)
  BY DEF NumbersOf
<1>4. Units(p) = u \o v
  BY <1>1, UnitsConcat
<1>5. u \in Seq(Unit) /\ Len(u) = 2 * Len(q) /\ v \in Seq(Unit) /\ y \in Seq(Unit)
  BY <1>1, NumbersOfOK, UnitsOK
<1>6. NumbersOf(<<x>> \o w) = n \o NumbersOf(w)
  BY <1>3, NumbersOfConcat
<1>7. Units(NumbersOf(<<x>> \o w)) = v \o y
  BY <1>1, <1>6, NumbersOfOK, UnitsConcat
<1>8. <<x>> \o w \in Seq(Write)
  BY <1>3, ConcatProperties
<1> DEFINE z == <<x>> \o w
<1> HIDE DEF n, p, u, v, y, z
<1>9. Behind(u \o v, off) = a \o v /\ a \in Seq(Unit)
  BY <1>5, BehindConcat, BehindOK
<1>10. off \in 0..(2 * Len(p))
  BY <1>2
<1> HIDE DEF a
<1>11. StreamOf(o, p, off, w) = (o \o (a \o v)) \o y
  <2>1. StreamOf(o, p, off, w) = (o \o Behind(Units(p), off)) \o y
    BY <1>2, <1>10, StreamParts DEF y
  <2> QED BY <1>4, <1>9, <2>1, Zenon DEF a
<1>12. StreamOf(o, q, off, z) = (o \o a) \o (v \o y)
  <2>1. z \in Seq(Write) /\ Units(NumbersOf(z)) = v \o y
    BY <1>7, <1>8 DEF z
  <2>2. StreamOf(o, q, off, z) = (o \o a) \o Units(NumbersOf(z))
    BY <2>1, StreamParts, Zenon DEF a, u
  <2> QED BY <2>1, <2>2, Zenon
<1>13. o \o a \in Seq(Unit) /\ (o \o a) \o v = o \o (a \o v)
  <2>1. a \in Seq(Unit)
    BY <1>9
  <2>2. o \o a \in Seq(Unit)
    BY <2>1, ConcatProperties
  <2>3. v \in Seq(Unit)
    BY <1>5
  <2> QED BY <2>1, <2>2, <2>3, ThreeParts, ZenonT(40)
<1>14. ((o \o a) \o v) \o y = (o \o a) \o (v \o y)
  BY <1>5, <1>13, ThreeParts, Zenon
<1> QED BY <1>2, <1>11, <1>12, <1>13, <1>14, Zenon DEF z

(* Replies queued by the server go to the stream's end. *)
LEMMA OfferExtendsStream ==
  ASSUME NEW o \in Seq(Unit), NEW q \in Seq(Nat), NEW off \in 0..(2 * Len(q)),
         NEW w \in Seq(Write), NEW a \in Seq(Write)
  PROVE  StreamOf(o, q, off, w \o a) = StreamOf(o, q, off, w) \o Units(NumbersOf(a))
<1> DEFINE x == o \o Behind(Units(q), off)
           y == Units(NumbersOf(w))
           z == Units(NumbersOf(a))
           v == w \o a
<1>1. v \in Seq(Write)
  BY ConcatProperties
<1>2. Units(NumbersOf(v)) = y \o z
  BY NumbersOfOK, NumbersOfConcat, UnitsConcat
<1>3. y \in Seq(Unit) /\ z \in Seq(Unit)
  BY NumbersOfOK, UnitsOK
<1>4. Behind(Units(q), off) \in Seq(Unit) /\ StreamOf(o, q, off, w) = x \o y
  BY StreamParts
<1>5. x \in Seq(Unit)
  BY <1>4, ConcatProperties
<1> HIDE DEF v
<1>6. StreamOf(o, q, off, v) = x \o (y \o z)
  <2>1. StreamOf(o, q, off, v) = x \o Units(NumbersOf(v))
    BY <1>1, StreamParts
  <2> QED BY <1>2, <2>1, Zenon
<1> HIDE DEF x, y, z
<1>7. (x \o y) \o z = x \o (y \o z)
  BY <1>3, <1>5, ThreeParts, Zenon
<1> QED BY <1>4, <1>6, <1>7, Zenon DEF v, z
-----------------------------------------------------------------------------
(* A stream of whole replies, in order and none twice, to some of the      *)
(* first top requests.                                                     *)
Whole(x, top) ==
  \E n \in Seq(Nat) :
    /\ x = Units(n) /\ Len(n) <= top
    /\ \A k \in 1..(Len(n) - 1) : n[k] < n[k + 1]
    /\ \A k \in 1..Len(n) : n[k] <= top

LEMMA WholeExtends ==
  ASSUME NEW x, NEW top \in Nat, NEW hi \in Nat, Whole(x, top),
         NEW a \in Seq(Nat), Follows(a, top, hi)
  PROVE  Whole(x \o Units(a), hi)
<1>1. PICK n \in Seq(Nat) :
        /\ x = Units(n) /\ Len(n) <= top
        /\ \A k \in 1..(Len(n) - 1) : n[k] < n[k + 1]
        /\ \A k \in 1..Len(n) : n[k] <= top
  BY DEF Whole
<1>2. /\ top + Len(a) <= hi
      /\ \A k \in 1..(Len(a) - 1) : a[k] < a[k + 1]
      /\ \A k \in 1..Len(a) : top < a[k] /\ a[k] <= hi
  BY DEF Follows
<1> DEFINE m == n \o a
<1>3. /\ m \in Seq(Nat) /\ Len(m) = Len(n) + Len(a)
      /\ \A k \in 1..(Len(n) + Len(a)) : m[k] = IF k <= Len(n) THEN n[k] ELSE a[k - Len(n)]
  BY ConcatProperties
<1>4. Units(m) = x \o Units(a)
  BY <1>1, UnitsConcat
<1>5. Len(n) \in Nat /\ Len(a) \in Nat
  BY LenProperties
<1>6. \A k \in 1..Len(n) : n[k] \in Nat
  BY ElementOfSeq
<1>7. \A k \in 1..Len(a) : a[k] \in Nat
  BY ElementOfSeq
<1> HIDE DEF m
<1>8. Len(m) <= hi
  BY <1>1, <1>2, <1>3, <1>5
<1>9. ASSUME NEW k \in 1..Len(m) PROVE m[k] <= hi
  <2>1. CASE k <= Len(n)
    <3>1. k \in 1..Len(n) /\ k \in 1..(Len(n) + Len(a))
      BY <1>3, <1>5, <2>1
    <3>2. m[k] = n[k] /\ n[k] <= top /\ n[k] \in Nat
      BY <1>1, <1>3, <1>6, <2>1, <3>1
    <3>3. top <= hi
      BY <1>2, <1>5
    <3> QED BY <3>2, <3>3
  <2>2. CASE ~(k <= Len(n))
    <3>1. k - Len(n) \in 1..Len(a) /\ k \in 1..(Len(n) + Len(a))
      BY <1>3, <1>5, <2>2
    <3> QED BY <1>2, <1>3, <2>2, <3>1
  <2> QED BY <2>1, <2>2
<1>10. ASSUME NEW k \in 1..(Len(m) - 1) PROVE m[k] < m[k + 1]
  <2>1. k \in 1..(Len(n) + Len(a)) /\ k + 1 \in 1..(Len(n) + Len(a)) /\ k \in Nat
    BY <1>3, <1>5
  <2>2. CASE k + 1 <= Len(n)
    <3>1. k \in 1..(Len(n) - 1) /\ k <= Len(n)
      BY <1>5, <2>1, <2>2
    <3> QED BY <1>1, <1>3, <2>1, <2>2, <3>1
  <2>3. CASE k = Len(n)
    <3>1. k \in 1..Len(n) /\ (k + 1) - Len(n) = 1 /\ 1 \in 1..Len(a) /\ ~(k + 1 <= Len(n))
      BY <1>5, <2>1, <2>3
    <3>2. m[k] = n[k] /\ m[k + 1] = a[1]
      BY <1>3, <2>1, <2>3, <3>1, SMTT(30)
    <3>3. n[k] <= top /\ top < a[1] /\ n[k] \in Nat /\ a[1] \in Nat
      BY <1>1, <1>2, <1>6, <1>7, <3>1
    <3> QED BY <3>2, <3>3
  <2>4. CASE k > Len(n)
    <3> DEFINE j == k - Len(n)
    <3>1. /\ j \in 1..(Len(a) - 1) /\ (k + 1) - Len(n) = j + 1
          /\ ~(k <= Len(n)) /\ ~(k + 1 <= Len(n))
      BY <1>5, <2>1, <2>4
    <3>2. m[k] = a[j] /\ m[k + 1] = a[j + 1]
      BY <1>3, <2>1, <3>1, SMTT(30)
    <3> QED BY <1>2, <3>1, <3>2
  <2> QED BY <1>5, <2>1, <2>2, <2>3, <2>4
<1> QED BY <1>3, <1>4, <1>8, <1>9, <1>10, Zenon DEF Whole

LEMMA WholeNumbers ==
  ASSUME NEW x, NEW top, Whole(x, top)
  PROVE  LET n == Numbers(x)
         IN  /\ x = Units(n)
             /\ \A k \in 1..(Len(n) - 1) : n[k] < n[k + 1]
             /\ \A k \in 1..Len(n) : n[k] <= top
<1>1. PICK n \in Seq(Nat) :
        /\ x = Units(n) /\ Len(n) <= top
        /\ \A k \in 1..(Len(n) - 1) : n[k] < n[k + 1]
        /\ \A k \in 1..Len(n) : n[k] <= top
  BY DEF Whole
<1>2. /\ Len(x) = 2 * Len(n) /\ Len(n) \in Nat
      /\ \A k \in 1..(2 * Len(n)) : x[k] = <<n[(k + 1) \div 2], (k + 1) % 2>>
  BY <1>1, UnitsOK, LenProperties
<1>3. Len(x) \div 2 = Len(n)
  BY <1>2
<1>4. ASSUME NEW k \in 1..Len(n) PROVE x[2 * k][1] = n[k]
  <2>1. 2 * k \in 1..(2 * Len(n)) /\ (2 * k + 1) \div 2 = k
    BY <1>2
  <2>2. x[2 * k] = <<n[k], (2 * k + 1) % 2>>
    BY <1>2, <2>1
  <2> QED BY <2>2
<1>5. Numbers(x) = n
  <2>1. n = [k \in 1..Len(n) |-> n[k]]
    BY LenProperties
  <2> QED BY <1>3, <1>4, <2>1 DEF Numbers
<1> QED BY <1>1, <1>5

LEMMA WholeEmpty == ASSUME NEW top \in Nat PROVE Whole(<<>>, top)
<1>1. <<>> \in Seq(Nat) /\ Len(<<>>) = 0
  OBVIOUS
<1>2. Units(<<>>) \in Seq(Unit) /\ Len(Units(<<>>)) = 0
  <2>1. Units(<<>>) \in Seq(Unit) /\ Len(Units(<<>>)) = 2 * Len(<<>>)
    BY <1>1, UnitsOK, Zenon
  <2> QED BY <1>1, <2>1
<1>3. Units(<<>>) = <<>>
  BY <1>2, EmptySeq
<1>4. /\ Len(<<>>) <= top /\ \A k \in 1..(Len(<<>>) - 1) : <<>>[k] < <<>>[k + 1]
      /\ \A k \in 1..Len(<<>>) : <<>>[k] <= top
  BY <1>1
<1> QED BY <1>1, <1>3, <1>4, Zenon DEF Whole

(***************************************************************************)
(* The invariant behind RepliesWhole.  A client without a connection has   *)
(* been sent nothing, so a new connection's stream starts empty.           *)
(***************************************************************************)
ReplyInv ==
  /\ out \in [Clients -> Seq(Unit)]
  /\ \A s \in Slots : conns[s].in_use => Whole(Stream(s), rx[conns[s].conn].count)
  /\ \A c \in Clients : out[c] = <<>> \/ \E s \in Slots : conns[s].in_use /\ conns[s].sock = c

(* The table cs and the ring rg hold the streams conns and ring do, and    *)
(* differ from them for the connection in slot s at most.                  *)
Carries(s, cs, rg) ==
  /\ \A t \in Slots \ {s} :
       /\ cs[t] = conns[t]
       /\ conns[t].in_use => WritesFor(rg, conns[t].conn) = WritesFor(ring, conns[t].conn)
  /\ StreamOf(out[conns[s].sock], cs[s].queue, cs[s].q_offset, WritesFor(rg, conns[s].conn)) =
       Stream(s)

LEMMA StreamIs ==
  ASSUME NEW s
  PROVE  Stream(s) = StreamOf(out[conns[s].sock], conns[s].queue, conns[s].q_offset,
                              WritesFor(ring, conns[s].conn))
BY DEF Stream, StreamOf, NumbersOf

LEMMA CarriesNow ==
  ASSUME NEW s \in Slots PROVE Carries(s, conns, ring)
BY StreamIs DEF Carries

(* A stream that is unchanged, though others may not be. *)
LEMMA SameStream ==
  ASSUME NEW t, conns'[t] = conns[t], out'[conns[t].sock] = out[conns[t].sock],
         WritesFor(ring', conns[t].conn) = WritesFor(ring, conns[t].conn)
  PROVE  Stream(t)' = Stream(t)
<1>1. Stream(t)' = StreamOf(out'[conns'[t].sock], conns'[t].queue, conns'[t].q_offset,
                            WritesFor(ring', conns'[t].conn))
  BY DEF Stream, StreamOf, NumbersOf
<1> QED BY <1>1, StreamIs

LEMMA SameReplies ==
  ASSUME ReplyInv, conns' = conns, ring' = ring, rx' = rx, out' = out
  PROVE  ReplyInv'
<1>1. \A s \in Slots : Stream(s)' = Stream(s)
  BY SameStream
<1> QED BY <1>1 DEF ReplyInv

LEMMA DropReplies ==
  ASSUME Steady, ReplyInv, NEW cs, Alike(cs), NEW rg, Addressed(rg),
         NEW s \in Slots, conns[s].in_use, Carries(s, cs, rg), gs_net_drop(s, cs, rg)
  PROVE  ReplyInv'
<1> DEFINE c  == conns[s].sock
           id == conns[s].conn
<1>1. c \in Clients /\ id \in Ids
  BY DEF Steady, ConnsOK
<1>2. cs[s].sock = c /\ cs[s].conn = id /\ cs \in [Slots -> Conn]
  BY DEF Alike
<1>3. /\ ring' = drop_writes_for(rg, id)
      /\ rx' = [rx EXCEPT ![id] = NewRx] /\ conns' = [cs EXCEPT ![s] = FreeConn]
      /\ out' = [out EXCEPT ![c] = <<>>]
  BY <1>2 DEF gs_net_drop
<1>4. \A t \in Slots \ {s} : conns[t].in_use =>
        conns[t].conn # id /\ conns[t].sock # c /\ conns[t].sock \in Clients /\ conns[t].conn \in Ids
  BY Tables DEF Steady, ConnsOK
<1> HIDE DEF c, id
<1>5. ~conns'[s].in_use /\ \A t \in Slots \ {s} : conns'[t] = conns[t]
  BY <1>2, <1>3, FreeIsConn DEF Carries
<1>6. /\ out' \in [Clients -> Seq(Unit)] /\ out'[c] = <<>>
      /\ \A d \in Clients : d # c => out'[d] = out[d]
  BY <1>1, <1>3, EmptySeq DEF ReplyInv
<1>7. \A i \in Ids : i # id => rx'[i] = rx[i]
  BY <1>1, <1>3 DEF Steady, ServerOK
<1>8. ASSUME NEW t \in Slots, conns'[t].in_use
      PROVE  Whole(Stream(t)', rx'[conns'[t].conn].count)
  <2>1. t # s /\ conns[t].in_use /\ conns'[t] = conns[t]
    BY <1>5, <1>8
  <2>2. out'[conns[t].sock] = out[conns[t].sock] /\ rx'[conns[t].conn] = rx[conns[t].conn]
    BY <1>4, <1>6, <1>7, <2>1
  <2>3. WritesFor(ring', conns[t].conn) = WritesFor(ring, conns[t].conn)
    <3> DEFINE d == conns[t].conn
    <3>1. WritesFor(rg, d) = WritesFor(ring, d) /\ d # id
      BY <1>4, <2>1 DEF Carries
    <3>2. rg \in Seq(Write)
      BY DEF Addressed
    <3> HIDE DEF d
    <3>3. WritesFor(drop_writes_for(rg, id), d) = IF d = id THEN <<>> ELSE WritesFor(rg, d)
      BY <3>2, DropKeepsOthers
    <3>4. WritesFor(ring', d) = WritesFor(ring, d)
      BY <1>3, <3>1, <3>3
    <3> QED BY <3>4 DEF d
  <2>4. Stream(t)' = Stream(t)
    BY <2>1, <2>2, <2>3, SameStream
  <2>5. Whole(Stream(t), rx[conns[t].conn].count)
    BY <2>1 DEF ReplyInv
  <2> QED BY <2>1, <2>2, <2>4, <2>5
<1>9. ASSUME NEW d \in Clients
      PROVE  out'[d] = <<>> \/ \E t \in Slots : conns'[t].in_use /\ conns'[t].sock = d
  <2>1. CASE d = c
    BY <1>6, <2>1
  <2>2. CASE d # c /\ out[d] = <<>>
    BY <1>6, <2>2
  <2>3. CASE d # c /\ \E t \in Slots : conns[t].in_use /\ conns[t].sock = d
    BY <1>5, <2>3 DEF c
  <2> QED BY <2>1, <2>2, <2>3 DEF ReplyInv
<1> QED BY <1>6, <1>8, <1>9 DEF ReplyInv

LEMMA FlushReplies ==
  ASSUME Steady, ReplyInv, NEW cs, Alike(cs), NEW rg, Addressed(rg),
         NEW s \in Slots, conns[s].in_use, Carries(s, cs, rg), gs_net_flush(s, cs, rg)
  PROVE  ReplyInv'
<1> DEFINE c    == cs[s].sock
           q    == cs[s].queue
           off  == cs[s].q_offset
           room == SendBuffer - down[c]
           left == 2 * Len(q) - off
           m    == Least(left, room)
           gone == whole_sent(off + m)
           rest == SubSeq(q, gone + 1, Len(q))
           at   == offset_after(off + m)
           sent == SubSeq(Units(q), off + 1, off + m)
           w    == WritesFor(rg, conns[s].conn)
<1>1. /\ cs \in [Slots -> Conn] /\ cs[s] \in Conn /\ c = conns[s].sock /\ cs[s].in_use
      /\ cs[s].conn = conns[s].conn
      /\ q = <<>> => off = 0
  BY DEF Alike
<1>2. c \in Clients
  BY <1>1 DEF Steady, ConnsOK
<1>3. q \in Seq(Nat) /\ off \in {0, 1} /\ room \in Nat
  BY <1>1, <1>2, NetAssumption DEF Steady, ClientsOK, Conn
<1>4. CASE left > 0 /\ link[c] = "reset"
  <2>1. gs_net_drop(s, cs, rg)
    BY <1>4 DEF gs_net_flush
  <2> QED BY <2>1, DropReplies
<1>5. CASE ~(left > 0 /\ link[c] = "reset")
  <2> DEFINE wait == blocked(m, left)
  <2>1. /\ conns' = [cs EXCEPT ![s].queue = rest, ![s].q_offset = at, ![s].want_write = wait]
        /\ out' = [out EXCEPT ![c] = @ \o sent]
        /\ ring' = rg /\ rx' = rx
    BY <1>5 DEF gs_net_flush
  <2> HIDE DEF c, q, off, room
  <2>2. /\ left \in Nat /\ m \in Nat /\ m <= room /\ gone \in 0..Len(q) /\ at \in {0, 1}
        /\ off + m = 2 * gone + at
    <3>1. q \in Seq(Nat) /\ off \in {0, 1} /\ (q = <<>> => off = 0) /\ room \in Nat
      BY <1>1, <1>3
    <3> QED BY <3>1, QueueAfterSend, Zenon
  <2>3. m <= left /\ off + m <= 2 * Len(q)
    <3>1. m <= left
      BY <1>3, <2>2, LeastOK
    <3> HIDE DEF m
    <3> QED BY <1>3, <2>2, <3>1, LenProperties DEF left
  <2>4. out[c] \in Seq(Unit)
    BY <1>2 DEF ReplyInv
  <2>5. w \in Seq(Write)
    BY KeptEntries DEF Addressed, WritesFor
  <2> HIDE DEF left, m, gone, at, w, wait
  <2>6. /\ out[c] \o sent \in Seq(Unit)
        /\ StreamOf(out[c] \o sent, rest, at, w) = StreamOf(out[c], q, off, w)
    <3> DEFINE o == out[c]
    <3> HIDE DEF o
    <3>1. /\ o \in Seq(Unit) /\ q \in Seq(Nat) /\ w \in Seq(Write) /\ off \in {0, 1} /\ m \in Nat
          /\ off + m <= 2 * Len(q)
      BY <1>3, <2>2, <2>3, <2>4, <2>5 DEF o
    <3>2. o \o sent \in Seq(Unit) /\ StreamOf(o \o sent, rest, at, w) = StreamOf(o, q, off, w)
      BY <3>1, SendKeepsStream DEF gone, at
    <3> QED BY <3>2 DEF o
  <2> HIDE DEF sent, rest
  <2>7. /\ out' \in [Clients -> Seq(Unit)] /\ out'[c] = out[c] \o sent
        /\ \A d \in Clients : d # c => out'[d] = out[d]
    BY <1>2, <2>1, <2>6 DEF ReplyInv
  <2>8. /\ \A t \in Slots \ {s} : conns'[t] = cs[t]
        /\ conns'[s].in_use = cs[s].in_use /\ conns'[s].sock = cs[s].sock
        /\ conns'[s].conn = cs[s].conn /\ conns'[s].queue = rest /\ conns'[s].q_offset = at
    BY <1>1, <2>1 DEF Conn
  <2>9. ASSUME NEW t \in Slots, conns'[t].in_use
        PROVE  Whole(Stream(t)', rx'[conns'[t].conn].count)
    <3>1. CASE t = s
      <4>1. Stream(s)' = StreamOf(out'[conns'[s].sock], conns'[s].queue, conns'[s].q_offset,
                                  WritesFor(ring', conns'[s].conn))
        BY DEF Stream, StreamOf, NumbersOf
      <4>2. conns'[s].sock = c /\ WritesFor(ring', conns'[s].conn) = w
        BY <1>1, <2>1, <2>8 DEF c, w
      <4>3. Stream(s)' = StreamOf(out[c] \o sent, rest, at, w)
        BY <2>7, <2>8, <4>1, <4>2
      <4>4. StreamOf(out[c], q, off, w) = Stream(s)
        BY <1>1 DEF Carries, q, off, w
      <4>5. Whole(Stream(s), rx[conns[s].conn].count)
        BY DEF ReplyInv
      <4> QED BY <1>1, <2>1, <2>6, <2>8, <3>1, <4>3, <4>4, <4>5
    <3>2. CASE t # s
      <4>1. conns'[t] = conns[t] /\ WritesFor(ring', conns[t].conn) = WritesFor(ring, conns[t].conn)
            /\ conns[t].in_use
        BY <2>1, <2>8, <2>9, <3>2 DEF Carries
      <4>2. conns[t].sock # c /\ conns[t].sock \in Clients
        BY <1>1, <3>2, <4>1, Tables DEF Steady, ConnsOK
      <4>3. Stream(t)' = Stream(t)
        BY <2>7, <4>1, <4>2, SameStream
      <4>4. Whole(Stream(t), rx[conns[t].conn].count)
        BY <4>1 DEF ReplyInv
      <4> QED BY <2>1, <4>1, <4>3, <4>4
    <3> QED BY <3>1, <3>2
  <2>10. ASSUME NEW d \in Clients
         PROVE  out'[d] = <<>> \/ \E t \in Slots : conns'[t].in_use /\ conns'[t].sock = d
    <3>1. CASE d = c
      BY <1>1, <2>8, <3>1 DEF c
    <3>2. CASE d # c /\ out[d] = <<>>
      BY <2>7, <3>2
    <3>3. CASE d # c /\ \E t \in Slots : conns[t].in_use /\ conns[t].sock = d
      BY <1>1, <2>8, <3>3 DEF Carries
    <3> QED BY <3>1, <3>2, <3>3 DEF ReplyInv
  <2> QED BY <2>7, <2>9, <2>10 DEF ReplyInv
<1> QED BY <1>4, <1>5

(* The server's answer: replies join the end of one stream. *)
LEMMA OfferReplies ==
  ASSUME Steady, ReplyInv, NEW s \in Slots, conns[s].in_use, NEW k \in Nat,
         NEW res, res = on_bytes(conns[s].conn, k),
         ring' = res.ring, rx' = [rx EXCEPT ![conns[s].conn] = res.rx],
         conns' = conns \/ conns' = [conns EXCEPT ![s].resume = res.full], out' = out
  PROVE  ReplyInv'
<1> DEFINE id == conns[s].conn
           c  == conns[s].sock
           q  == conns[s].queue
           off == conns[s].q_offset
           o  == out[c]
<1>1. ServerOK /\ id \in Ids /\ c \in Clients /\ conns \in [Slots -> Conn] /\ conns[s] \in Conn
  BY DEF Steady, ConnsOK
<1>2. PICK a \in Seq(Write) :
        /\ res.ring = ring \o a /\ \A j \in 1..Len(a) : a[j].conn = id
        /\ Follows(NumbersOf(a), rx[id].count, res.rx.count)
  BY <1>1, OnBytesOK
<1>3. res.rx \in Rx /\ rx \in [Ids -> Rx] /\ ring \in Seq(Write)
  BY <1>1, OnBytesOK DEF ServerOK
<1>4. \A t \in Slots : /\ conns'[t].in_use <=> conns[t].in_use
                       /\ conns'[t].sock = conns[t].sock
                       /\ conns'[t].conn = conns[t].conn /\ conns'[t].queue = conns[t].queue
                       /\ conns'[t].q_offset = conns[t].q_offset
  <2>1. CASE conns' = conns
    BY <2>1
  <2>2. CASE conns' = [conns EXCEPT ![s].resume = res.full]
    <3> DEFINE full == res.full
    <3>1. conns' = [conns EXCEPT ![s].resume = full]
      BY <2>2
    <3> HIDE DEF full
    <3>2. /\ \A t \in Slots \ {s} : conns'[t] = conns[t]
          /\ conns'[s].in_use = conns[s].in_use /\ conns'[s].sock = conns[s].sock
          /\ conns'[s].conn = conns[s].conn /\ conns'[s].queue = conns[s].queue
          /\ conns'[s].q_offset = conns[s].q_offset
      BY <1>1, <3>1 DEF Conn
    <3> QED BY <3>2
  <2> QED BY <2>1, <2>2
<1>5. q \in Seq(Nat) /\ off \in 0..(2 * Len(q)) /\ o \in Seq(Unit)
  <2>1. q \in Seq(Nat) /\ off \in {0, 1} /\ (q = <<>> => off = 0)
    BY <1>1 DEF Steady, ConnsOK, Conn
  <2>2. o \in Seq(Unit)
    BY <1>1 DEF ReplyInv
  <2> HIDE DEF q, off
  <2>3. Len(q) \in Nat /\ (Len(q) = 0 => q = <<>>)
    BY <2>1, EmptySeq, LenProperties
  <2>4. off \in 0..(2 * Len(q))
    BY <2>1, <2>3
  <2> QED BY <2>1, <2>2, <2>4
<1>6. \A d : WritesFor(ring', d) = WritesFor(ring, d) \o WritesFor(a, d)
  BY <1>2, <1>3, KeptConcat DEF WritesFor
<1>7. WritesFor(a, id) = a
  BY <1>2, KeptAll DEF WritesFor
<1>8. ASSUME NEW d, d # id PROVE WritesFor(ring', d) = WritesFor(ring, d)
  <2>1. WritesFor(a, d) = <<>>
    BY <1>2, <1>8, KeptNone DEF WritesFor
  <2>2. WritesFor(ring, d) \in Seq(Write)
    BY <1>3, KeptEntries DEF WritesFor
  <2> QED BY <1>6, <2>1, <2>2, ConcatEmptySeq
<1>9. \A t \in Slots : Stream(t)' = StreamOf(out[conns[t].sock], conns[t].queue, conns[t].q_offset,
                                             WritesFor(ring', conns[t].conn))
  <2>1. ASSUME NEW t \in Slots
        PROVE  Stream(t)' = StreamOf(out'[conns'[t].sock], conns'[t].queue, conns'[t].q_offset,
                                     WritesFor(ring', conns'[t].conn))
    BY DEF Stream, StreamOf, NumbersOf
  <2> QED BY <1>4, <2>1
<1>10. Whole(Stream(s)', rx'[conns'[s].conn].count)
  <2> DEFINE w == WritesFor(ring, id)
             x == StreamOf(o, q, off, w)
             n == NumbersOf(a)
  <2>1. w \in Seq(Write)
    BY <1>3, KeptEntries DEF WritesFor
  <2>2. WritesFor(ring', id) = w \o a
    BY <1>6, <1>7
  <2> HIDE DEF w, q, off, o
  <2>3. StreamOf(o, q, off, w \o a) = x \o Units(n)
    BY <1>5, <2>1, OfferExtendsStream
  <2>4. Stream(s)' = StreamOf(o, q, off, WritesFor(ring', id))
    BY <1>9 DEF o, q, off
  <2>5. Stream(s)' = x \o Units(n)
    BY <2>2, <2>3, <2>4
  <2>6. Whole(Stream(s), rx[id].count) /\ Stream(s) = x
    BY StreamIs DEF ReplyInv, o, q, off, w
  <2>7. n \in Seq(Nat) /\ rx[id].count \in Nat /\ res.rx.count \in Nat
    BY <1>1, <1>3, NumbersOfOK DEF Rx
  <2> HIDE DEF x, n
  <2>8. Whole(x \o Units(n), res.rx.count)
    BY <1>2, <2>6, <2>7, WholeExtends DEF n
  <2>9. rx'[conns'[s].conn].count = res.rx.count
    BY <1>1, <1>3, <1>4
  <2> QED BY <2>5, <2>8, <2>9
<1>11. ASSUME NEW t \in Slots, conns'[t].in_use PROVE Whole(Stream(t)', rx'[conns'[t].conn].count)
  <2>1. conns[t].in_use
    BY <1>4, <1>11
  <2>2. CASE t = s
    BY <1>10, <2>2
  <2>3. CASE t # s
    <3>1. conns[t].conn # id /\ conns[t].conn \in Ids
      BY <2>1, <2>3, Tables DEF Steady, ConnsOK
    <3>2. Stream(t)' = Stream(t)
      BY <1>8, <1>9, <3>1, StreamIs
    <3>3. rx'[conns'[t].conn] = rx[conns[t].conn]
      BY <1>1, <1>3, <1>4, <3>1
    <3>4. Whole(Stream(t), rx[conns[t].conn].count)
      BY <2>1 DEF ReplyInv
    <3> QED BY <3>2, <3>3, <3>4
  <2> QED BY <2>2, <2>3
<1>12. ASSUME NEW d \in Clients
       PROVE  out'[d] = <<>> \/ \E t \in Slots : conns'[t].in_use /\ conns'[t].sock = d
  <2>1. out[d] = <<>> \/ \E t \in Slots : conns[t].in_use /\ conns[t].sock = d
    BY DEF ReplyInv
  <2> QED BY <1>4, <2>1
<1>13. out' \in [Clients -> Seq(Unit)]
  BY DEF ReplyInv
<1> QED BY <1>11, <1>12, <1>13 DEF ReplyInv

LEMMA EmptyStream == StreamOf(<<>>, <<>>, 0, <<>>) = <<>>
<1>1. <<>> \in Seq(Unit) /\ <<>> \in Seq(Nat) /\ <<>> \in Seq(Write) /\ Len(<<>>) = 0
  OBVIOUS
<1>2. 0 \in 0..(2 * Len(<<>>))
  BY <1>1
<1>3. Len(Units(<<>>)) = 0 /\ Units(<<>>) \in Seq(Unit)
  <2>1. Units(<<>>) \in Seq(Unit) /\ Len(Units(<<>>)) = 2 * Len(<<>>)
    BY <1>1, UnitsOK, Zenon
  <2> QED BY <1>1, <2>1
<1>4. Units(<<>>) = <<>>
  BY <1>3, EmptySeq
<1>5. NumbersOf(<<>>) = <<>>
  BY <1>1 DEF NumbersOf
<1>6. SubSeq(<<>>, 0 + 1, 2 * Len(<<>>)) = <<>>
  BY <1>1, SubSeqEmpty
<1>7. <<>> \o <<>> = <<>>
  OBVIOUS
<1> QED BY <1>4, <1>5, <1>6, <1>7, Zenon DEF StreamOf

(* A new connection starts with an empty stream. *)
LEMMA AcceptReplies ==
  ASSUME Steady, ReplyInv, next_conn \in Ids, AcceptOne PROVE ReplyInv'
<1> DEFINE c    == Head(backlog)
           open == {s \in Slots : ~conns[s].in_use}
           first == CHOOSE s \in open : \A t \in open : s <= t
<1>1. PICK watchable \in BOOLEAN :
      LET ok == watchable /\ open # {} /\ Accepts(next_conn) IN
      /\ backlog # <<>>
      /\ conns' = IF ok THEN [conns EXCEPT ![first].in_use = TRUE, ![first].sock = c,
                                           ![first].conn = next_conn]
                  ELSE conns
      /\ UNCHANGED <<ring, rx, out>>
  BY Zenon DEF AcceptOne
<1> DEFINE ok == watchable /\ open # {} /\ Accepts(next_conn)
<1>2. CASE ~ok
  BY <1>1, <1>2, SameReplies
<1>3. CASE ok
  <2>1. PICK slot \in Slots : slot = first /\ ~conns[slot].in_use
    <3>1. open \in SUBSET Nat /\ open # {}
      BY <1>3 DEF Slots
    <3>2. \E s \in open : \A t \in open : s <= t
      BY <3>1, LeastNat
    <3>3. first \in open
      BY <3>2
    <3> QED BY <3>3
  <2>2. /\ UNCHANGED <<ring, rx, out>>
        /\ conns' = [conns EXCEPT ![slot].in_use = TRUE, ![slot].sock = c,
                                  ![slot].conn = next_conn]
    BY <1>1, <1>3, <2>1
  <2>3. next_conn \notin known
    BY <1>3 DEF Accepts
  <2>4. c \in Clients /\ \A s \in Slots : conns[s].in_use => conns[s].sock # c
    <3>1. backlog \in Seq(Clients) /\ backlog # <<>>
      BY <1>1 DEF Steady, ClientsOK
    <3>2. c = backlog[1] /\ 1 \in 1..Len(backlog)
      BY <3>1
    <3> HIDE DEF c
    <3> QED BY <3>1, <3>2 DEF Steady, SocketsInv
  <2> HIDE DEF first, open, ok, c
  <2>5. conns \in [Slots -> Conn] /\ conns[slot] \in Conn /\ conns[slot] = FreeConn
    BY <2>1 DEF Steady, ConnsOK
  <2>6. /\ \A t \in Slots \ {slot} : conns'[t] = conns[t]
        /\ conns'[slot].in_use /\ conns'[slot].sock = c /\ conns'[slot].conn = next_conn
        /\ conns'[slot].queue = conns[slot].queue /\ conns'[slot].q_offset = conns[slot].q_offset
    BY <2>1, <2>2, <2>5 DEF Conn
  <2>7. out[c] = <<>>
    BY <2>4 DEF ReplyInv
  <2>8. WritesFor(ring, next_conn) = <<>>
    <3>1. ring \in Seq(Write) /\ \A k \in 1..Len(ring) : ring[k].conn \notin {next_conn}
      BY <2>3 DEF Steady, ServerOK, TablesAgree
    <3> QED BY <3>1, KeptNone DEF WritesFor
  <2>9. Whole(Stream(slot)', rx'[conns'[slot].conn].count)
    <3>1. Stream(slot)' = StreamOf(out'[conns'[slot].sock], conns'[slot].queue,
                                   conns'[slot].q_offset, WritesFor(ring', conns'[slot].conn))
      BY DEF Stream, StreamOf, NumbersOf
    <3>2. conns'[slot].queue = <<>> /\ conns'[slot].q_offset = 0
      BY <2>5, <2>6, FreeIsConn
    <3>3. Stream(slot)' = StreamOf(<<>>, <<>>, 0, <<>>)
      BY <2>2, <2>6, <2>7, <2>8, <3>1, <3>2
    <3>4. StreamOf(<<>>, <<>>, 0, <<>>) = <<>>
      BY EmptyStream
    <3>5. rx'[conns'[slot].conn].count \in Nat
      BY <2>2, <2>6 DEF Steady, ServerOK, Rx
    <3> QED BY <3>3, <3>4, <3>5, WholeEmpty
  <2>10. ASSUME NEW t \in Slots, conns'[t].in_use
         PROVE  Whole(Stream(t)', rx'[conns'[t].conn].count)
    <3>1. CASE t = slot
      BY <2>9, <3>1
    <3>2. CASE t # slot
      <4>1. conns'[t] = conns[t] /\ conns[t].in_use
        BY <2>6, <2>10, <3>2
      <4>2. Stream(t)' = Stream(t)
        BY <2>2, <4>1, SameStream
      <4> QED BY <2>2, <4>1, <4>2 DEF ReplyInv
    <3> QED BY <3>1, <3>2
  <2>11. ASSUME NEW d \in Clients
         PROVE  out'[d] = <<>> \/ \E t \in Slots : conns'[t].in_use /\ conns'[t].sock = d
    <3>1. CASE out[d] = <<>>
      BY <2>2, <3>1
    <3>2. CASE \E t \in Slots : conns[t].in_use /\ conns[t].sock = d
      BY <2>1, <2>6, <3>2
    <3> QED BY <3>1, <3>2 DEF ReplyInv
  <2> QED BY <2>2, <2>10, <2>11 DEF ReplyInv
<1> QED BY <1>2, <1>3

LEMMA ReopenReplies ==
  ASSUME Reopen PROVE ReplyInv'
<1>1. out' = [c \in Clients |-> <<>>] /\ \A s \in Slots : ~conns'[s].in_use
  BY FreeIsConn DEF Reopen
<1>2. out' \in [Clients -> Seq(Unit)]
  BY <1>1, EmptySeq
<1> QED BY <1>1, <1>2 DEF ReplyInv

(* The ring's head is the first write of its connection. *)
LEMMA HeadOfWrites ==
  ASSUME NEW rg \in Seq(Write), rg # <<>>, NEW d
  PROVE  /\ Head(rg).conn = d => WritesFor(rg, d) = <<Head(rg)>> \o WritesFor(Tail(rg), d)
         /\ Head(rg).conn # d => WritesFor(rg, d) = WritesFor(Tail(rg), d)
<1> DEFINE x == Head(rg)
           t == Tail(rg)
           f == <<x>>
<1>1. x \in Write /\ t \in Seq(Write) /\ f \in Seq(Write) /\ Len(f) = 1 /\ f[1] = x
  BY HeadTailProperties
<1>2. rg = f \o t
  OBVIOUS
<1> HIDE DEF x, t, f
<1>3. WritesFor(rg, d) = WritesFor(f, d) \o WritesFor(t, d)
  BY <1>1, <1>2, KeptConcat DEF WritesFor
<1>4. x.conn = d => WritesFor(f, d) = f
  BY <1>1, KeptAll DEF WritesFor
<1>5. x.conn # d => WritesFor(f, d) = <<>>
  BY <1>1, KeptNone DEF WritesFor
<1>6. WritesFor(t, d) \in Seq(Write)
  BY <1>1, KeptEntries DEF WritesFor
<1>7. <<>> \o WritesFor(t, d) = WritesFor(t, d)
  BY <1>6, ConcatEmptySeq
<1> QED BY <1>3, <1>4, <1>5, <1>7, Zenon DEF x, t, f

LEMMA PumpReplies ==
  ASSUME Steady, ReplyInv, PumpOne PROVE ReplyInv'
<1> DEFINE w == Head(ring)
           find == gs_net_find(w.conn)
           pick == CHOOSE t \in find : TRUE
<1>1. ring # <<>> /\ ring \in Seq(Write) /\ Len(ring) <= WriteRing
      /\ \A k \in 1..Len(ring) : ring[k].conn \in known
  BY DEF PumpOne, Steady, ServerOK, TablesAgree
<1>2. /\ w \in Write /\ w = ring[1] /\ 1 \in 1..Len(ring)
      /\ Tail(ring) \in Seq(Write) /\ Len(Tail(ring)) = Len(ring) - 1
      /\ \A k \in 1..(Len(ring) - 1) : k + 1 \in 1..Len(ring) /\ Tail(ring)[k] = ring[k + 1]
  BY <1>1
<1>3. find # {}
  <2>1. w.conn \in known
    BY <1>1, <1>2
  <2> QED BY <2>1, Tables DEF gs_net_find
<1>4. PICK s \in Slots : s = pick /\ conns[s].in_use /\ conns[s].conn = w.conn
  <2>1. pick \in find
    BY <1>3
  <2> QED BY <2>1 DEF gs_net_find
<1> DEFINE cs == [conns EXCEPT ![s].queue = Append(@, w.number)]
           rg == Tail(ring)
<1>5. gs_net_flush(s, cs, rg)
  BY <1>3, <1>4 DEF PumpOne
<1>6. Alike(conns) /\ conns \in [Slots -> Conn] /\ conns[s] \in Conn
  BY <1>4, AlikeNow DEF Alike
<1>7. w.number \in Nat /\ conns[s].queue \in Seq(Nat) /\ conns[s].q_offset \in {0, 1}
      /\ (conns[s].queue = <<>> => conns[s].q_offset = 0)
  BY <1>2, <1>4, <1>6 DEF Write, Conn, Alike
<1>8. Addressed(rg)
  <2> HIDE DEF rg
  <2>1. rg \in Seq(Write) /\ Len(rg) = Len(ring) - 1
        /\ \A k \in 1..(Len(ring) - 1) : k + 1 \in 1..Len(ring) /\ rg[k] = ring[k + 1]
    BY <1>2 DEF rg
  <2>2. Len(rg) <= WriteRing
    BY <1>1, <2>1, WriteAssumption
  <2> QED BY <1>1, <2>1, <2>2 DEF Addressed
<1> DEFINE old == conns[s].queue
           off == conns[s].q_offset
           n   == w.number
           q   == Append(old, n)
           o   == out[conns[s].sock]
           id  == conns[s].conn
<1>9. cs = [conns EXCEPT ![s].queue = q]
  BY Zenon
<1>10. q \in Seq(Nat) /\ q # <<>>
  <2> HIDE DEF old, n
  <2>1. old \in Seq(Nat) /\ n \in Nat
    BY <1>7 DEF old, n
  <2> QED BY <2>1, AppendProperties
<1>11. off \in 0..(2 * Len(old))
  <2> HIDE DEF old, off
  <2>1. old \in Seq(Nat) /\ off \in {0, 1} /\ (old = <<>> => off = 0)
    BY <1>7 DEF old, off
  <2>2. Len(old) \in Nat /\ (Len(old) = 0 => old = <<>>)
    BY <2>1, EmptySeq, LenProperties
  <2> QED BY <2>1, <2>2
<1>12. o \in Seq(Unit)
  BY <1>4 DEF ReplyInv, Steady, ConnsOK
<1>13. /\ WritesFor(ring, id) = <<w>> \o WritesFor(rg, id)
       /\ \A d : d # id => WritesFor(ring, d) = WritesFor(rg, d)
  BY <1>1, <1>4, HeadOfWrites
<1>14. WritesFor(rg, id) \in Seq(Write)
  BY <1>2, KeptEntries DEF WritesFor
<1> HIDE DEF rg, w, cs
<1>15. StreamOf(o, q, off, WritesFor(rg, id)) = StreamOf(o, old, off, <<w>> \o WritesFor(rg, id))
  <2> HIDE DEF old, off, o, id
  <2>1. old \in Seq(Nat)
    BY <1>7 DEF old
  <2> QED BY <1>2, <1>11, <1>12, <1>14, <2>1, PumpKeepsStream
<1> HIDE DEF q
<1>16. /\ cs \in [Slots -> Conn]
       /\ \A t \in Slots \ {s} : cs[t] = conns[t]
       /\ cs[s].in_use = conns[s].in_use /\ cs[s].sock = conns[s].sock
       /\ cs[s].conn = conns[s].conn /\ cs[s].queue = q /\ cs[s].q_offset = conns[s].q_offset
  BY <1>6, <1>9, <1>10 DEF Conn
<1>17. Alike(cs)
  <2>1. \A t \in Slots \ {s} :
          /\ cs[t].in_use <=> conns[t].in_use
          /\ cs[t].sock = conns[t].sock /\ cs[t].conn = conns[t].conn
          /\ IF cs[t].in_use THEN cs[t].queue = <<>> => cs[t].q_offset = 0
                             ELSE cs[t] = FreeConn
    BY <1>6, <1>16 DEF Alike
  <2>2. /\ cs[s].in_use <=> conns[s].in_use
        /\ cs[s].in_use /\ cs[s].sock = conns[s].sock /\ cs[s].conn = conns[s].conn
        /\ cs[s].queue # <<>>
    BY <1>4, <1>10, <1>16
  <2> QED BY <1>16, <2>1, <2>2 DEF Alike
<1>18. Carries(s, cs, rg)
  <2>1. ASSUME NEW t \in Slots \ {s}, conns[t].in_use
        PROVE  WritesFor(rg, conns[t].conn) = WritesFor(ring, conns[t].conn)
    <3>1. conns[t].conn # id
      BY <1>4, <2>1, Tables
    <3> QED BY <1>13, <3>1
  <2>2. StreamOf(o, old, off, WritesFor(ring, id)) = Stream(s)
    BY StreamIs
  <2> QED BY <1>13, <1>15, <1>16, <2>1, <2>2 DEF Carries
<1> QED BY <1>4, <1>5, <1>8, <1>17, <1>18, FlushReplies

LEMMA OfferRepliesStep ==
  ASSUME NetInv, ReplyInv, conns[cur].in_use, NEW k \in Nat, NEW used,
         \/ Offer(k, used, NextRead) \/ Offer(k, used, NextResume)
  PROVE  ReplyInv'
<1>1. Steady /\ cur \in Slots
  BY DEF NetInv, NetTypes, CallOK, Steady
<1>2. PICK s \in Slots : s = cur
  BY <1>1
<1> DEFINE res == on_bytes(conns[s].conn, k)
<1>3. /\ ring' = res.ring /\ rx' = [rx EXCEPT ![conns[s].conn] = res.rx]
      /\ conns' = conns \/ conns' = [conns EXCEPT ![s].resume = res.full]
      /\ out' = out
  BY <1>2 DEF Offer
<1>4. PICK ans : ans = res
  OBVIOUS
<1> HIDE DEF res
<1>5. ans = on_bytes(conns[s].conn, k)
  BY <1>4 DEF res
<1> QED BY <1>1, <1>2, <1>3, <1>4, <1>5, OfferReplies

LEMMA RepliesStep ==
  ASSUME NetInv, ReplyInv, [Next]_vars PROVE ReplyInv'
<1>1. Steady /\ next_conn \in Ids /\ cur \in Slots
  BY DEF NetInv, NetTypes, CallOK, Steady
<1>2. PICK s \in Slots : s = cur
  BY <1>1
<1>3. CASE Select \/ SelectFails \/ AcceptDone \/ AcceptFails \/ UNCHANGED vars
  <2>1. conns' = conns /\ ring' = ring /\ rx' = rx /\ out' = out
    BY <1>3 DEF Select, SelectFails, AcceptDone, AcceptFails, LeaveAccept, vars, serverVars, clientVars
  <2> QED BY <2>1, SameReplies
<1>4. CASE AcceptOne
  BY <1>1, <1>4, AcceptReplies
<1>5. CASE ServeFlush
  <2>1. CASE conns[s].in_use /\ s \in ready.writers
    <3>1. gs_net_flush(s, conns, ring)
      BY <1>2, <1>5, <2>1 DEF ServeFlush
    <3> QED BY <1>1, <2>1, <3>1, AlikeNow, CarriesNow, FlushReplies
  <2>2. CASE ~(conns[s].in_use /\ s \in ready.writers)
    <3>1. conns' = conns /\ ring' = ring /\ rx' = rx /\ out' = out
      BY <1>2, <1>5, <2>2 DEF ServeFlush
    <3> QED BY <3>1, SameReplies
  <2> QED BY <2>1, <2>2
<1>6. CASE ServeRead
  <2> DEFINE c   == conns[cur].sock
             got == Least(up[c], ReadSize)
  <2>1. CASE UNCHANGED <<conns, serverVars, clientVars>>
    <3>1. conns' = conns /\ ring' = ring /\ rx' = rx /\ out' = out
      BY <2>1 DEF serverVars, clientVars
    <3> QED BY <3>1, SameReplies
  <2>2. CASE conns[cur].in_use /\ gs_net_drop(cur, conns, ring)
    <3>1. conns[s].in_use /\ gs_net_drop(s, conns, ring)
      BY <1>2, <2>2
    <3> QED BY <1>1, <3>1, AlikeNow, CarriesNow, DropReplies
  <2>3. CASE conns[cur].in_use /\ Offer(got, 0, NextRead)
    <3>1. c \in Clients
      BY <1>1, <2>3 DEF Steady, ConnsOK
    <3>2. up[c] \in Nat /\ ReadSize \in Nat
      BY <1>1, <3>1, NetAssumption DEF Steady, ClientsOK
    <3> HIDE DEF c
    <3>3. got \in Nat
      BY <3>2, LeastOK
    <3> HIDE DEF got
    <3> QED BY <2>3, <3>3, OfferRepliesStep
  <2> QED BY <1>6, <2>1, <2>2, <2>3 DEF ServeRead
<1>7. CASE PumpOne
  BY <1>1, <1>7, PumpReplies
<1>8. CASE PumpDone
  <2>1. CASE feeder = "none" \/ ~conns[cur].in_use
    <3>1. UNCHANGED <<conns, serverVars, clientVars>>
      BY <1>8, <2>1 DEF PumpDone
    <3>2. conns' = conns /\ ring' = ring /\ rx' = rx /\ out' = out
      BY <3>1 DEF serverVars, clientVars
    <3> QED BY <3>2, SameReplies
  <2>2. CASE feeder # "none" /\ conns[cur].in_use
    <3>1. Offer(no_units, attempt, IF feeder = "read" THEN NextRead ELSE NextResume)
      BY <1>8, <2>2 DEF PumpDone
    <3>2. Offer(no_units, attempt, NextRead) \/ Offer(no_units, attempt, NextResume)
      BY <3>1, Zenon DEF Offer
    <3>3. no_units \in Nat
      BY DEF no_units
    <3> QED BY <2>2, <3>2, <3>3, OfferRepliesStep
  <2> QED BY <2>1, <2>2
<1>9. CASE Resume
  <2>1. CASE UNCHANGED <<conns, serverVars, clientVars>>
    <3>1. conns' = conns /\ ring' = ring /\ rx' = rx /\ out' = out
      BY <2>1 DEF serverVars, clientVars
    <3> QED BY <3>1, SameReplies
  <2>2. CASE conns[cur].in_use /\ Offer(no_units, 0, NextResume)
    <3>1. no_units \in Nat
      BY DEF no_units
    <3> QED BY <2>2, <3>1, OfferRepliesStep
  <2> QED BY <1>9, <2>1, <2>2 DEF Resume
<1>10. CASE Reopen
  BY <1>10, ReopenReplies
<1>11. ASSUME NEW t \in Slots, gsp_net_close_connection(t) PROVE ReplyInv'
  <2>1. conns[t].in_use /\ gs_net_drop(t, conns, ring)
    BY <1>11 DEF gsp_net_close_connection
  <2> QED BY <1>1, <2>1, AlikeNow, CarriesNow, DropReplies
<1>12. ASSUME NEW c \in Clients, Client(c) PROVE ReplyInv'
  <2>1. conns' = conns /\ ring' = ring /\ rx' = rx /\ out' = out
    BY <1>12 DEF Client, Connect, Send, Receive, Finish, Break, serverVars
  <2> QED BY <2>1, SameReplies
<1> QED BY <1>3, <1>4, <1>5, <1>6, <1>7, <1>8, <1>9, <1>10, <1>11, <1>12 DEF Next, gsp_net_poll

LEMMA RepliesStart == Init => ReplyInv
<1> SUFFICES ASSUME Init PROVE ReplyInv
  OBVIOUS
<1>1. out = [c \in Clients |-> <<>>] /\ \A s \in Slots : ~conns[s].in_use
  BY FreeIsConn DEF Init
<1>2. out \in [Clients -> Seq(Unit)]
  BY <1>1, EmptySeq
<1> QED BY <1>1, <1>2 DEF ReplyInv

(* A client is sent whole replies in the order of its requests, none twice *)
(* and never two mixed: gs_net_flush's short sends, gs_net_pump's full     *)
(* queues and gs_net_feed's retries may cut a reply anywhere and leave the *)
(* rest for any later pass.                                                *)
THEOREM TransportSendsWhole == Spec => []RepliesWhole
<1>1. ReplyInv => RepliesWhole
  <2> SUFFICES ASSUME ReplyInv PROVE RepliesWhole
    OBVIOUS
  <2>1. ASSUME NEW s \in Slots, conns[s].in_use
        PROVE  LET n == Numbers(Stream(s))
               IN  /\ Stream(s) = Units(n)
                   /\ \A k \in 1..(Len(n) - 1) : n[k] < n[k + 1]
                   /\ \A k \in 1..Len(n) : n[k] <= rx[conns[s].conn].count
    <3>1. Whole(Stream(s), rx[conns[s].conn].count)
      BY <2>1 DEF ReplyInv
    <3> QED BY <3>1, WholeNumbers
  <2> QED BY <2>1 DEF RepliesWhole
<1> QED BY NetStart, NetStep, RepliesStart, RepliesStep, <1>1, PTL DEF Spec
-----------------------------------------------------------------------------
(***************************************************************************)
(* What NothingForgotten needs.  FlowInv: what a client has sent ahead of  *)
(* the replies it has read is at most its window, wherever it is now, so   *)
(* that what the server must keep always fits.  WatchInv: whatever waits   *)
(* has a flag that brings the call back to it, except in the slot whose    *)
(* feed is being retried right now.                                        *)
(***************************************************************************)
Holds(c) == \E s \in Slots : conns[s].in_use /\ conns[s].sock = c

(* Replies read in full by a client that was sent o and has d units left. *)
HaveRead(o, d) == (Len(o) - d) \div 2

(* Units the server has taken from a connection: answered, open or kept. *)
Taken(r) == 2 * r.count + r.part + r.rest

FlowInv ==
  /\ ~lost
  /\ \A i \in Ids \ known : rx[i] = NewRx
  /\ \A c \in Clients : /\ down[c] <= Len(out[c])
                        /\ ~Holds(c) => down[c] = 0 /\ up[c] <= 2 * Window
  /\ \A s \in Slots : conns[s].in_use =>
       up[conns[s].sock] + Taken(rx[conns[s].conn]) <=
         2 * Window + 2 * HaveRead(out[conns[s].sock], down[conns[s].sock])

CallInv == attempt \in Nat /\ (feeder # "none" => pc = "pump")

WritesWatched == \A s \in Slots : conns[s].in_use /\ conns[s].queue # <<>> => conns[s].want_write

(* The flag of slot s stands for what the server keeps of its connection. *)
Flagged(s) == rx[conns[s].conn].rest > 0 <=> conns[s].resume

RestsFlagged == \A s \in Slots : conns[s].in_use /\ (feeder = "none" \/ s # cur) => Flagged(s)

WatchInv == CallInv /\ WritesWatched /\ RestsFlagged

LEMMA HalfIsLess ==
  ASSUME NEW n \in Nat, NEW m \in Nat, n <= m
  PROVE  n \div 2 \in Nat /\ 2 * (n \div 2) <= n /\ n \div 2 <= m \div 2
<1> DEFINE h == n \div 2
           r == n % 2
           g == m \div 2
           p == m % 2
<1>1. h \in Nat /\ r \in {0, 1} /\ n = 2 * h + r
  BY HalfOK
<1>2. g \in Nat /\ p \in {0, 1} /\ m = 2 * g + p
  BY HalfOK
<1> HIDE DEF h, r, g, p
<1>3. h \in Nat /\ 2 * h <= n /\ h <= g
  BY <1>1, <1>2
<1> QED BY <1>3 DEF h, g

LEMMA GotOK ==
  ASSUME Steady, ReplyInv, FlowInv, NEW c \in Clients
  PROVE  /\ HaveRead(out[c], down[c]) \in Nat /\ 2 * HaveRead(out[c], down[c]) <= Len(out[c]) /\ up[c] \in Nat /\ down[c] \in Nat
         /\ Len(out[c]) \in Nat /\ down[c] <= Len(out[c])
<1> DEFINE l == Len(out[c])
           d == down[c]
           n == l - d
<1>1. l \in Nat /\ d \in Nat /\ d <= l /\ up[c] \in Nat
  BY NetAssumption DEF Steady, ClientsOK, ReplyInv, FlowInv
<1> HIDE DEF l, d
<1>2. n \in Nat /\ n <= l
  BY <1>1
<1> HIDE DEF n
<1>3. n \div 2 \in Nat /\ 2 * (n \div 2) <= n
  BY <1>2, HalfIsLess
<1>4. HaveRead(out[c], down[c]) = n \div 2
  BY DEF HaveRead, n, l, d
<1>5. 2 * HaveRead(out[c], down[c]) <= l
  BY <1>1, <1>2, <1>3, <1>4
<1> QED BY <1>1, <1>3, <1>4, <1>5 DEF l, d

(* No more is on the wire than was answered. *)
LEMMA SentIsAnswered ==
  ASSUME Steady, ReplyInv, NEW s \in Slots, conns[s].in_use
  PROVE  Len(out[conns[s].sock]) <= 2 * rx[conns[s].conn].count
<1> DEFINE o   == out[conns[s].sock]
           q   == conns[s].queue
           off == conns[s].q_offset
           w   == WritesFor(ring, conns[s].conn)
           top == rx[conns[s].conn].count
<1>1. q \in Seq(Nat) /\ off \in {0, 1} /\ (q = <<>> => off = 0) /\ o \in Seq(Unit)
      /\ conns[s].conn \in Ids
  BY DEF Steady, ConnsOK, Conn, ReplyInv
<1>2. w \in Seq(Write)
  BY KeptEntries DEF Steady, ServerOK, WritesFor
<1>3. top \in Nat
  BY <1>1 DEF Steady, ServerOK, Rx
<1>4. PICK n \in Seq(Nat) : Stream(s) = Units(n) /\ Len(n) <= top
  BY DEF ReplyInv, Whole
<1>5. Stream(s) = StreamOf(o, q, off, w)
  BY StreamIs
<1> HIDE DEF o, q, off, w, top
<1>6. off \in 0..(2 * Len(q))
  <2>1. Len(q) \in Nat /\ (Len(q) = 0 => q = <<>>)
    BY <1>1, EmptySeq, LenProperties
  <2> QED BY <1>1, <2>1
<1> DEFINE a == Behind(Units(q), off)
           b == Units(NumbersOf(w))
           x == o \o a
<1>7. StreamOf(o, q, off, w) = x \o b /\ a \in Seq(Unit) /\ b \in Seq(Unit)
  BY <1>1, <1>2, <1>6, StreamParts
<1> HIDE DEF a, b
<1>8. x \in Seq(Unit) /\ Len(x) = Len(o) + Len(a)
  BY <1>1, <1>7, ConcatProperties
<1> HIDE DEF x
<1>9. Len(x \o b) = Len(x) + Len(b)
  BY <1>7, <1>8, ConcatProperties
<1>10. Len(Units(n)) = 2 * Len(n) /\ Len(n) \in Nat /\ Len(a) \in Nat /\ Len(b) \in Nat /\ Len(o) \in Nat
  BY <1>1, <1>7, UnitsOK, LenProperties
<1>11. Len(o) <= 2 * top
  BY <1>3, <1>4, <1>5, <1>7, <1>8, <1>9, <1>10
<1> QED BY <1>11 DEF o, top

LEMMA TakenOK ==
  ASSUME NEW r \in Rx PROVE Taken(r) \in Nat /\ r.rest \in Nat /\ r.count \in Nat /\ r.part \in {0, 1}
<1>1. r.rest \in Nat /\ r.count \in Nat /\ r.part \in {0, 1}
  BY DEF Rx
<1> QED BY <1>1 DEF Taken

LEMMA WindowArithmetic ==
  ASSUME NEW u \in Nat, NEW n \in Nat, NEW p \in Nat, NEW r \in Nat, NEW g \in Nat, NEW l \in Nat,
         NEW W \in Nat, NEW R \in Nat,
         u + (2 * n + p + r) <= 2 * W + 2 * g, 2 * g <= l, l <= 2 * n, 2 * W <= R
  PROVE  u + r <= R
OBVIOUS

(* What a client can still have on the way fits behind what is kept. *)
LEMMA WindowFits ==
  ASSUME Steady, ReplyInv, FlowInv, 2 * Window <= RxCapacity, NEW s \in Slots, conns[s].in_use
  PROVE  up[conns[s].sock] + rx[conns[s].conn].rest <= RxCapacity
<1> DEFINE c == conns[s].sock
           r == rx[conns[s].conn]
           g == HaveRead(out[c], down[c])
<1>1. c \in Clients /\ r \in Rx
  BY DEF Steady, ConnsOK, ServerOK
<1>2. r.count \in Nat /\ r.part \in Nat /\ r.rest \in Nat
  BY <1>1, TakenOK
<1>3. g \in Nat /\ 2 * g <= Len(out[c]) /\ up[c] \in Nat /\ Len(out[c]) \in Nat
  BY <1>1, GotOK
<1>4. Len(out[c]) <= 2 * r.count
  BY SentIsAnswered
<1>5. up[c] + (2 * r.count + r.part + r.rest) <= 2 * Window + 2 * g
  BY DEF FlowInv, Taken
<1>6. Window \in Nat /\ RxCapacity \in Nat
  BY NetAssumption
<1> HIDE DEF c, r, g
<1>7. up[c] + r.rest <= RxCapacity
  BY <1>2, <1>3, <1>4, <1>5, <1>6, WindowArithmetic
<1> QED BY <1>7 DEF c, r

(* What a client has read only grows while it keeps its socket. *)
LEMMA ReadGrows ==
  ASSUME NEW o \in Seq(Unit), NEW o2 \in Seq(Unit), NEW d \in Nat, NEW d2 \in Nat,
         d <= Len(o), d2 <= Len(o2), Len(o) - d <= Len(o2) - d2
  PROVE  HaveRead(o, d) \in Nat /\ HaveRead(o2, d2) \in Nat /\ HaveRead(o, d) <= HaveRead(o2, d2)
<1> DEFINE n == Len(o) - d
           m == Len(o2) - d2
<1>1. n \in Nat /\ m \in Nat /\ n <= m
  BY LenProperties
<1> HIDE DEF n, m
<1>2. n \div 2 \in Nat /\ n \div 2 <= m \div 2 /\ m \div 2 \in Nat
  BY <1>1, HalfIsLess
<1> QED BY <1>2 DEF n, m, HaveRead

LEMMA FlowArithmetic ==
  ASSUME NEW u \in Nat, NEW u2 \in Nat, NEW x \in Nat, NEW x2 \in Nat, NEW W \in Nat, NEW g \in Nat,
         NEW h \in Nat, u2 + x2 <= u + x, g <= h, u + x <= 2 * W + 2 * g
  PROVE  u2 + x2 <= 2 * W + 2 * h
OBVIOUS

(* A step that moves no socket and takes nothing in. *)
LEMMA FlowKept ==
  ASSUME Steady, ReplyInv, FlowInv, up' \in [Clients -> Nat], down' \in [Clients -> Nat],
         out' \in [Clients -> Seq(Unit)],
         \A s \in Slots : /\ conns'[s].in_use <=> conns[s].in_use
                          /\ conns'[s].sock = conns[s].sock /\ conns'[s].conn = conns[s].conn,
         known' = known, rx' = rx, lost' = lost,
         \A c \in Clients : /\ up'[c] <= up[c] /\ down'[c] <= Len(out'[c])
                            /\ Len(out[c]) - down[c] <= Len(out'[c]) - down'[c]
                            /\ ~Holds(c) => down'[c] = 0
  PROVE  FlowInv'
<1>1. \A c : Holds(c)' <=> Holds(c)
  BY DEF Holds
<1>2. ASSUME NEW c \in Clients
      PROVE  /\ HaveRead(out[c], down[c]) \in Nat /\ HaveRead(out'[c], down'[c]) \in Nat
             /\ HaveRead(out[c], down[c]) <= HaveRead(out'[c], down'[c])
             /\ up[c] \in Nat /\ up'[c] \in Nat /\ up'[c] <= up[c]
  <2>1. out[c] \in Seq(Unit) /\ out'[c] \in Seq(Unit)
    BY DEF ReplyInv
  <2>2. down[c] \in Nat /\ down[c] <= Len(out[c]) /\ up[c] \in Nat
    BY GotOK
  <2>3. down'[c] \in Nat /\ down'[c] <= Len(out'[c]) /\ up'[c] \in Nat /\ up'[c] <= up[c]
        /\ Len(out[c]) - down[c] <= Len(out'[c]) - down'[c]
    OBVIOUS
  <2> QED BY <2>1, <2>2, <2>3, ReadGrows
<1>3. ASSUME NEW c \in Clients, ~Holds(c)' PROVE down'[c] = 0 /\ up'[c] <= 2 * Window
  <2>1. ~Holds(c)
    BY <1>1, <1>3
  <2>2. up[c] <= 2 * Window /\ up'[c] <= up[c] /\ down'[c] = 0
    BY <2>1 DEF FlowInv
  <2> QED BY <1>2, <2>2, NetAssumption
<1>4. ASSUME NEW s \in Slots, conns'[s].in_use
      PROVE  up'[conns'[s].sock] + Taken(rx'[conns'[s].conn]) <=
               2 * Window + 2 * HaveRead(out'[conns'[s].sock], down'[conns'[s].sock])
  <2> DEFINE c == conns[s].sock
             x == Taken(rx[conns[s].conn])
             g == HaveRead(out[c], down[c])
             h == HaveRead(out'[c], down'[c])
  <2>1. conns[s].in_use /\ conns'[s].sock = c /\ Taken(rx'[conns'[s].conn]) = x
    BY <1>4
  <2>2. c \in Clients /\ x \in Nat
    BY <2>1, TakenOK DEF Steady, ConnsOK, ServerOK
  <2>3. up[c] + x <= 2 * Window + 2 * g
    BY <2>1 DEF FlowInv
  <2>4. g \in Nat /\ h \in Nat /\ g <= h /\ up[c] \in Nat /\ up'[c] \in Nat
        /\ up'[c] <= up[c] /\ Window \in Nat
    BY <1>2, <2>2, NetAssumption
  <2> HIDE DEF x, g, h
  <2>5. up'[c] + x <= up[c] + x
    BY <2>2, <2>4
  <2>6. up'[c] + x <= 2 * Window + 2 * h
    BY <2>2, <2>3, <2>4, <2>5, FlowArithmetic
  <2> QED BY <2>1, <2>6 DEF h
<1>5. ~lost' /\ \A i \in Ids \ known' : rx'[i] = NewRx
  BY DEF FlowInv
<1> QED BY <1>3, <1>4, <1>5 DEF FlowInv

LEMMA DropFlow ==
  ASSUME Steady, ReplyInv, FlowInv, NEW cs, Alike(cs), NEW rg,
         NEW s \in Slots, conns[s].in_use, gs_net_drop(s, cs, rg), lost' = lost
  PROVE  FlowInv'
<1> DEFINE c  == conns[s].sock
           id == conns[s].conn
<1>1. c \in Clients /\ id \in Ids
  BY DEF Steady, ConnsOK
<1>2. cs[s].sock = c /\ cs[s].conn = id /\ cs \in [Slots -> Conn]
  BY DEF Alike
<1>3. /\ known' = known \ {id} /\ rx' = [rx EXCEPT ![id] = NewRx]
      /\ conns' = [cs EXCEPT ![s] = FreeConn]
      /\ up' = [up EXCEPT ![c] = 0] /\ down' = [down EXCEPT ![c] = 0]
      /\ out' = [out EXCEPT ![c] = <<>>]
  BY <1>2 DEF gs_net_drop
<1>4. \A t \in Slots \ {s} : conns[t].in_use =>
        conns[t].conn # id /\ conns[t].sock # c /\ conns[t].sock \in Clients /\ conns[t].conn \in Ids
  BY Tables DEF Steady, ConnsOK
<1> HIDE DEF c, id
<1>5. /\ ~conns'[s].in_use
      /\ \A t \in Slots \ {s} : /\ conns'[t].in_use <=> conns[t].in_use
                                /\ conns'[t].sock = conns[t].sock /\ conns'[t].conn = conns[t].conn
  <2>1. ~conns'[s].in_use /\ \A t \in Slots \ {s} : conns'[t] = cs[t]
    BY <1>2, <1>3, FreeIsConn
  <2> QED BY <2>1 DEF Alike
<1>6. /\ rx'[id] = NewRx /\ \A i \in Ids : i # id => rx'[i] = rx[i]
  BY <1>1, <1>3 DEF Steady, ServerOK
<1>7. /\ up'[c] = 0 /\ down'[c] = 0 /\ out'[c] = <<>>
      /\ \A d \in Clients : d # c => up'[d] = up[d] /\ down'[d] = down[d] /\ out'[d] = out[d]
  BY <1>1, <1>3 DEF Steady, ClientsOK, ReplyInv
<1>8. \A i \in Ids \ known' : rx'[i] = NewRx
  BY <1>3, <1>6 DEF FlowInv
<1>9. ASSUME NEW d \in Clients
      PROVE  /\ down'[d] <= Len(out'[d])
             /\ ~Holds(d)' => down'[d] = 0 /\ up'[d] <= 2 * Window
  <2>1. CASE d = c
    <3>1. Len(<<>>) = 0
      OBVIOUS
    <3> QED BY <1>7, <2>1, <3>1, NetAssumption
  <2>2. CASE d # c
    <3>1. Holds(d) => Holds(d)'
      BY <1>5, <2>2 DEF Holds, c
    <3> QED BY <1>7, <2>2, <3>1 DEF FlowInv
  <2> QED BY <2>1, <2>2
<1>10. ASSUME NEW t \in Slots, conns'[t].in_use
       PROVE  up'[conns'[t].sock] + Taken(rx'[conns'[t].conn]) <=
                2 * Window + 2 * HaveRead(out'[conns'[t].sock], down'[conns'[t].sock])
  <2> DEFINE d == conns[t].sock
             i == conns[t].conn
  <2>1. t # s /\ conns[t].in_use /\ conns'[t].sock = d /\ conns'[t].conn = i
    BY <1>5, <1>10
  <2>2. d \in Clients /\ d # c /\ i \in Ids /\ i # id
    BY <1>4, <2>1
  <2>3. up[d] + Taken(rx[i]) <= 2 * Window + 2 * HaveRead(out[d], down[d])
    BY <2>1 DEF FlowInv
  <2> HIDE DEF d, i
  <2> QED BY <1>6, <1>7, <2>1, <2>2, <2>3
<1>11. ~lost'
  BY DEF FlowInv
<1> QED BY <1>8, <1>9, <1>10, <1>11 DEF FlowInv

LEMMA FlushFlow ==
  ASSUME Steady, ReplyInv, FlowInv, NEW cs, Alike(cs), NEW rg,
         NEW s \in Slots, conns[s].in_use, gs_net_flush(s, cs, rg), lost' = lost
  PROVE  FlowInv'
<1> DEFINE c    == cs[s].sock
           q    == cs[s].queue
           off  == cs[s].q_offset
           room == SendBuffer - down[c]
           left == 2 * Len(q) - off
           m    == Least(left, room)
           gone == whole_sent(off + m)
           rest == SubSeq(q, gone + 1, Len(q))
           at   == offset_after(off + m)
           sent == SubSeq(Units(q), off + 1, off + m)
<1>1. /\ cs \in [Slots -> Conn] /\ cs[s] \in Conn /\ c = conns[s].sock
      /\ q = <<>> => off = 0
  BY DEF Alike
<1>2. c \in Clients
  BY <1>1 DEF Steady, ConnsOK
<1>3. q \in Seq(Nat) /\ off \in {0, 1} /\ room \in Nat
  BY <1>1, <1>2, NetAssumption DEF Steady, ClientsOK, Conn
<1>4. CASE left > 0 /\ link[c] = "reset"
  <2>1. gs_net_drop(s, cs, rg)
    BY <1>4 DEF gs_net_flush
  <2> QED BY <2>1, DropFlow
<1>5. CASE ~(left > 0 /\ link[c] = "reset")
  <2> DEFINE wait == blocked(m, left)
  <2>1. /\ conns' = [cs EXCEPT ![s].queue = rest, ![s].q_offset = at, ![s].want_write = wait]
        /\ out' = [out EXCEPT ![c] = @ \o sent] /\ down' = [down EXCEPT ![c] = @ + m]
        /\ rx' = rx /\ known' = known /\ up' = up
    BY <1>5 DEF gs_net_flush
  <2> HIDE DEF c, q, off, room
  <2>2. /\ left \in Nat /\ m \in Nat /\ m <= room
    <3>1. q \in Seq(Nat) /\ off \in {0, 1} /\ (q = <<>> => off = 0) /\ room \in Nat
      BY <1>1, <1>3
    <3> QED BY <3>1, QueueAfterSend, Zenon
  <2>3. m <= left /\ off + m <= 2 * Len(q)
    <3>1. m <= left
      BY <1>3, <2>2, LeastOK
    <3> HIDE DEF m
    <3> QED BY <1>3, <2>2, <3>1, LenProperties DEF left
  <2>4. out[c] \in Seq(Unit) /\ down[c] \in Nat /\ down[c] <= Len(out[c])
    BY <1>2, GotOK DEF ReplyInv
  <2> HIDE DEF left, m, gone, at, wait
  <2>5. out[c] \o sent \in Seq(Unit) /\ Len(out[c] \o sent) = Len(out[c]) + m
    <3> DEFINE o == out[c]
    <3> HIDE DEF o
    <3>1. o \in Seq(Unit) /\ <<>> \in Seq(Write) /\ off + m <= 2 * Len(q)
      BY <2>3, <2>4 DEF o
    <3>2. o \o sent \in Seq(Unit) /\ Len(o \o sent) = Len(o) + m
      <4>1. q \in Seq(Nat) /\ off \in {0, 1} /\ m \in Nat
        BY <1>3, <2>2
      <4>2. PICK w \in Seq(Write) : TRUE
        BY <3>1
      <4> QED BY <3>1, <4>1, <4>2, SendKeepsStream, SMTT(30)
    <3> QED BY <3>2 DEF o
  <2> HIDE DEF sent, rest
  <2>6. /\ out' \in [Clients -> Seq(Unit)] /\ out'[c] = out[c] \o sent
        /\ \A d \in Clients : d # c => out'[d] = out[d]
    BY <1>2, <2>1, <2>5 DEF ReplyInv
  <2>7. down \in [Clients -> Nat] /\ up \in [Clients -> Nat]
    BY NetAssumption DEF Steady, ClientsOK
  <2>8. /\ down' \in [Clients -> Nat] /\ down'[c] = down[c] + m
        /\ \A d \in Clients : d # c => down'[d] = down[d]
    BY <1>2, <2>1, <2>2, <2>7
  <2>9. \A t \in Slots : /\ conns'[t].in_use <=> conns[t].in_use
                         /\ conns'[t].sock = conns[t].sock /\ conns'[t].conn = conns[t].conn
    <3>1. \A t \in Slots : /\ conns'[t].in_use = cs[t].in_use
                           /\ conns'[t].sock = cs[t].sock /\ conns'[t].conn = cs[t].conn
      BY <1>1, <2>1 DEF Conn
    <3> QED BY <3>1 DEF Alike
  <2>10. ASSUME NEW d \in Clients
         PROVE  /\ up'[d] <= up[d] /\ down'[d] <= Len(out'[d])
                /\ Len(out[d]) - down[d] <= Len(out'[d]) - down'[d]
                /\ ~Holds(d) => down'[d] = 0
    <3>1. up[d] \in Nat /\ up'[d] = up[d] /\ down[d] \in Nat /\ Len(out[d]) \in Nat
          /\ down[d] <= Len(out[d])
      BY <2>1, GotOK
    <3>2. CASE d = c
      <4>1. Len(out'[d]) = Len(out[d]) + m /\ down'[d] = down[d] + m
        BY <2>5, <2>6, <2>8, <3>2
      <4>2. Holds(d)
        BY <1>1, <3>2 DEF Holds, c
      <4> QED BY <2>2, <3>1, <4>1, <4>2
    <3>3. CASE d # c
      <4>1. out'[d] = out[d] /\ down'[d] = down[d]
        BY <2>6, <2>8, <3>3
      <4>2. ~Holds(d) => down[d] = 0
        BY DEF FlowInv
      <4> QED BY <3>1, <4>1, <4>2
    <3> QED BY <3>2, <3>3
  <2>11. up' \in [Clients -> Nat]
    BY <2>1, <2>7
  <2> QED BY <2>1, <2>6, <2>8, <2>9, <2>10, <2>11, FlowKept
<1> QED BY <1>4, <1>5

(* What the server takes in it counts: a unit leaves the wire and is open, *)
(* kept or answered.  The read fits, so none is lost.                      *)
LEMMA OfferFlow ==
  ASSUME Steady, ReplyInv, FlowInv, 2 * Window <= RxCapacity,
         NEW s \in Slots, conns[s].in_use, NEW k \in Nat, NEW u, u = up[conns[s].sock],
         NEW res, res = on_bytes(conns[s].conn, k), k <= u,
         up' = [up EXCEPT ![conns[s].sock] = u - k], rx' = [rx EXCEPT ![conns[s].conn] = res.rx],
         lost' = (lost \/ res.lost),
         \A t \in Slots : /\ conns'[t].in_use <=> conns[t].in_use
                          /\ conns'[t].sock = conns[t].sock /\ conns'[t].conn = conns[t].conn,
         UNCHANGED <<known, down, out>>
  PROVE  FlowInv' /\ (res.full <=> res.rx.rest > 0)
<1> DEFINE c  == conns[s].sock
           id == conns[s].conn
<1>1. c \in Clients /\ id \in Ids /\ id \in known /\ ServerOK /\ rx \in [Ids -> Rx]
      /\ up \in [Clients -> Nat]
  BY Tables DEF Steady, ConnsOK, ServerOK, ClientsOK
<1>2. up[c] \in Nat /\ u = up[c] /\ rx[id] \in Rx /\ rx[id].rest \in Nat
  BY <1>1, TakenOK
<1>3. up[c] + rx[id].rest <= RxCapacity
  BY WindowFits
<1>4. rx[id].rest + k <= RxCapacity
  BY <1>2, <1>3, NetAssumption
<1>5. /\ res.rx \in Rx /\ ~res.lost /\ (res.full <=> res.rx.rest > 0)
      /\ 2 * res.rx.count + res.rx.part + res.rx.rest =
           2 * rx[id].count + rx[id].part + rx[id].rest + k
  BY <1>1, <1>4, OnBytesOK
<1>6. Taken(res.rx) = Taken(rx[id]) + k /\ Taken(rx[id]) \in Nat /\ Taken(res.rx) \in Nat
  BY <1>2, <1>5, TakenOK DEF Taken
<1> HIDE DEF c, id
<1>7. rx'[id] = res.rx /\ \A i \in Ids : i # id => rx'[i] = rx[i]
  BY <1>1 DEF id
<1>8. up'[c] = u - k /\ \A d \in Clients : d # c => up'[d] = up[d]
  BY <1>1 DEF c
<1>9. \A i \in Ids \ known' : rx'[i] = NewRx
  BY <1>1, <1>7 DEF FlowInv
<1>10. ASSUME NEW d \in Clients
       PROVE  /\ down'[d] <= Len(out'[d])
              /\ ~Holds(d)' => down'[d] = 0 /\ up'[d] <= 2 * Window
  <2>1. Holds(d)' <=> Holds(d)
    BY DEF Holds
  <2>2. Holds(c)
    BY DEF Holds, c
  <2>3. d # c => up'[d] = up[d]
    BY <1>8
  <2> QED BY <2>1, <2>2, <2>3 DEF FlowInv
<1>11. ASSUME NEW t \in Slots, conns'[t].in_use
       PROVE  up'[conns'[t].sock] + Taken(rx'[conns'[t].conn]) <=
                2 * Window + 2 * HaveRead(out'[conns'[t].sock], down'[conns'[t].sock])
  <2> DEFINE d == conns[t].sock
             i == conns[t].conn
  <2>1. conns[t].in_use /\ conns'[t].sock = d /\ conns'[t].conn = i
    BY <1>11
  <2>2. up[d] + Taken(rx[i]) <= 2 * Window + 2 * HaveRead(out[d], down[d])
    BY <2>1 DEF FlowInv
  <2>3. CASE t = s
    <3>1. d = c /\ i = id
      BY <2>3 DEF c, id
    <3>2. up'[c] + Taken(rx'[id]) = up[c] + Taken(rx[id])
      BY <1>2, <1>6, <1>7, <1>8
    <3> HIDE DEF d, i
    <3> QED BY <2>1, <2>2, <3>1, <3>2
  <2>4. CASE t # s
    <3>1. d \in Clients /\ d # c /\ i \in Ids /\ i # id
      BY <2>1, <2>4, Tables DEF Steady, ConnsOK, c, id
    <3> HIDE DEF d, i
    <3> QED BY <1>7, <1>8, <2>1, <2>2, <3>1
  <2> QED BY <2>3, <2>4
<1>12. ~lost'
  BY <1>5 DEF FlowInv
<1> QED BY <1>5, <1>9, <1>10, <1>11, <1>12 DEF FlowInv

(* A new connection has taken nothing yet. *)
LEMMA AcceptFlow ==
  ASSUME Steady, ReplyInv, FlowInv, next_conn \in Ids, AcceptOne PROVE FlowInv'
<1> DEFINE c    == Head(backlog)
           open == {s \in Slots : ~conns[s].in_use}
           first == CHOOSE s \in open : \A t \in open : s <= t
<1>1. PICK watchable \in BOOLEAN :
      LET ok == watchable /\ open # {} /\ Accepts(next_conn) IN
      /\ backlog # <<>>
      /\ conns' = IF ok THEN [conns EXCEPT ![first].in_use = TRUE, ![first].sock = c,
                                           ![first].conn = next_conn]
                  ELSE conns
      /\ known' = IF ok THEN known \cup {next_conn} ELSE known
      /\ up' = IF ok THEN up ELSE [up EXCEPT ![c] = 0]
      /\ UNCHANGED <<rx, lost, down, out>>
  BY Zenon DEF AcceptOne
<1> DEFINE ok == watchable /\ open # {} /\ Accepts(next_conn)
<1>2. c \in Clients /\ \A s \in Slots : conns[s].in_use => conns[s].sock # c
  <2>1. backlog \in Seq(Clients) /\ backlog # <<>>
    BY <1>1 DEF Steady, ClientsOK
  <2>2. c = backlog[1] /\ 1 \in 1..Len(backlog)
    BY <2>1
  <2> HIDE DEF c
  <2> QED BY <2>1, <2>2 DEF Steady, SocketsInv
<1>3. up \in [Clients -> Nat] /\ down \in [Clients -> Nat] /\ out \in [Clients -> Seq(Unit)]
  BY NetAssumption DEF Steady, ClientsOK, ReplyInv
<1>4. CASE ~ok
  <2>1. conns' = conns /\ known' = known /\ up' = [up EXCEPT ![c] = 0] /\ UNCHANGED <<rx, lost, down, out>>
    BY <1>1, <1>4
  <2> HIDE DEF c
  <2>2. up' \in [Clients -> Nat]
    BY <1>2, <1>3, <2>1
  <2>3. ASSUME NEW d \in Clients
        PROVE  /\ up'[d] <= up[d] /\ down'[d] <= Len(out'[d])
               /\ Len(out[d]) - down[d] <= Len(out'[d]) - down'[d]
               /\ ~Holds(d) => down'[d] = 0
    <3>1. up[d] \in Nat /\ up'[d] \in {0, up[d]}
      BY <1>2, <1>3, <2>1
    <3>2. down'[d] <= Len(out'[d]) /\ (~Holds(d) => down'[d] = 0)
      BY <2>1 DEF FlowInv
    <3>3. Len(out[d]) - down[d] <= Len(out'[d]) - down'[d]
      BY <2>1, GotOK
    <3> QED BY <3>1, <3>2, <3>3
  <2> QED BY <1>3, <2>1, <2>2, <2>3, FlowKept
<1>5. CASE ok
  <2>1. PICK slot \in Slots : slot = first /\ ~conns[slot].in_use
    <3>1. open \in SUBSET Nat /\ open # {}
      BY <1>5 DEF Slots
    <3>2. \E s \in open : \A t \in open : s <= t
      BY <3>1, LeastNat
    <3>3. first \in open
      BY <3>2
    <3> QED BY <3>3
  <2>2. /\ UNCHANGED <<rx, lost, up, down, out>> /\ known' = known \cup {next_conn}
        /\ conns' = [conns EXCEPT ![slot].in_use = TRUE, ![slot].sock = c,
                                  ![slot].conn = next_conn]
    BY <1>1, <1>5, <2>1
  <2>3. next_conn \notin known
    BY <1>5 DEF Accepts
  <2> HIDE DEF first, open, ok, c
  <2>4. conns \in [Slots -> Conn] /\ conns[slot] \in Conn
    BY <2>1 DEF Steady, ConnsOK
  <2>5. /\ \A t \in Slots \ {slot} : conns'[t] = conns[t]
        /\ conns'[slot].in_use /\ conns'[slot].sock = c /\ conns'[slot].conn = next_conn
    BY <2>1, <2>2, <2>4 DEF Conn
  <2>6. rx[next_conn] = NewRx /\ ~Holds(c)
    BY <1>2, <2>3 DEF FlowInv, Holds
  <2>7. up[c] <= 2 * Window /\ up[c] \in Nat /\ HaveRead(out[c], down[c]) \in Nat
    BY <1>2, <2>6, GotOK DEF FlowInv
  <2>8. Taken(NewRx) = 0
    BY DEF Taken, NewRx
  <2>9. ASSUME NEW t \in Slots, conns'[t].in_use
        PROVE  up'[conns'[t].sock] + Taken(rx'[conns'[t].conn]) <=
                 2 * Window + 2 * HaveRead(out'[conns'[t].sock], down'[conns'[t].sock])
    <3>1. CASE t = slot
      <4>1. up[c] + 0 <= 2 * Window + 2 * HaveRead(out[c], down[c])
        BY <2>7, NetAssumption
      <4> QED BY <2>2, <2>5, <2>6, <2>8, <3>1, <4>1
    <3>2. CASE t # slot
      <4>1. conns'[t] = conns[t] /\ conns[t].in_use
        BY <2>5, <2>9, <3>2
      <4> QED BY <2>2, <4>1 DEF FlowInv
    <3> QED BY <3>1, <3>2
  <2>10. \A d \in Clients : Holds(d) => Holds(d)'
    BY <2>1, <2>5 DEF Holds
  <2> QED BY <2>2, <2>9, <2>10 DEF FlowInv
<1> QED BY <1>4, <1>5

LEMMA ReopenFlow ==
  ASSUME Steady, FlowInv, Reopen PROVE FlowInv'
<1> DEFINE held == {conns[s].conn : s \in {t \in Slots : conns[t].in_use}}
<1>1. /\ known' = known \ held /\ lost' = lost
      /\ rx' = [i \in Ids |-> IF i \in held THEN NewRx ELSE rx[i]]
      /\ up' = [c \in Clients |-> 0] /\ down' = [c \in Clients |-> 0]
      /\ out' = [c \in Clients |-> <<>>] /\ \A s \in Slots : ~conns'[s].in_use
  BY FreeIsConn DEF Reopen
<1>2. known = held
  BY DEF Steady, TablesAgree
<1> HIDE DEF held
<1>3. \A i \in Ids : rx'[i] = NewRx
  BY <1>1, <1>2 DEF FlowInv
<1>4. ASSUME NEW c \in Clients
      PROVE  down'[c] = 0 /\ up'[c] <= 2 * Window /\ down'[c] <= Len(out'[c])
  <2>1. down'[c] = 0 /\ up'[c] = 0 /\ Len(out'[c]) = 0
    BY <1>1
  <2> QED BY <2>1, NetAssumption
<1> QED BY <1>1, <1>3, <1>4 DEF FlowInv

(* A client sends only within its window. *)
LEMMA SendFlow ==
  ASSUME Steady, ReplyInv, FlowInv, NEW c \in Clients, Send(c) PROVE FlowInv'
<1>1. /\ Asked(c) - 2 * Got(c) < 2 * Window /\ up' = [up EXCEPT ![c] = @ + 1]
      /\ UNCHANGED <<conns, known, rx, lost, down, out>>
  BY DEF Send, serverVars
<1> DEFINE g == HaveRead(out[c], down[c])
<1>2. Got(c) = g
  BY DEF Got, HaveRead
<1>3. g \in Nat /\ up[c] \in Nat /\ Window \in Nat /\ 2 * g <= Len(out[c])
  BY GotOK, NetAssumption
<1>4. up'[c] = up[c] + 1 /\ \A d \in Clients : d # c => up'[d] = up[d]
  BY <1>1 DEF Steady, ClientsOK
<1> HIDE DEF g
<1>5. ASSUME NEW s \in Slots, conns[s].in_use, conns[s].sock = c
      PROVE  Asked(c) = up[c] + Taken(rx[conns[s].conn]) /\ Taken(rx[conns[s].conn]) \in Nat
  <2> DEFINE i == conns[s].conn
  <2>1. IdOf(c) = {i}
    BY <1>5, Tables DEF IdOf
  <2>2. (CHOOSE j \in IdOf(c) : TRUE) = i /\ IdOf(c) # {}
    BY <2>1
  <2>3. Asked(c) = up[c] + Taken(rx[i])
    BY <2>2 DEF Asked, Taken
  <2>4. Taken(rx[i]) \in Nat
    BY <1>5, TakenOK DEF Steady, ConnsOK, ServerOK
  <2> QED BY <2>3, <2>4
<1>6. ASSUME ~Holds(c) PROVE up[c] + 1 <= 2 * Window
  <2>1. IdOf(c) = {}
    BY <1>6 DEF IdOf, Holds
  <2>2. Asked(c) = up[c] + 0
    BY <2>1 DEF Asked
  <2>3. g = 0
    <3>1. out[c] = <<>>
      BY <1>6 DEF ReplyInv, Holds
    <3>2. Len(out[c]) = 0
      BY <3>1
    <3> QED BY <1>3, <3>2
  <2> QED BY <1>1, <1>2, <1>3, <2>2, <2>3
<1>7. ASSUME NEW d \in Clients
      PROVE  /\ down'[d] <= Len(out'[d])
             /\ ~Holds(d)' => down'[d] = 0 /\ up'[d] <= 2 * Window
  <2>1. Holds(d)' <=> Holds(d)
    BY <1>1 DEF Holds
  <2>2. down'[d] <= Len(out'[d]) /\ (~Holds(d) => down'[d] = 0 /\ up[d] <= 2 * Window)
    BY <1>1 DEF FlowInv
  <2>3. CASE d = c
    BY <1>4, <1>6, <2>1, <2>2, <2>3
  <2>4. CASE d # c
    BY <1>4, <2>1, <2>2, <2>4
  <2> QED BY <2>3, <2>4
<1>8. ASSUME NEW t \in Slots, conns'[t].in_use
      PROVE  up'[conns'[t].sock] + Taken(rx'[conns'[t].conn]) <=
               2 * Window + 2 * HaveRead(out'[conns'[t].sock], down'[conns'[t].sock])
  <2> DEFINE d == conns[t].sock
             x == Taken(rx[conns[t].conn])
  <2>1. conns[t].in_use /\ conns'[t] = conns[t]
    BY <1>1, <1>8
  <2>2. up[d] + x <= 2 * Window + 2 * HaveRead(out[d], down[d])
    BY <2>1 DEF FlowInv
  <2>3. d \in Clients
    BY <2>1 DEF Steady, ConnsOK
  <2>4. CASE d = c
    <3>1. Asked(c) = up[c] + x /\ x \in Nat
      BY <1>5, <2>1, <2>4
    <3> HIDE DEF x
    <3>2. (up[c] + 1) + x <= 2 * Window + 2 * g
      BY <1>1, <1>2, <1>3, <3>1
    <3> QED BY <1>1, <1>4, <2>1, <2>4, <3>2 DEF g, x
  <2>5. CASE d # c
    BY <1>1, <1>4, <2>1, <2>2, <2>3, <2>5
  <2> QED BY <2>4, <2>5
<1>9. ~lost' /\ \A i \in Ids \ known' : rx'[i] = NewRx
  BY <1>1 DEF FlowInv
<1> QED BY <1>7, <1>8, <1>9 DEF FlowInv

(* An answer is flagged, or is being retried in the current slot. *)
LEMMA OfferWatch ==
  ASSUME NetInv, ReplyInv, FlowInv, WritesWatched, 2 * Window <= RxCapacity, conns[cur].in_use,
         NEW k \in Nat, NEW used \in Nat, \/ Offer(k, used, NextRead) \/ Offer(k, used, NextResume),
         NEW u, u = up[conns[cur].sock], k <= u, up' = [up EXCEPT ![conns[cur].sock] = u - k],
         \A t \in Slots : conns[t].in_use /\ t # cur => Flagged(t)
  PROVE  /\ FlowInv' /\ WritesWatched'
         /\ attempt' \in Nat /\ (attempt' > 0 => pc' = "pump" /\ cur' = cur)
         /\ \A t \in Slots : conns'[t].in_use /\ (attempt' = 0 \/ t # cur) => Flagged(t)'
<1>1. Steady /\ cur \in Slots
  BY DEF NetInv, NetTypes, CallOK, Steady
<1>2. PICK s \in Slots : s = cur
  BY <1>1
<1>3. PICK res : res = on_bytes(conns[s].conn, k)
  OBVIOUS
<1>4. /\ rx' = [rx EXCEPT ![conns[s].conn] = res.rx] /\ lost' = (lost \/ res.lost)
      /\ UNCHANGED <<known, down, out>>
      /\ \/ /\ res.full /\ pc' = "pump" /\ attempt' = used + 1 /\ conns' = conns /\ cur' = cur
         \/ /\ conns' = [conns EXCEPT ![s].resume = res.full] /\ attempt' = 0
  BY <1>2, <1>3, Zenon DEF Offer
<1>5. conns[s].conn \in Ids /\ ServerOK /\ conns \in [Slots -> Conn] /\ conns[s] \in Conn
      /\ rx \in [Ids -> Rx] /\ conns[s].in_use
  BY <1>1, <1>2 DEF Steady, ConnsOK, ServerOK
<1>6. res.full \in BOOLEAN
  BY <1>3, <1>5, OnBytesOK
<1>7. /\ \A t \in Slots : /\ conns'[t].in_use <=> conns[t].in_use
                          /\ conns'[t].sock = conns[t].sock /\ conns'[t].conn = conns[t].conn
                          /\ conns'[t].queue = conns[t].queue
                          /\ conns'[t].want_write = conns[t].want_write
      /\ \A t \in Slots \ {s} : conns'[t] = conns[t]
  <2>1. CASE conns' = conns
    BY <2>1
  <2>2. CASE conns' = [conns EXCEPT ![s].resume = res.full]
    <3> DEFINE full == res.full
    <3>1. conns' = [conns EXCEPT ![s].resume = full]
      BY <2>2
    <3> HIDE DEF full
    <3>2. /\ \A t \in Slots \ {s} : conns'[t] = conns[t]
          /\ conns'[s].in_use = conns[s].in_use /\ conns'[s].sock = conns[s].sock
          /\ conns'[s].conn = conns[s].conn /\ conns'[s].queue = conns[s].queue
          /\ conns'[s].want_write = conns[s].want_write
      BY <1>5, <3>1 DEF Conn
    <3> QED BY <3>2
  <2> QED BY <1>4, <2>1, <2>2
<1>8. FlowInv' /\ (res.full <=> res.rx.rest > 0)
  BY <1>1, <1>2, <1>3, <1>4, <1>5, <1>7, OfferFlow
<1>9. WritesWatched'
  BY <1>7 DEF WritesWatched
<1>10. attempt' \in Nat /\ (attempt' > 0 => pc' = "pump" /\ cur' = cur)
  BY <1>4
<1>11. ASSUME NEW t \in Slots, conns'[t].in_use, attempt' = 0 \/ t # cur PROVE Flagged(t)'
  <2>1. CASE t = s
    <3>1. attempt' = 0
      BY <1>2, <1>11, <2>1
    <3> DEFINE full == res.full
    <3>2. conns' = [conns EXCEPT ![s].resume = full]
      BY <1>4, <3>1
    <3> HIDE DEF full
    <3>3. conns'[s].resume = full /\ conns'[s].conn = conns[s].conn
      BY <1>5, <3>2 DEF Conn
    <3>4. rx'[conns[s].conn] = res.rx
      BY <1>4, <1>5
    <3> QED BY <1>8, <2>1, <3>3, <3>4 DEF Flagged, full
  <2>2. CASE t # s
    <3>1. conns'[t] = conns[t] /\ conns[t].in_use /\ conns[t].conn # conns[s].conn
          /\ conns[t].conn \in Ids
      BY <1>1, <1>5, <1>7, <1>11, <2>2, Tables DEF Steady, ConnsOK
    <3>2. rx'[conns[t].conn] = rx[conns[t].conn]
      BY <1>4, <1>5, <3>1
    <3>3. Flagged(t)
      BY <1>2, <2>2, <3>1
    <3> QED BY <3>1, <3>2, <3>3 DEF Flagged
  <2> QED BY <2>1, <2>2
<1> QED BY <1>8, <1>9, <1>10, <1>11

(* What a drop leaves is as it was. *)
LEMMA DropWatch ==
  ASSUME Steady, NEW cs, Alike(cs), NEW rg, NEW s \in Slots, conns[s].in_use,
         \A t \in Slots \ {s} : cs[t] = conns[t], gs_net_drop(s, cs, rg)
  PROVE  /\ WritesWatched => WritesWatched'
         /\ \A t \in Slots : conns'[t].in_use => t # s /\ conns[t].in_use /\ (Flagged(t) => Flagged(t)')
<1>1. /\ rx' = [rx EXCEPT ![conns[s].conn] = NewRx] /\ conns' = [cs EXCEPT ![s] = FreeConn]
      /\ cs \in [Slots -> Conn] /\ conns[s].conn \in Ids /\ rx \in [Ids -> Rx]
  BY DEF gs_net_drop, Alike, Steady, ConnsOK, ServerOK
<1>2. ~conns'[s].in_use /\ \A t \in Slots \ {s} : conns'[t] = conns[t]
  BY <1>1, FreeIsConn
<1>3. ASSUME NEW t \in Slots, conns'[t].in_use
      PROVE  t # s /\ conns[t].in_use /\ conns'[t] = conns[t] /\ rx'[conns[t].conn] = rx[conns[t].conn]
  <2>1. t # s /\ conns[t].in_use /\ conns'[t] = conns[t]
    BY <1>2, <1>3
  <2>2. conns[t].conn # conns[s].conn /\ conns[t].conn \in Ids
    BY <2>1, Tables DEF Steady, ConnsOK
  <2> QED BY <1>1, <2>1, <2>2
<1>4. WritesWatched => WritesWatched'
  BY <1>3 DEF WritesWatched
<1>5. ASSUME NEW t \in Slots, conns'[t].in_use, Flagged(t) PROVE Flagged(t)'
  BY <1>3, <1>5 DEF Flagged
<1> QED BY <1>3, <1>4, <1>5

LEMMA StillLeft ==
  ASSUME NEW off \in {0, 1}, NEW m \in Nat, NEW gone \in Nat, NEW at \in {0, 1}, NEW l \in Nat,
         off + m = 2 * gone + at, gone < l
  PROVE  m < 2 * l - off
OBVIOUS

(* What a flush leaves in a queue has its socket watched. *)
LEMMA FlushWatch ==
  ASSUME Steady, NEW cs, Alike(cs), NEW rg, NEW s \in Slots, conns[s].in_use,
         \A t \in Slots \ {s} : cs[t] = conns[t], cs[s].resume = conns[s].resume,
         gs_net_flush(s, cs, rg)
  PROVE  /\ WritesWatched => WritesWatched'
         /\ \A t \in Slots : conns'[t].in_use => conns[t].in_use /\ (Flagged(t) => Flagged(t)')
<1> DEFINE c    == cs[s].sock
           q    == cs[s].queue
           off  == cs[s].q_offset
           room == SendBuffer - down[c]
           left == 2 * Len(q) - off
           m    == Least(left, room)
           gone == whole_sent(off + m)
           rest == SubSeq(q, gone + 1, Len(q))
           at   == offset_after(off + m)
           wait == blocked(m, left)
<1>1. /\ cs \in [Slots -> Conn] /\ cs[s] \in Conn /\ c = conns[s].sock
      /\ q = <<>> => off = 0
  BY DEF Alike
<1>2. c \in Clients
  BY <1>1 DEF Steady, ConnsOK
<1>3. q \in Seq(Nat) /\ off \in {0, 1} /\ room \in Nat
  BY <1>1, <1>2, NetAssumption DEF Steady, ClientsOK, Conn
<1>4. CASE left > 0 /\ link[c] = "reset"
  <2>1. gs_net_drop(s, cs, rg)
    BY <1>4 DEF gs_net_flush
  <2> QED BY <2>1, DropWatch
<1>5. CASE ~(left > 0 /\ link[c] = "reset")
  <2>1. /\ conns' = [cs EXCEPT ![s].queue = rest, ![s].q_offset = at, ![s].want_write = wait]
        /\ rx' = rx
    BY <1>5 DEF gs_net_flush
  <2> HIDE DEF c, q, off, room
  <2>2. /\ left \in Nat /\ m \in Nat /\ gone \in 0..Len(q) /\ at \in {0, 1}
        /\ off + m = 2 * gone + at /\ rest \in Seq(Nat) /\ Len(rest) = Len(q) - gone
    <3>1. q \in Seq(Nat) /\ off \in {0, 1} /\ (q = <<>> => off = 0) /\ room \in Nat
      BY <1>1, <1>3
    <3>2. /\ left \in Nat /\ m \in Nat /\ gone \in 0..Len(q) /\ at \in {0, 1}
          /\ off + m = 2 * gone + at
      BY <3>1, QueueAfterSend, ZenonT(40)
    <3>3. rest \in Seq(Nat) /\ Len(rest) = Len(q) - gone
      BY <3>1, QueueAfterSend, ZenonT(40)
    <3> QED BY <3>2, <3>3
  <2>3. Len(q) \in Nat /\ (Len(rest) = 0 => rest = <<>>)
    BY <1>3, <2>2, EmptySeq, LenProperties
  <2>4. rest # <<>> => wait
    <3>1. ASSUME rest # <<>> PROVE m < left
      <4>1. Len(rest) # 0
        BY <2>3, <3>1
      <4> HIDE DEF m, gone, rest, at
      <4>2. gone \in Nat /\ gone < Len(q) /\ m \in Nat
        BY <2>2, <2>3, <4>1
      <4>3. m < 2 * Len(q) - off
        BY <1>3, <2>2, <2>3, <4>2, StillLeft
      <4> QED BY <4>3 DEF left
    <3> HIDE DEF m, left, rest
    <3> QED BY <3>1 DEF wait, blocked
  <2> HIDE DEF left, m, gone, at, wait, rest
  <2>5. /\ \A t \in Slots \ {s} : conns'[t] = cs[t]
        /\ conns'[s].in_use = cs[s].in_use /\ conns'[s].conn = cs[s].conn
        /\ conns'[s].queue = rest /\ conns'[s].want_write = wait /\ conns'[s].resume = cs[s].resume
    BY <1>1, <2>1 DEF Conn
  <2>6. /\ \A t \in Slots \ {s} : conns'[t] = conns[t]
        /\ conns'[s].conn = conns[s].conn /\ conns'[s].resume = conns[s].resume
    BY <2>5 DEF Alike
  <2>7. WritesWatched => WritesWatched'
    BY <2>4, <2>5, <2>6 DEF WritesWatched
  <2>8. ASSUME NEW t \in Slots, conns'[t].in_use PROVE conns[t].in_use /\ (Flagged(t) => Flagged(t)')
    <3>1. CASE t = s
      BY <2>1, <2>6, <3>1 DEF Flagged
    <3>2. CASE t # s
      BY <2>1, <2>6, <2>8, <3>2 DEF Flagged
    <3> QED BY <3>1, <3>2
  <2> QED BY <2>7, <2>8
<1> QED BY <1>4, <1>5

(* gs_net_pump finds the write's socket and flushes it with one more reply *)
(* in its queue.                                                           *)
LEMMA PumpFlushes ==
  ASSUME Steady, PumpOne
  PROVE  \E s \in Slots : \E cs :
           /\ conns[s].in_use /\ Alike(cs) /\ gs_net_flush(s, cs, Tail(ring))
           /\ \A t \in Slots \ {s} : cs[t] = conns[t]
           /\ cs[s].resume = conns[s].resume
<1> DEFINE w == Head(ring)
           find == gs_net_find(w.conn)
           pick == CHOOSE t \in find : TRUE
<1>1. ring # <<>> /\ ring \in Seq(Write) /\ \A k \in 1..Len(ring) : ring[k].conn \in known
  BY DEF PumpOne, Steady, ServerOK, TablesAgree
<1>2. w \in Write /\ w = ring[1] /\ 1 \in 1..Len(ring)
  BY <1>1
<1>3. find # {}
  <2>1. w.conn \in known
    BY <1>1, <1>2
  <2> QED BY <2>1, Tables DEF gs_net_find
<1>4. PICK s \in Slots : s = pick /\ conns[s].in_use
  <2>1. pick \in find
    BY <1>3
  <2> QED BY <2>1 DEF gs_net_find
<1> DEFINE cs == [conns EXCEPT ![s].queue = Append(@, w.number)]
           old == conns[s].queue
           n   == w.number
           q   == Append(old, n)
<1>5. gs_net_flush(s, cs, Tail(ring))
  BY <1>3, <1>4 DEF PumpOne
<1>6. Alike(conns) /\ conns \in [Slots -> Conn] /\ conns[s] \in Conn
  BY <1>4, AlikeNow DEF Alike
<1>7. old \in Seq(Nat) /\ n \in Nat
  BY <1>2, <1>6 DEF Write, Conn
<1>8. cs = [conns EXCEPT ![s].queue = q]
  BY Zenon
<1>9. q \in Seq(Nat) /\ q # <<>>
  <2> HIDE DEF old, n
  <2> QED BY <1>7, AppendProperties
<1> HIDE DEF w, cs, q
<1>10. /\ cs \in [Slots -> Conn]
       /\ \A t \in Slots \ {s} : cs[t] = conns[t]
       /\ cs[s].in_use = conns[s].in_use /\ cs[s].sock = conns[s].sock
       /\ cs[s].conn = conns[s].conn /\ cs[s].queue = q /\ cs[s].resume = conns[s].resume
  BY <1>6, <1>8, <1>9 DEF Conn
<1>11. Alike(cs)
  <2>1. \A t \in Slots \ {s} :
          /\ cs[t].in_use <=> conns[t].in_use
          /\ cs[t].sock = conns[t].sock /\ cs[t].conn = conns[t].conn
          /\ IF cs[t].in_use THEN cs[t].queue = <<>> => cs[t].q_offset = 0
                             ELSE cs[t] = FreeConn
    BY <1>6, <1>10 DEF Alike
  <2>2. /\ cs[s].in_use <=> conns[s].in_use
        /\ cs[s].in_use /\ cs[s].sock = conns[s].sock /\ cs[s].conn = conns[s].conn
        /\ cs[s].queue # <<>>
    BY <1>4, <1>9, <1>10
  <2> QED BY <1>10, <2>1, <2>2 DEF Alike
<1> QED BY <1>4, <1>5, <1>10, <1>11

LEMMA AcceptWatch ==
  ASSUME Steady, FlowInv, next_conn \in Ids, AcceptOne
  PROVE  /\ WritesWatched => WritesWatched'
         /\ \A t \in Slots : conns'[t].in_use /\ (conns[t].in_use => Flagged(t)) => Flagged(t)'
<1> DEFINE c    == Head(backlog)
           open == {s \in Slots : ~conns[s].in_use}
           first == CHOOSE s \in open : \A t \in open : s <= t
<1>1. PICK watchable \in BOOLEAN :
      LET ok == watchable /\ open # {} /\ Accepts(next_conn) IN
      /\ conns' = IF ok THEN [conns EXCEPT ![first].in_use = TRUE, ![first].sock = c,
                                           ![first].conn = next_conn]
                  ELSE conns
      /\ rx' = rx
  BY Zenon DEF AcceptOne
<1> DEFINE ok == watchable /\ open # {} /\ Accepts(next_conn)
<1>2. CASE ~ok
  <2>1. conns' = conns /\ rx' = rx
    BY <1>1, <1>2
  <2>2. \A t \in Slots : conns'[t].in_use => conns[t].in_use /\ (Flagged(t)' <=> Flagged(t))
    BY <2>1 DEF Flagged
  <2> QED BY <2>1, <2>2 DEF WritesWatched
<1>3. CASE ok
  <2>1. PICK slot \in Slots : slot = first /\ ~conns[slot].in_use
    <3>1. open \in SUBSET Nat /\ open # {}
      BY <1>3 DEF Slots
    <3>2. \E s \in open : \A t \in open : s <= t
      BY <3>1, LeastNat
    <3>3. first \in open
      BY <3>2
    <3> QED BY <3>3
  <2>2. /\ conns' = [conns EXCEPT ![slot].in_use = TRUE, ![slot].sock = c,
                                  ![slot].conn = next_conn]
        /\ rx' = rx
    BY <1>1, <1>3, <2>1
  <2>3. rx[next_conn] = NewRx
    BY <1>3 DEF Accepts, FlowInv
  <2> HIDE DEF first, open, ok, c
  <2>4. conns \in [Slots -> Conn] /\ conns[slot] \in Conn /\ conns[slot] = FreeConn
    BY <2>1 DEF Steady, ConnsOK
  <2>5. /\ \A t \in Slots \ {slot} : conns'[t] = conns[t]
        /\ conns'[slot].conn = next_conn /\ conns'[slot].queue = conns[slot].queue
        /\ conns'[slot].resume = conns[slot].resume
    BY <2>1, <2>2, <2>4 DEF Conn
  <2>6. conns'[slot].queue = <<>> /\ conns'[slot].resume = FALSE
    BY <2>4, <2>5 DEF FreeConn
  <2>7. Flagged(slot)'
    <3>1. ~(NewRx.rest > 0)
      BY DEF NewRx
    <3> QED BY <2>2, <2>3, <2>5, <2>6, <3>1 DEF Flagged
  <2>8. \A t \in Slots \ {slot} : conns'[t].in_use => conns[t].in_use /\ (Flagged(t)' <=> Flagged(t))
    BY <2>2, <2>5 DEF Flagged
  <2>9. WritesWatched => WritesWatched'
    BY <2>5, <2>6 DEF WritesWatched
  <2> QED BY <2>7, <2>8, <2>9
<1> QED BY <1>2, <1>3

(* A step that touches no flag and keeps nothing more. *)
LEMMA SameWatch ==
  ASSUME conns' = conns, rx' = rx
  PROVE  (WritesWatched => WritesWatched') /\ \A t \in Slots : Flagged(t)' <=> Flagged(t)
BY DEF WritesWatched, Flagged

LEMMA SameFlow ==
  ASSUME Steady, ReplyInv, FlowInv, UNCHANGED <<conns, known, rx, lost, out>>,
         up' \in [Clients -> Nat], down' \in [Clients -> Nat],
         \A c \in Clients : up'[c] <= up[c] /\ down'[c] <= down[c]
  PROVE  FlowInv'
<1>1. out \in [Clients -> Seq(Unit)]
  BY DEF ReplyInv
<1>2. ASSUME NEW c \in Clients
      PROVE  /\ down'[c] <= Len(out'[c]) /\ Len(out[c]) - down[c] <= Len(out'[c]) - down'[c]
             /\ ~Holds(c) => down'[c] = 0
  <2>1. down[c] \in Nat /\ Len(out[c]) \in Nat /\ down[c] <= Len(out[c]) /\ down'[c] \in Nat
        /\ down'[c] <= down[c] /\ out'[c] = out[c]
    BY GotOK
  <2>2. ~Holds(c) => down[c] = 0
    BY DEF FlowInv
  <2>3. down'[c] <= Len(out[c]) /\ Len(out[c]) - down[c] <= Len(out[c]) - down'[c]
        /\ (down[c] = 0 => down'[c] = 0)
    BY <2>1
  <2> QED BY <2>1, <2>2, <2>3
<1> QED BY <1>1, <1>2, FlowKept

LEMMA CallStep ==
  ASSUME CallInv, attempt' \in Nat, feeder' # "none" => pc' = "pump" PROVE CallInv'
BY DEF CallInv

(* Outside a retry every slot in use is flagged. *)
LEMMA AllFlagged ==
  ASSUME RestsFlagged, feeder = "none", NEW t \in Slots, conns[t].in_use PROVE Flagged(t)
BY DEF RestsFlagged

LEMMA WatchStep ==
  ASSUME NetInv, ReplyInv, FlowInv, WatchInv, 2 * Window <= RxCapacity, [Next]_vars
  PROVE  FlowInv' /\ WatchInv'
<1>1. Steady /\ next_conn \in Ids /\ cur \in Slots
  BY DEF NetInv, NetTypes, CallOK, Steady
<1>2. PICK s \in Slots : s = cur
  BY <1>1
<1>3. /\ CallInv /\ WritesWatched /\ RestsFlagged /\ attempt \in Nat
      /\ pc # "pump" => feeder = "none"
  BY DEF WatchInv, CallInv
<1>4. /\ up \in [Clients -> Nat] /\ down \in [Clients -> Nat]
      /\ \A c \in Clients : up[c] <= up[c] /\ down[c] <= down[c]
  <2>1. up \in [Clients -> Nat] /\ down \in [Clients -> Nat]
    BY <1>1, NetAssumption DEF Steady, ClientsOK
  <2> QED BY <2>1
<1>5. Alike(conns) /\ \A t \in Slots : conns[t] = conns[t]
  BY <1>1, AlikeNow
<1>6. ASSUME UNCHANGED <<conns, known, rx, lost, up, down, out>> PROVE FlowInv'
  BY <1>1, <1>4, <1>6, SameFlow
<1>7. CASE UNCHANGED vars
  <2>1. UNCHANGED <<conns, known, rx, lost, up, down, out, cur, feeder, pc, attempt>>
    BY <1>7 DEF vars, serverVars, clientVars, callVars
  <2>2. RestsFlagged'
    BY <1>3, <2>1, SameWatch DEF RestsFlagged
  <2> QED BY <1>3, <1>6, <2>1, <2>2, SameWatch, CallStep DEF WatchInv, CallInv
<1>8. CASE Select \/ SelectFails \/ AcceptDone \/ AcceptFails
  <2>1. /\ UNCHANGED <<conns, known, rx, lost, up, down, out, attempt>>
        /\ pc # "pump" /\ (feeder' = "none" \/ feeder' = feeder)
    BY <1>8 DEF Select, SelectFails, AcceptDone, AcceptFails, LeaveAccept, serverVars, clientVars
  <2>2. feeder = "none" /\ feeder' = "none"
    BY <1>3, <2>1
  <2>3. RestsFlagged'
    BY <1>3, <2>1, <2>2, SameWatch, AllFlagged DEF RestsFlagged
  <2> QED BY <1>3, <1>6, <2>1, <2>2, <2>3, SameWatch, CallStep DEF WatchInv
<1>9. CASE AcceptOne
  <2>1. UNCHANGED <<pc, cur, attempt, feeder>> /\ pc = "accept"
    BY <1>9 DEF AcceptOne, callVars
  <2>2. feeder = "none" /\ feeder' = "none"
    BY <1>3, <2>1
  <2>3. RestsFlagged'
    BY <1>1, <1>3, <1>9, <2>2, AcceptWatch, AllFlagged DEF RestsFlagged
  <2> QED BY <1>1, <1>3, <1>9, <2>1, <2>2, <2>3, AcceptFlow, AcceptWatch, CallStep DEF WatchInv
<1>10. CASE ServeFlush
  <2>1. pc = "flush" /\ UNCHANGED <<lost, cur, attempt, feeder>>
    BY <1>10 DEF ServeFlush
  <2>2. feeder = "none" /\ feeder' = "none"
    BY <1>3, <2>1
  <2>3. CallInv'
    BY <1>3, <2>1, <2>2, CallStep
  <2>4. CASE conns[s].in_use /\ s \in ready.writers
    <3>1. gs_net_flush(s, conns, ring)
      BY <1>2, <1>10, <2>4 DEF ServeFlush
    <3>2. FlowInv'
      BY <1>1, <1>5, <2>1, <2>4, <3>1, FlushFlow
    <3>3. /\ WritesWatched'
          /\ \A t \in Slots : conns'[t].in_use => conns[t].in_use /\ (Flagged(t) => Flagged(t)')
      BY <1>1, <1>3, <1>5, <2>4, <3>1, FlushWatch
    <3>4. RestsFlagged'
      BY <1>3, <2>2, <3>3, AllFlagged DEF RestsFlagged
    <3> QED BY <2>3, <3>2, <3>3, <3>4 DEF WatchInv
  <2>5. CASE ~(conns[s].in_use /\ s \in ready.writers)
    <3>1. UNCHANGED <<conns, known, rx, lost, up, down, out>>
      BY <1>2, <1>10, <2>1, <2>5 DEF ServeFlush
    <3>2. RestsFlagged'
      BY <1>3, <2>2, <3>1, SameWatch, AllFlagged DEF RestsFlagged
    <3> QED BY <1>3, <1>6, <2>3, <3>1, <3>2, SameWatch DEF WatchInv
  <2> QED BY <2>4, <2>5
<1>11. CASE ServeRead
  <2> DEFINE c   == conns[cur].sock
             got == Least(up[c], ReadSize)
  <2>1. pc = "read" /\ feeder = "none"
    BY <1>3, <1>11 DEF ServeRead
  <2>2. CASE UNCHANGED <<conns, serverVars, clientVars, attempt>> /\ feeder' = "none"
    <3>1. UNCHANGED <<conns, known, rx, lost, up, down, out>>
      BY <2>2 DEF serverVars, clientVars
    <3>2. RestsFlagged'
      BY <1>3, <2>1, <3>1, SameWatch, AllFlagged DEF RestsFlagged
    <3> QED BY <1>3, <1>6, <2>2, <3>1, <3>2, SameWatch, CallStep DEF WatchInv
  <2>3. CASE /\ conns[cur].in_use /\ gs_net_drop(cur, conns, ring) /\ feeder' = "none"
             /\ UNCHANGED <<lost, attempt>>
    <3>1. conns[s].in_use /\ gs_net_drop(s, conns, ring) /\ lost' = lost
      BY <1>2, <2>3
    <3>2. FlowInv'
      BY <1>1, <1>5, <3>1, DropFlow
    <3>3. /\ WritesWatched'
          /\ \A t \in Slots : conns'[t].in_use => conns[t].in_use /\ (Flagged(t) => Flagged(t)')
      BY <1>1, <1>3, <1>5, <3>1, DropWatch
    <3>4. RestsFlagged'
      BY <1>3, <2>1, <3>3, AllFlagged DEF RestsFlagged
    <3> QED BY <1>3, <2>3, <3>2, <3>3, <3>4, CallStep DEF WatchInv
  <2>4. CASE /\ conns[cur].in_use /\ up' = [up EXCEPT ![c] = @ - got] /\ Offer(got, 0, NextRead)
             /\ feeder' = IF attempt' > 0 THEN "read" ELSE "none"
    <3>1. c \in Clients
      BY <1>1, <2>4 DEF Steady, ConnsOK
    <3>2. up[c] \in Nat /\ ReadSize \in Nat
      BY <1>1, <3>1, NetAssumption DEF Steady, ClientsOK
    <3>3. got \in Nat /\ got <= up[c]
      <4> HIDE DEF c
      <4> QED BY <3>2, LeastOK
    <3>4. PICK k \in Nat : k = got
      BY <3>3
    <3>5. PICK u : u = up[c]
      OBVIOUS
    <3>6. k <= u /\ up' = [up EXCEPT ![conns[cur].sock] = u - k] /\ Offer(k, 0, NextRead)
      BY <2>4, <3>3, <3>4, <3>5
    <3>7. /\ FlowInv' /\ WritesWatched' /\ attempt' \in Nat
          /\ attempt' > 0 => pc' = "pump" /\ cur' = cur
          /\ \A t \in Slots : conns'[t].in_use /\ (attempt' = 0 \/ t # cur) => Flagged(t)'
      <4>1. \A t \in Slots : conns[t].in_use /\ t # cur => Flagged(t)
        BY <1>3, <2>1, AllFlagged
      <4> HIDE DEF got
      <4> QED BY <1>3, <2>4, <3>5, <3>6, <4>1, OfferWatch
    <3>8. (feeder' # "none" => attempt' > 0) /\ (feeder' = "none" => attempt' = 0)
      BY <2>4, <3>7
    <3>9. CallInv' /\ RestsFlagged'
      BY <1>3, <3>7, <3>8, CallStep DEF RestsFlagged
    <3> QED BY <3>7, <3>9 DEF WatchInv
  <2> QED BY <1>11, <2>2, <2>3, <2>4 DEF ServeRead
<1>12. CASE PumpOne
  <2>1. UNCHANGED <<pc, cur, attempt, feeder, lost>>
    BY <1>12 DEF PumpOne, callVars
  <2>2. PICK t \in Slots : \E table :
          /\ conns[t].in_use /\ Alike(table) /\ gs_net_flush(t, table, Tail(ring))
          /\ \A x \in Slots \ {t} : table[x] = conns[x]
          /\ table[t].resume = conns[t].resume
    BY <1>1, <1>12, PumpFlushes
  <2>3. PICK cs :
          /\ conns[t].in_use /\ Alike(cs) /\ gs_net_flush(t, cs, Tail(ring))
          /\ \A x \in Slots \ {t} : cs[x] = conns[x]
          /\ cs[t].resume = conns[t].resume
    BY <2>2
  <2>4. FlowInv'
    BY <1>1, <2>1, <2>3, FlushFlow
  <2>5. /\ WritesWatched'
        /\ \A x \in Slots : conns'[x].in_use => conns[x].in_use /\ (Flagged(x) => Flagged(x)')
    BY <1>1, <1>3, <2>3, FlushWatch
  <2>6. RestsFlagged'
    BY <1>3, <2>1, <2>5 DEF RestsFlagged
  <2>7. CallInv'
    BY <1>3, <2>1, CallStep DEF CallInv
  <2> QED BY <2>4, <2>5, <2>6, <2>7 DEF WatchInv
<1>13. CASE PumpDone
  <2>1. CASE feeder = "none"
    <3>1. UNCHANGED <<conns, serverVars, clientVars, attempt, feeder>>
      BY <1>13, <2>1 DEF PumpDone
    <3>2. UNCHANGED <<conns, known, rx, lost, up, down, out>>
      BY <3>1 DEF serverVars, clientVars
    <3>3. RestsFlagged'
      BY <1>3, <2>1, <3>1, <3>2, SameWatch, AllFlagged DEF RestsFlagged
    <3> QED BY <1>3, <1>6, <2>1, <3>1, <3>2, <3>3, SameWatch, CallStep DEF WatchInv
  <2>2. CASE feeder # "none" /\ ~conns[cur].in_use
    <3>1. UNCHANGED <<conns, serverVars, clientVars>> /\ attempt' = 0 /\ feeder' = "none"
      BY <1>13, <2>2 DEF PumpDone
    <3>2. UNCHANGED <<conns, known, rx, lost, up, down, out>>
      BY <3>1 DEF serverVars, clientVars
    <3>3. RestsFlagged'
      BY <1>3, <2>2, <3>2, SameWatch DEF RestsFlagged
    <3> QED BY <1>3, <1>6, <3>1, <3>2, <3>3, SameWatch, CallStep DEF WatchInv
  <2>3. CASE feeder # "none" /\ conns[cur].in_use
    <3>1. /\ Offer(no_units, attempt, IF feeder = "read" THEN NextRead ELSE NextResume)
          /\ feeder' = (IF attempt' > 0 THEN feeder ELSE "none") /\ up' = up
      BY <1>13, <2>3 DEF PumpDone
    <3>2. Offer(no_units, attempt, NextRead) \/ Offer(no_units, attempt, NextResume)
      BY <3>1, Zenon DEF Offer
    <3>3. /\ FlowInv' /\ WritesWatched' /\ attempt' \in Nat
          /\ attempt' > 0 => pc' = "pump" /\ cur' = cur
          /\ \A t \in Slots : conns'[t].in_use /\ (attempt' = 0 \/ t # cur) => Flagged(t)'
      <4>1. \A t \in Slots : conns[t].in_use /\ t # cur => Flagged(t)
        BY <1>3 DEF RestsFlagged
      <4>2. PICK u : u = up[conns[cur].sock]
        OBVIOUS
      <4>3. /\ no_units \in Nat /\ no_units <= u
            /\ up' = [up EXCEPT ![conns[cur].sock] = u - no_units]
        <5>1. conns[cur].sock \in Clients
          BY <1>1, <2>3 DEF Steady, ConnsOK
        <5>2. u \in Nat
          BY <1>4, <4>2, <5>1
        <5>3. u - no_units = u /\ no_units <= u
          BY <5>2 DEF no_units
        <5> QED BY <1>4, <3>1, <4>2, <5>1, <5>3 DEF no_units
      <4> QED BY <1>3, <2>3, <3>2, <4>1, <4>2, <4>3, OfferWatch
    <3>4. (feeder' # "none" => attempt' > 0) /\ (feeder' = "none" => attempt' = 0)
      BY <2>3, <3>1, <3>3
    <3>5. CallInv' /\ RestsFlagged'
      BY <1>3, <3>3, <3>4, CallStep DEF RestsFlagged
    <3> QED BY <3>3, <3>5 DEF WatchInv
  <2> QED BY <2>1, <2>2, <2>3
<1>14. CASE Resume
  <2>1. pc = "resume" /\ feeder = "none"
    BY <1>3, <1>14 DEF Resume
  <2>2. CASE UNCHANGED <<conns, serverVars, clientVars, attempt>> /\ feeder' = "none"
    <3>1. UNCHANGED <<conns, known, rx, lost, up, down, out>>
      BY <2>2 DEF serverVars, clientVars
    <3>2. RestsFlagged'
      BY <1>3, <2>1, <3>1, SameWatch, AllFlagged DEF RestsFlagged
    <3> QED BY <1>3, <1>6, <2>2, <3>1, <3>2, SameWatch, CallStep DEF WatchInv
  <2>3. CASE /\ conns[cur].in_use /\ Offer(no_units, 0, NextResume) /\ up' = up
             /\ feeder' = IF attempt' > 0 THEN "resume" ELSE "none"
    <3>1. /\ FlowInv' /\ WritesWatched' /\ attempt' \in Nat
          /\ attempt' > 0 => pc' = "pump" /\ cur' = cur
          /\ \A t \in Slots : conns'[t].in_use /\ (attempt' = 0 \/ t # cur) => Flagged(t)'
      <4>1. \A t \in Slots : conns[t].in_use /\ t # cur => Flagged(t)
        BY <1>3, <2>1, AllFlagged
      <4>2. PICK u : u = up[conns[cur].sock]
        OBVIOUS
      <4>3. /\ no_units \in Nat /\ no_units <= u
            /\ up' = [up EXCEPT ![conns[cur].sock] = u - no_units]
        <5>1. conns[cur].sock \in Clients
          BY <1>1, <2>3 DEF Steady, ConnsOK
        <5>2. u \in Nat
          BY <1>4, <4>2, <5>1
        <5>3. u - no_units = u /\ no_units <= u
          BY <5>2 DEF no_units
        <5> QED BY <1>4, <2>3, <4>2, <5>1, <5>3 DEF no_units
      <4> QED BY <1>3, <2>3, <4>1, <4>2, <4>3, OfferWatch
    <3>2. (feeder' # "none" => attempt' > 0) /\ (feeder' = "none" => attempt' = 0)
      BY <2>3, <3>1
    <3>3. CallInv' /\ RestsFlagged'
      BY <1>3, <3>1, <3>2, CallStep DEF RestsFlagged
    <3> QED BY <3>1, <3>3 DEF WatchInv
  <2> QED BY <1>14, <2>2, <2>3 DEF Resume
<1>15. CASE Reopen
  <2>1. UNCHANGED <<pc, cur, attempt, feeder>> /\ \A t \in Slots : ~conns'[t].in_use
    BY <1>15, FreeIsConn DEF Reopen, callVars
  <2>2. CallInv'
    BY <1>3, <2>1, CallStep DEF CallInv
  <2>3. WritesWatched' /\ RestsFlagged'
    BY <2>1 DEF WritesWatched, RestsFlagged
  <2> QED BY <1>1, <1>15, <2>2, <2>3, ReopenFlow DEF WatchInv
<1>16. ASSUME NEW t \in Slots, gsp_net_close_connection(t) PROVE FlowInv' /\ WatchInv'
  <2>1. conns[t].in_use /\ gs_net_drop(t, conns, ring) /\ UNCHANGED <<lost, pc, cur, attempt, feeder>>
    BY <1>16 DEF gsp_net_close_connection, callVars
  <2>2. FlowInv'
    BY <1>1, <1>5, <2>1, DropFlow
  <2>3. /\ WritesWatched'
        /\ \A x \in Slots : conns'[x].in_use => conns[x].in_use /\ (Flagged(x) => Flagged(x)')
    BY <1>1, <1>3, <1>5, <2>1, DropWatch
  <2>4. RestsFlagged'
    BY <1>3, <2>1, <2>3 DEF RestsFlagged
  <2>5. CallInv'
    BY <1>3, <2>1, CallStep DEF CallInv
  <2> QED BY <2>2, <2>3, <2>4, <2>5 DEF WatchInv
<1>17. ASSUME NEW c \in Clients, Client(c) PROVE FlowInv' /\ WatchInv'
  <2>1. UNCHANGED <<conns, known, rx, lost, out, pc, cur, attempt, feeder>>
    BY <1>17 DEF Client, Connect, Send, Receive, Finish, Break, serverVars, callVars
  <2>2. RestsFlagged'
    BY <1>3, <2>1, SameWatch DEF RestsFlagged
  <2>3. WatchInv'
    BY <1>3, <2>1, <2>2, SameWatch, CallStep DEF WatchInv, CallInv
  <2>4. CASE Send(c)
    BY <1>1, <2>3, <2>4, SendFlow
  <2>5. CASE Connect(c) \/ Finish(c)
    <3>1. UNCHANGED <<up, down>>
      BY <2>5 DEF Connect, Finish
    <3> QED BY <1>6, <2>1, <2>3, <3>1
  <2>6. CASE Receive(c)
    <3>1. PICK k \in 1..down[c] : down' = [down EXCEPT ![c] = @ - k]
      BY <2>6 DEF Receive
    <3>2. up' = up
      BY <2>6 DEF Receive
    <3>3. down[c] \in Nat
      BY <1>4
    <3>4. down[c] - k \in Nat /\ down[c] - k <= down[c]
      BY <3>3
    <3>5. down' \in [Clients -> Nat] /\ \A d \in Clients : down'[d] <= down[d]
      BY <1>4, <3>1, <3>4
    <3> QED BY <1>1, <1>4, <2>1, <2>3, <3>2, <3>5, SameFlow
  <2>7. CASE Break(c)
    <3>1. up' = [up EXCEPT ![c] = 0] /\ down' = down
      BY <2>7 DEF Break
    <3>2. up' \in [Clients -> Nat] /\ \A d \in Clients : up'[d] <= up[d]
      BY <1>4, <3>1
    <3> QED BY <1>1, <1>4, <2>1, <2>3, <3>1, <3>2, SameFlow
  <2> QED BY <1>17, <2>4, <2>5, <2>6, <2>7 DEF Client
<1> QED BY <1>7, <1>8, <1>9, <1>10, <1>11, <1>12, <1>13, <1>14, <1>15, <1>16, <1>17 DEF Next, gsp_net_poll

LEMMA WatchStart == Init => FlowInv /\ WatchInv
<1> SUFFICES ASSUME Init PROVE FlowInv /\ WatchInv
  OBVIOUS
<1>1. /\ \A s \in Slots : ~conns[s].in_use
      /\ known = {} /\ rx = [i \in Ids |-> NewRx] /\ lost = FALSE /\ attempt = 0 /\ feeder = "none"
      /\ up = [c \in Clients |-> 0] /\ down = [c \in Clients |-> 0] /\ out = [c \in Clients |-> <<>>]
  BY FreeIsConn DEF Init
<1>2. ASSUME NEW c \in Clients PROVE down[c] = 0 /\ up[c] <= 2 * Window /\ down[c] <= Len(out[c])
  <2>1. down[c] = 0 /\ up[c] = 0 /\ Len(out[c]) = 0
    BY <1>1
  <2> QED BY <2>1, NetAssumption
<1>3. FlowInv
  BY <1>1, <1>2 DEF FlowInv
<1> QED BY <1>1, <1>3 DEF WatchInv, CallInv, WritesWatched, RestsFlagged

(* Clients that send no more ahead than rx can keep never lose a byte, and *)
(* between two polls nothing waits unseen: gs_net_flush has the socket of  *)
(* every reply left in a queue watched, and gs_net_feed has the flag set   *)
(* for whatever the server kept after a refusal, and only for that.        *)
THEOREM TransportForgetsNothing ==
  ASSUME 2 * Window <= RxCapacity
  PROVE  Spec => []NothingForgotten
<1>1. ASSUME NetInv, ReplyInv, FlowInv, WatchInv, [Next]_vars PROVE FlowInv' /\ WatchInv'
  BY <1>1, WatchStep
<1>2. FlowInv /\ WatchInv => NothingForgotten
  <2> SUFFICES ASSUME FlowInv, WatchInv PROVE NothingForgotten
    OBVIOUS
  <2>1. pc = "host" => feeder = "none"
    BY DEF WatchInv, CallInv
  <2> QED BY <2>1 DEF NothingForgotten, FlowInv, WatchInv, WritesWatched, RestsFlagged, Flagged
<1> QED BY NetStart, NetStep, RepliesStart, RepliesStep, WatchStart, <1>1, <1>2, PTL DEF Spec
=============================================================================
