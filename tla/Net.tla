-------------------------------- MODULE Net ---------------------------------
(***************************************************************************)
(* The socket transport of src/net/gs_net.c over the server's promises:    *)
(* gsp_net_poll is select, accept, serve every slot (flush, one read),     *)
(* pump, resume.  A step is one system call with what follows it, so       *)
(* clients act between any two.                                            *)
(*                                                                         *)
(* A request and a reply are two units long: either may be cut in half.    *)
(* Requests on one connection are numbered, and a reply is its request's   *)
(* number.  The server is what Server shows of it, by counting units.  No  *)
(* deadline is armed (spacing and idle alarm off), so the tick does        *)
(* nothing.  Clients and the kernel are external.                          *)
(***************************************************************************)
EXTENDS Integers, FiniteSets, WriteQueue

CONSTANTS
  Clients, NoClient,
  MaxConns,          \* config.max_connections of the transport
  ServerMax,         \* ... and of the server
  IdMax,             \* connection ids are 1..IdMax, taken in turn
  SendQueue,         \* config.write_queue, per connection
  RxCapacity,        \* units the server keeps of one connection
  ReadSize,          \* config.read_buffer, in units
  Retries,           \* GS_NET_QUEUE_FULL_RETRIES
  WaitForever,       \* timeout_ms < 0
  SendBuffer,        \* units the kernel takes for a client that does not read
  MaxRequests,       \* bound: requests on one connection
  Window             \* requests a client sends ahead of the replies it has read

ASSUME NetAssumption ==
  /\ MaxConns \in Nat \ {0} /\ ServerMax \in Nat \ {0} /\ IdMax \in Nat \ {0}
  /\ SendQueue \in Nat \ {0}
  /\ RxCapacity \in Nat \ {0, 1} /\ ReadSize \in Nat \ {0} /\ SendBuffer \in Nat \ {0}
  /\ Retries \in Nat /\ MaxRequests \in Nat /\ Window \in Nat \ {0}
  /\ WaitForever \in BOOLEAN /\ NoClient \notin Clients

Slots == 1..MaxConns
Ids   == 1..IdMax

VARIABLES
  conns, next_conn,                \* gsp_net
  known, ring, rx,                 \* gsp_server: open ids, write ring, rx[id]
  link, backlog, up, down, out,    \* per client: state, units on the way, history
  pc, cur, ready, attempt, feeder, \* the running gsp_net_poll
  lost                             \* history: the server dropped or ignored bytes

serverVars == <<known, ring, rx, lost>>
clientVars == <<link, up, down, out>>
callVars   == <<pc, cur, ready, attempt, feeder>>
vars == <<conns, next_conn, serverVars, clientVars, backlog, callVars>>
-----------------------------------------------------------------------------
FreeConn == [in_use |-> FALSE, sock |-> NoClient, conn |-> 0, want_write |-> FALSE,
             resume |-> FALSE, queue |-> <<>>, q_offset |-> 0]

(* part: an object's first unit has been scanned; rest: units kept after a *)
(* refusal; count: requests delivered.                                     *)
NewRx == [part |-> 0, rest |-> 0, count |-> 0]

NoneReady == [listener |-> FALSE, readers |-> {}, writers |-> {}]

Init ==
  /\ conns = [s \in Slots |-> FreeConn] /\ next_conn = 1
  /\ known = {} /\ ring = <<>> /\ rx = [i \in Ids |-> NewRx] /\ lost = FALSE
  /\ link = [c \in Clients |-> "idle"] /\ backlog = <<>>
  /\ up = [c \in Clients |-> 0] /\ down = [c \in Clients |-> 0]
  /\ out = [c \in Clients |-> <<>>]
  /\ pc = "host" /\ cur = 1 /\ ready = NoneReady /\ attempt = 0 /\ feeder = "none"

Least(a, b) == IF a < b THEN a ELSE b
-----------------------------------------------------------------------------
(***************************************************************************)
(* The server: gsp_server_on_bytes for k more units on connection id.  An  *)
(* open object closes whether or not the ring has a place; after that a    *)
(* request is begun only with a place free, and what is left of the read   *)
(* is kept if it fits.  With rx full of kept units nothing is copied, and  *)
(* if they are then consumed the new ones are ignored.                     *)
(***************************************************************************)
on_bytes(id, k) ==
  LET r      == rx[id]
      stuck  == r.rest = RxCapacity /\ k > 0
      n      == r.rest + (IF stuck THEN 0 ELSE k)
      free   == WriteRing - Len(ring)
      closes == IF r.part = 1 /\ n > 0 THEN 1 ELSE 0
      first  == Least(closes, free)
      begun  == n - closes
      whole  == IF r.part = 1 /\ closes = 0 THEN 0 ELSE Least(begun \div 2, free - first)
      rest   == begun - 2 * whole
      full   == rest > 0 /\ whole + first = free
      kept   == rest + (IF stuck THEN k ELSE 0)
      count  == r.count + closes + whole
      numbers == (IF first = 1 THEN <<r.count + 1>> ELSE <<>>)
                   \o [j \in 1..whole |-> r.count + closes + j]
  IN  [full |-> full,
       lost |-> IF full THEN kept > RxCapacity ELSE stuck,
       ring |-> ring \o [j \in 1..Len(numbers) |-> [conn |-> id, number |-> numbers[j]]],
       rx   |-> [count |-> count,
                 rest  |-> IF full /\ kept <= RxCapacity THEN kept ELSE 0,
                 part  |-> IF full THEN 0 ELSE IF closes = 0 /\ r.part = 1 THEN 1 ELSE rest]]

(* gsp_server_on_connection_opened answers GSP_OK. *)
Accepts(id) == id \notin known /\ Cardinality(known) < ServerMax
-----------------------------------------------------------------------------
(* Mutant: the socket is closed and the server is not told. *)
gs_net_drop_untold(s, cs, rg) ==
  /\ conns' = [cs EXCEPT ![s] = FreeConn] /\ ring' = rg
  /\ link' = [link EXCEPT ![cs[s].sock] = "idle"]
  /\ up' = [up EXCEPT ![cs[s].sock] = 0] /\ down' = [down EXCEPT ![cs[s].sock] = 0]
  /\ out' = [out EXCEPT ![cs[s].sock] = <<>>]
  /\ UNCHANGED <<known, rx>>

(* gs_net_drop with conns = cs and the server's ring = rg at that point:   *)
(* the server is told, which drops its writes; the socket closes.          *)
gs_net_drop(s, cs, rg) ==
  LET c  == cs[s].sock
      id == cs[s].conn
  IN  /\ known' = known \ {id}
      /\ ring' = drop_writes_for(rg, id)
      /\ rx' = [rx EXCEPT ![id] = NewRx]
      /\ conns' = [cs EXCEPT ![s] = FreeConn]
      /\ link' = [link EXCEPT ![c] = "idle"]
      /\ up' = [up EXCEPT ![c] = 0] /\ down' = [down EXCEPT ![c] = 0]
      /\ out' = [out EXCEPT ![c] = <<>>]

(* The units of a queue of replies, two each. *)
Units(q) == [k \in 1..(2 * Len(q)) |-> <<q[(k + 1) \div 2], (k + 1) % 2>>]

(* Mutant: a reply sent in part is taken for sent. *)
whole_sent_early(units) == (units + 1) \div 2

(* Requests taken off the queue once so many of its units have gone ...    *)
whole_sent(units) == units \div 2

(* Mutant: a short send starts the reply again. *)
offset_forgotten(units) == 0

(* ... and how far into the next one the kernel is. *)
offset_after(units) == units % 2

(* Mutant: only a send that took nothing counts as blocked. *)
blocked_at_zero(sent, left) == sent = 0 /\ left > 0

blocked(sent, left) == sent < left

(* gs_net_flush: sends until the queue is empty or the kernel takes less   *)
(* than it was given; a failed send drops the connection.                  *)
gs_net_flush(s, cs, rg) ==
  LET c    == cs[s].sock
      q    == cs[s].queue
      off  == cs[s].q_offset
      left == 2 * Len(q) - off
      sent == Least(left, SendBuffer - down[c])
      gone == whole_sent(off + sent)
  IN  IF left > 0 /\ link[c] = "reset" THEN gs_net_drop(s, cs, rg)
      ELSE /\ conns' = [cs EXCEPT ![s].queue = SubSeq(q, gone + 1, Len(q)),
                                  ![s].q_offset = offset_after(off + sent),
                                  ![s].want_write = blocked(sent, left)]
           /\ out' = [out EXCEPT ![c] = @ \o SubSeq(Units(q), off + 1, off + sent)]
           /\ down' = [down EXCEPT ![c] = @ + sent]
           /\ ring' = rg
           /\ UNCHANGED <<known, rx, link, up>>
-----------------------------------------------------------------------------
(* select *)

Readable(s) == conns[s].in_use /\ (up[conns[s].sock] > 0 \/ link[conns[s].sock] # "open")
Writable(s) ==
  /\ conns[s].want_write
  /\ down[conns[s].sock] < SendBuffer \/ link[conns[s].sock] = "reset"

Select ==
  LET now == [listener |-> backlog # <<>>,
              readers |-> {s \in Slots : Readable(s)},
              writers |-> {s \in Slots : Writable(s)}]
  IN  /\ pc = "host"
      /\ now # NoneReady \/ ~WaitForever
      /\ ready' = now
      /\ pc' = IF now = NoneReady THEN "pump" ELSE IF now.listener THEN "accept" ELSE "flush"
      /\ feeder' = "none" /\ cur' = 1
      /\ UNCHANGED <<conns, next_conn, serverVars, clientVars, backlog, attempt>>

(* EINTR: nothing is served, the pass goes on. *)
SelectFails ==
  /\ pc = "host" /\ pc' = "pump" /\ ready' = NoneReady /\ feeder' = "none"
  /\ UNCHANGED <<conns, next_conn, serverVars, clientVars, backlog, cur, attempt>>

(* gs_net_accept takes one connection: the first free slot and the next    *)
(* id.  A descriptor select cannot watch is refused before either.         *)
AcceptOne ==
  LET c    == Head(backlog)
      open == {s \in Slots : ~conns[s].in_use}
      slot == CHOOSE s \in open : \A t \in open : s <= t
  IN \E watchable \in BOOLEAN :
      LET ok == watchable /\ open # {} /\ Accepts(next_conn) IN
      /\ pc = "accept" /\ backlog # <<>>
      /\ backlog' = Tail(backlog)
      /\ next_conn' = IF watchable /\ open # {} THEN (next_conn % IdMax) + 1 ELSE next_conn
      /\ known' = IF ok THEN known \cup {next_conn} ELSE known
      /\ conns' = IF ok THEN [conns EXCEPT ![slot].in_use = TRUE, ![slot].sock = c,
                                           ![slot].conn = next_conn]
                  ELSE conns
      /\ link' = IF ok THEN link ELSE [link EXCEPT ![c] = "idle"]
      /\ up' = IF ok THEN up ELSE [up EXCEPT ![c] = 0]
      /\ UNCHANGED <<ring, rx, lost, down, out, callVars>>

LeaveAccept ==
  /\ pc = "accept" /\ pc' = "flush"
  /\ UNCHANGED <<conns, next_conn, serverVars, clientVars, backlog, cur, ready, attempt, feeder>>

AcceptDone == backlog = <<>> /\ LeaveAccept

(* accept failed, and those waiting wait for the next pass. *)
AcceptFails == backlog # <<>> /\ LeaveAccept
-----------------------------------------------------------------------------
(* The loop over the slots, and the one after the pump. *)

NextRead == IF cur < MaxConns THEN pc' = "flush" /\ cur' = cur + 1
            ELSE pc' = "pump" /\ cur' = 1
NextResume == IF cur < MaxConns THEN pc' = "resume" /\ cur' = cur + 1
              ELSE pc' = "host" /\ cur' = 1

ServeFlush ==
  /\ pc = "flush" /\ pc' = "read"
  /\ IF conns[cur].in_use /\ cur \in ready.writers
     THEN gs_net_flush(cur, conns, ring)
     ELSE UNCHANGED <<conns, known, ring, rx, link, up, down, out>>
  /\ UNCHANGED <<next_conn, lost, backlog, cur, ready, attempt, feeder>>

(* What a retry or a resume offers: on_bytes(..., NULL, 0, ...). *)
no_units == 0

(* gs_net_feed's on_bytes: a refusal is retried behind a pump, as long as  *)
(* tries are left; then the flag remembers it.                             *)
Offer(k, used, Continue) ==
  LET res == on_bytes(conns[cur].conn, k)
  IN  /\ ring' = res.ring
      /\ rx' = [rx EXCEPT ![conns[cur].conn] = res.rx]
      /\ lost' = (lost \/ res.lost)
      /\ IF res.full /\ used < Retries
         THEN /\ pc' = "pump" /\ attempt' = used + 1
              /\ UNCHANGED <<conns, cur>>
         ELSE /\ conns' = [conns EXCEPT ![cur].resume = res.full]
              /\ attempt' = 0
              /\ Continue
      /\ UNCHANGED <<known, link, down, out>>

ServeRead ==
  LET c   == conns[cur].sock
      got == Least(up[c], ReadSize)
  IN  /\ pc = "read"
      /\ \/ /\ ~(conns[cur].in_use /\ cur \in ready.readers)
            /\ NextRead
            /\ feeder' = "none"
            /\ UNCHANGED <<conns, serverVars, clientVars, attempt>>
         \/ /\ conns[cur].in_use /\ cur \in ready.readers
            /\ link[c] = "reset" \/ (link[c] = "fin" /\ up[c] = 0)
            /\ gs_net_drop(cur, conns, ring)
            /\ NextRead
            /\ feeder' = "none"
            /\ UNCHANGED <<lost, attempt>>
         \/ /\ conns[cur].in_use /\ cur \in ready.readers
            /\ link[c] # "reset" /\ up[c] > 0
            /\ up' = [up EXCEPT ![c] = @ - got]
            /\ Offer(got, 0, NextRead)
            /\ feeder' = IF attempt' > 0 THEN "read" ELSE "none"
      /\ UNCHANGED <<next_conn, backlog, ready>>

(* Mutant: only new bytes resume a refused connection. *)
ResumeNever ==
  /\ pc = "resume" /\ NextResume /\ feeder' = "none"
  /\ UNCHANGED <<conns, serverVars, clientVars, attempt, next_conn, backlog, ready>>

Resume ==
  /\ pc = "resume"
  /\ \/ /\ ~(conns[cur].in_use /\ conns[cur].resume)
        /\ NextResume
        /\ feeder' = "none"
        /\ UNCHANGED <<conns, serverVars, clientVars, attempt>>
     \/ /\ conns[cur].in_use /\ conns[cur].resume
        /\ Offer(no_units, 0, NextResume)
        /\ feeder' = IF attempt' > 0 THEN "resume" ELSE "none"
        /\ UNCHANGED up
  /\ UNCHANGED <<next_conn, backlog, ready>>
-----------------------------------------------------------------------------
(* gs_net_pump *)

SendRoom == \A s \in Slots : conns[s].in_use => Len(conns[s].queue) < SendQueue

gs_net_find(id) == {s \in Slots : conns[s].in_use /\ conns[s].conn = id}

PumpOne ==
  LET w == Head(ring)
      s == CHOOSE t \in gs_net_find(w.conn) : TRUE
  IN  /\ pc = "pump" /\ SendRoom /\ ring # <<>>
      /\ IF gs_net_find(w.conn) = {}
         THEN ring' = Tail(ring) /\ UNCHANGED <<conns, known, rx, link, up, down, out>>
         ELSE gs_net_flush(s, [conns EXCEPT ![s].queue = Append(@, w.number)], Tail(ring))
      /\ UNCHANGED <<next_conn, lost, backlog, callVars>>

(* The pump is done: the pass goes on, or the feed that called it offers   *)
(* zero units again unless its socket is gone.                             *)
PumpDone ==
  /\ pc = "pump"
  /\ ~SendRoom \/ ring = <<>>
  /\ CASE feeder = "none" ->
            /\ pc' = "resume" /\ cur' = 1
            /\ UNCHANGED <<conns, serverVars, clientVars, attempt, feeder>>
       [] feeder # "none" /\ ~conns[cur].in_use ->
            /\ IF feeder = "read" THEN NextRead ELSE NextResume
            /\ attempt' = 0 /\ feeder' = "none"
            /\ UNCHANGED <<conns, serverVars, clientVars>>
       [] OTHER ->
            /\ Offer(no_units, attempt, IF feeder = "read" THEN NextRead ELSE NextResume)
            /\ feeder' = IF attempt' > 0 THEN feeder ELSE "none"
            /\ UNCHANGED up
  /\ UNCHANGED <<next_conn, backlog, ready>>
-----------------------------------------------------------------------------
(* The host, between polls. *)

gsp_net_close_connection(s) ==
  /\ pc = "host" /\ conns[s].in_use
  /\ gs_net_drop(s, conns, ring)
  /\ UNCHANGED <<next_conn, lost, backlog, callVars>>

(* gsp_net_close, and gsp_net_open on the same server: every connection is *)
(* reported, the ones not accepted yet are reset, ids start again at 1.    *)
Reopen ==
  /\ pc = "host"
  /\ conns' = [s \in Slots |-> FreeConn] /\ next_conn' = 1
  /\ LET held == {conns[s].conn : s \in {t \in Slots : conns[t].in_use}}
     IN  /\ known' = known \ held
         /\ ring' = kept_writes(ring, Addressees(ring) \ held)
         /\ rx' = [i \in Ids |-> IF i \in held THEN NewRx ELSE rx[i]]
  /\ link' = [c \in Clients |-> "idle"] /\ backlog' = <<>>
  /\ up' = [c \in Clients |-> 0] /\ down' = [c \in Clients |-> 0]
  /\ out' = [c \in Clients |-> <<>>]
  /\ UNCHANGED <<lost, callVars>>
-----------------------------------------------------------------------------
(* Clients and the kernel. *)

IdOf(c) == {conns[s].conn : s \in {t \in Slots : conns[t].in_use /\ conns[t].sock = c}}

(* Units sent by c on this connection, and replies it has read in full. *)
Asked(c) ==
  up[c] + (IF IdOf(c) = {} THEN 0
           ELSE LET r == rx[CHOOSE i \in IdOf(c) : TRUE] IN 2 * r.count + r.part + r.rest)
Got(c) == (Len(out[c]) - down[c]) \div 2

Connect(c) ==
  /\ link[c] = "idle"
  /\ link' = [link EXCEPT ![c] = "open"]
  /\ backlog' = Append(backlog, c)
  /\ UNCHANGED <<conns, next_conn, serverVars, up, down, out, callVars>>

Send(c) ==
  /\ link[c] = "open"
  /\ Asked(c) < 2 * MaxRequests /\ Asked(c) - 2 * Got(c) < 2 * Window
  /\ up' = [up EXCEPT ![c] = @ + 1]
  /\ UNCHANGED <<conns, next_conn, serverVars, link, down, out, backlog, callVars>>

Receive(c) ==
  /\ link[c] = "open" /\ down[c] > 0
  /\ \E k \in 1..down[c] : down' = [down EXCEPT ![c] = @ - k]
  /\ UNCHANGED <<conns, next_conn, serverVars, link, up, out, backlog, callVars>>

(* The client closes its end; or the connection breaks, which discards     *)
(* what was on the way.                                                    *)
Finish(c) ==
  /\ link[c] = "open"
  /\ link' = [link EXCEPT ![c] = "fin"]
  /\ UNCHANGED <<conns, next_conn, serverVars, up, down, out, backlog, callVars>>

Break(c) ==
  /\ link[c] \in {"open", "fin"}
  /\ link' = [link EXCEPT ![c] = "reset"]
  /\ up' = [up EXCEPT ![c] = 0]
  /\ UNCHANGED <<conns, next_conn, serverVars, down, out, backlog, callVars>>
-----------------------------------------------------------------------------
gsp_net_poll ==
  Select \/ AcceptOne \/ AcceptDone \/ ServeFlush \/ ServeRead \/ PumpOne \/ PumpDone \/ Resume

Client(c) == Connect(c) \/ Send(c) \/ Receive(c) \/ Finish(c) \/ Break(c)

Next ==
  \/ gsp_net_poll \/ SelectFails \/ AcceptFails \/ Reopen
  \/ \E s \in Slots : gsp_net_close_connection(s)
  \/ \E c \in Clients : Client(c)

Spec == Init /\ [][Next]_vars

(* The host polls again and again, select and accept do not fail every     *)
(* time, and a client that stays reads what it is sent.                    *)
FairSpec ==
  /\ Spec
  /\ WF_vars(gsp_net_poll) /\ SF_vars(Select) /\ SF_vars(AcceptOne)
  /\ \A c \in Clients : WF_vars(Receive(c))
-----------------------------------------------------------------------------
(* PROPERTIES *)

(* Transport and server agree on who is connected, at every step: no open  *)
(* id without a socket, no socket without an id, no reply for neither.     *)
TablesAgree ==
  LET held == {s \in Slots : conns[s].in_use}
  IN  /\ known = {conns[s].conn : s \in held}
      /\ \A s, t \in held : s # t => conns[s].conn # conns[t].conn /\ conns[s].sock # conns[t].sock
      /\ \A k \in 1..Len(ring) : ring[k].conn \in known

(* Everything sent to a connection or about to be: on the wire, in its     *)
(* queue behind what has gone, in the server's ring.                       *)
Stream(s) ==
  LET c    == conns[s]
      mine == WritesFor(ring, c.conn)
  IN  out[c.sock] \o SubSeq(Units(c.queue), c.q_offset + 1, 2 * Len(c.queue))
        \o Units([k \in 1..Len(mine) |-> mine[k].number])

Numbers(stream) == [k \in 1..(Len(stream) \div 2) |-> stream[2 * k][1]]

(* A client gets whole replies in the order of its requests, none twice    *)
(* and never two mixed, through short sends, full queues and retries.      *)
RepliesWhole ==
  \A s \in Slots : conns[s].in_use =>
    LET n == Numbers(Stream(s))
    IN  /\ Stream(s) = Units(n)
        /\ \A k \in 1..(Len(n) - 1) : n[k] < n[k + 1]
        /\ \A k \in 1..Len(n) : n[k] <= rx[conns[s].conn].count

(* A reply is never dropped (net.h:139): every request the server has      *)
(* counted is answered by what is sent, queued or in the ring.             *)
NoReplyDropped ==
  \A s \in Slots : conns[s].in_use =>
    Numbers(Stream(s)) = [k \in 1..rx[conns[s].conn].count |-> k]

(* Between polls nothing waits without someone who will come back to it: a *)
(* reply in a queue has its socket watched, and what the server keeps      *)
(* after a refusal has the resume flag set, and only that.  Clients that   *)
(* send no more ahead than rx can keep never lose a byte.                  *)
NothingForgotten ==
  /\ pc = "host" =>
       \A s \in Slots : conns[s].in_use =>
         /\ conns[s].queue # <<>> => conns[s].want_write
         /\ rx[conns[s].conn].rest > 0 <=> conns[s].resume
  /\ 2 * Window <= RxCapacity => ~lost

(* A request from a client that stays connected and reads is answered,     *)
(* without the client having to send anything else.                        *)
RepliesArrive ==
  \A c \in Clients, n \in 1..MaxRequests :
    Asked(c) >= 2 * n ~> Got(c) >= n \/ link[c] # "open"
=============================================================================
