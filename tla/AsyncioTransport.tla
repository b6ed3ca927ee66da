-------------------------- MODULE AsyncioTransport --------------------------
(***************************************************************************)
(* The reference listener of src/python/gspro/asyncio_transport.py: one    *)
(* coroutine per client, the host's own calls, and stop(), on one event    *)
(* loop.  A coroutine runs from one await to the next without a break, so  *)
(* that is what an action is; between two awaits of one of them any other  *)
(* may run.  An await that need not wait may give way all the same.        *)
(*                                                                         *)
(* The server is what Server.tla shows of it to a host that drains after   *)
(* every call, with write spacing and the idle alarm off: a read of n      *)
(* messages queues n replies, or as many as the write ring holds; the rest *)
(* is kept if the receive buffer holds it, and thrown away if it does not, *)
(* as a read of 65536 bytes into a buffer of max_message_bytes + 1 allows. *)
(* The drain empties the ring.  The streams and sockets are the library's  *)
(* and the system's.                                                       *)
(***************************************************************************)
EXTENDS Integers, FiniteSets, SequencesExt

CONSTANTS
  Clients,         \* a bound: the connections there will be, numbered as they come
  Tables,          \* the config.max_connections values tried
  WriteRing,       \* config.write_ring
  RxCapacity,      \* messages a connection's receive buffer holds
  HighWater,       \* replies in a stream's buffer at which drain() waits
  MaxAnnounced,    \* bound: announcements the host makes
  MaxTraffic       \* bound: those and the messages of the clients

ASSUME AsyncioAssumption ==
  /\ Clients \in Nat /\ MaxAnnounced \in Nat /\ MaxTraffic \in Nat
  /\ {WriteRing, RxCapacity, HighWater} \cup Tables \subseteq Nat \ {0}

Conns == 1..Clients
Host  == 0
Tasks == Conns \cup {Host}

VARIABLES
  task,      \* [Tasks -> where the coroutine is]
  left,      \* [Tasks -> the writers its _pump_async has yet to await]
  then,      \* [Tasks -> what it does after that]
  writers,   \* self._writers, in the order of insertion
  closing,   \* self._closing
  stopping,  \* where stop() is
  stop_left, \* the writers stop() has yet to await
  late,      \* history: connections whose coroutine began after stop() closed the streams
  open,      \* the connections the server has open
  kept,      \* [Conns -> messages the server retained]
  inbox,     \* [Conns -> messages that wait to be read]
  out,       \* [Conns -> replies in the stream's buffer]
  sock,      \* [Conns -> "none", "accepted", "open", "closing" or "closed"]
  peer,      \* [Conns -> "reads", "stalled" or "gone"]
  sent,      \* messages sent so far
  owed,      \* history: [Conns -> messages sent and not answered]
  thrown,    \* history: [Conns -> those of them the server threw away]
  announced, \* announcements made so far
  max_connections, \* config.max_connections
  waits      \* once stop() runs: Server.wait_closed waits for the connections (Python 3.12)

taskVars == <<task, left, then>>
stopVars == <<closing, stopping, stop_left, late>>
netVars  == <<sock, peer, sent>>
history  == <<owed, thrown>>
config   == <<max_connections, waits>>
vars == <<taskVars, writers, stopVars, open, kept, inbox, out, netVars, announced, config,
          history>>

Init ==
  /\ task = [t \in Tasks |-> "none"]
  /\ left = [t \in Tasks |-> <<>>]
  /\ then = [t \in Tasks |-> "return"]
  /\ writers = <<>> /\ closing = FALSE /\ stopping = "no" /\ stop_left = <<>> /\ late = {}
  /\ open = {} /\ announced = 0
  /\ kept = [c \in Conns |-> 0] /\ inbox = [c \in Conns |-> 0] /\ out = [c \in Conns |-> 0]
  /\ sock = [c \in Conns |-> "none"] /\ peer = [c \in Conns |-> "reads"]
  /\ sent = 0 /\ owed = [c \in Conns |-> 0] /\ thrown = [c \in Conns |-> 0]
  /\ max_connections \in Tables /\ waits = FALSE
-----------------------------------------------------------------------------
(* await _pump_async(): the rings are drained, and then the task awaits    *)
(* every writer there was, one after the other, its own or not.            *)
PumpAsync(t, ws, next) ==
  /\ task' = [task EXCEPT ![t] = "flush"]
  /\ left' = [left EXCEPT ![t] = ws]
  /\ then' = [then EXCEPT ![t] = next]

(* drain() waits while the buffer is full, and for nothing once the        *)
(* connection is lost.                                                     *)
Paused(c) == sock[c] # "closed" /\ out[c] >= HighWater

Awaited(t) ==
  /\ task[t] = "flush" /\ left[t] # <<>> /\ ~Paused(left[t][1])
  /\ left' = [left EXCEPT ![t] = Tail(left[t])]
  /\ UNCHANGED <<task, then, writers, stopVars, open, kept, inbox, out, netVars, announced,
                 config, history>>

Flushed(t) == task[t] = "flush" /\ left[t] = <<>>

(* The listener accepts a connection, until it is closed; the event loop   *)
(* starts the client's coroutine in a later turn.  Bound: one at a time.   *)
Accept(c) ==
  /\ ~closing /\ sock[c] = "none" /\ \A b \in 1..(c - 1) : sock[b] \notin {"none", "accepted"}
  /\ sock' = [sock EXCEPT ![c] = "accepted"]
  /\ UNCHANGED <<taskVars, writers, stopVars, open, kept, inbox, out, peer, sent, announced,
                 config, history>>

(* _on_client up to its first await, which does not look at _closing; the  *)
(* server may have no place left.                                          *)
OnClient(c) ==
  /\ sock[c] = "accepted"
  /\ late' = IF stopping \in {"writers", "done"} THEN late \cup {c} ELSE late
  /\ IF Cardinality(open) < max_connections
     THEN /\ open' = open \cup {c}
          /\ writers' = Append(writers, c)
          /\ sock' = [sock EXCEPT ![c] = "open"]
          /\ PumpAsync(c, writers', "read")
     ELSE /\ sock' = [sock EXCEPT ![c] = "closing"]
          /\ task' = [task EXCEPT ![c] = "ended"]
          /\ UNCHANGED <<open, writers, left, then>>
  /\ UNCHANGED <<closing, stopping, stop_left, kept, inbox, out, peer, sent, announced,
                 config, history>>

(* The reply goes to the writer, if there still is one; a stream that was  *)
(* closed drops it.                                                        *)
Takes(c) == Contains(writers, c) /\ sock[c] = "open"

Wrote(c, n) == out' = [out EXCEPT ![c] = IF Takes(c) THEN out[c] + n ELSE out[c]]

Least(a, b) == IF a < b THEN a ELSE b

(* Mutant: what the server kept waits for the next read. *)
AfterBytesReads(refused) == "read"

AfterBytes(refused) == IF refused THEN "resume" ELSE "read"

(* What on_bytes retains of the messages it refused. *)
Retained(n) == IF n <= RxCapacity THEN n ELSE 0

(* on_bytes with n messages, then the pump. *)
OnBytes(c, n) ==
  LET taken == Least(n, WriteRing)
      over  == n - taken
  IN  /\ kept' = [kept EXCEPT ![c] = Retained(over)]
      /\ Wrote(c, taken)
      /\ owed' = [owed EXCEPT ![c] = IF Takes(c) THEN owed[c] - taken ELSE owed[c]]
      /\ thrown' = [thrown EXCEPT ![c] = thrown[c] + over - Retained(over)]
      /\ PumpAsync(c, writers, AfterBytes(taken < n))
      /\ UNCHANGED <<writers, stopVars, open, netVars, announced, config>>

(* reader.read() returns what there is ... *)
Read(c) ==
  /\ Flushed(c) /\ then[c] = "read" /\ inbox[c] > 0
  /\ inbox' = [inbox EXCEPT ![c] = 0]
  /\ OnBytes(c, kept[c] + inbox[c])

(* ... and the loop behind a refusal goes round with no bytes. *)
ResumeBytes(c) ==
  /\ Flushed(c) /\ then[c] = "resume"
  /\ OnBytes(c, kept[c])
  /\ UNCHANGED inbox

(* The client has left, or its stream was closed under the coroutine; or   *)
(* the connection broke, and read() raises whatever it still had: the      *)
(* finally clause, up to its await if it has one.                          *)
EndOfFile(c) ==
  \/ inbox[c] = 0 /\ (peer[c] = "gone" \/ sock[c] = "closed")
  \/ peer[c] = "gone" /\ sock[c] = "closed"

PopWriter(c) == RemoveFirst(writers, c)

Finally(c) ==
  /\ Flushed(c) /\ then[c] = "read" /\ EndOfFile(c)
  /\ writers' = PopWriter(c)
  /\ IF closing
     THEN /\ task' = [task EXCEPT ![c] = "ended"]
          /\ sock' = [sock EXCEPT ![c] = IF sock[c] = "open" THEN "closing" ELSE sock[c]]
          /\ UNCHANGED <<open, kept, left, then>>
     ELSE /\ open' = open \ {c}
          /\ kept' = [kept EXCEPT ![c] = 0]
          /\ PumpAsync(c, writers', "return")
          /\ UNCHANGED sock
  /\ UNCHANGED <<stopVars, inbox, out, peer, sent, announced, config, history>>

(* writer.close(), the last line of _on_client. *)
Return(c) ==
  /\ Flushed(c) /\ then[c] = "return"
  /\ task' = [task EXCEPT ![c] = "ended"]
  /\ sock' = [sock EXCEPT ![c] = IF sock[c] = "open" THEN "closing" ELSE sock[c]]
  /\ UNCHANGED <<left, then, writers, stopVars, open, kept, inbox, out, peer, sent, announced,
                 config, history>>

(* set_player and set_session_state: a reply to everyone the write ring    *)
(* has a place for, then the pump.                                         *)
Told == {told \in SUBSET open : Cardinality(told) = Least(WriteRing, Cardinality(open))}

Announce ==
  /\ task[Host] = "none" /\ announced < MaxAnnounced /\ sent + announced < MaxTraffic
  /\ announced' = announced + 1
  /\ \E told \in Told :
       out' = [c \in Conns |-> IF c \in told /\ Takes(c) THEN out[c] + 1 ELSE out[c]]
  /\ PumpAsync(Host, writers, "return")
  /\ UNCHANGED <<writers, stopVars, open, kept, inbox, netVars, config, history>>

Announced ==
  /\ Flushed(Host)
  /\ task' = [task EXCEPT ![Host] = "none"]
  /\ UNCHANGED <<left, then, writers, stopVars, open, kept, inbox, out, netVars, announced,
                 config, history>>
-----------------------------------------------------------------------------
(* stop(), from one await to the next.  Which Python runs it matters from  *)
(* here on and is chosen here.                                             *)

Stop ==
  /\ ~closing
  /\ closing' = TRUE
  /\ stopping' = "listener"
  /\ waits' \in BOOLEAN
  /\ UNCHANGED <<taskVars, writers, stop_left, late, open, kept, inbox, out, netVars, announced,
                 max_connections, history>>

(* A connection counts once its transport is made. *)
Attached(c) == sock[c] \in {"open", "closing"}

ListenerClosed == waits => \A c \in Conns : ~Attached(c)

(* Mutant: the streams are awaited and not closed. *)
CloseNone == sock

CloseWriters ==
  [c \in Conns |-> IF Contains(writers, c) /\ sock[c] = "open" THEN "closing" ELSE sock[c]]

StopWriters ==
  /\ stopping = "listener" /\ ListenerClosed
  /\ sock' = CloseWriters
  /\ stop_left' = writers
  /\ stopping' = "writers"
  /\ UNCHANGED <<taskVars, writers, closing, late, open, kept, inbox, out, peer, sent, announced,
                 config, history>>

StopAwaited ==
  /\ stopping = "writers" /\ stop_left # <<>> /\ sock[stop_left[1]] = "closed"
  /\ stop_left' = Tail(stop_left)
  /\ UNCHANGED <<taskVars, writers, closing, stopping, late, open, kept, inbox, out, netVars,
                 announced, config, history>>

StopDone ==
  /\ stopping = "writers" /\ stop_left = <<>>
  /\ writers' = <<>>
  /\ stopping' = "done"
  /\ UNCHANGED <<taskVars, closing, stop_left, late, open, kept, inbox, out, netVars, announced,
                 config, history>>
-----------------------------------------------------------------------------
(* The clients, and the streams between them and the coroutines. *)

Send(c, n) ==
  /\ sock[c] = "open" /\ peer[c] # "gone" /\ sent + n + announced <= MaxTraffic
  /\ inbox' = [inbox EXCEPT ![c] = inbox[c] + n]
  /\ sent' = sent + n
  /\ owed' = [owed EXCEPT ![c] = owed[c] + n]
  /\ UNCHANGED <<taskVars, writers, stopVars, open, kept, out, sock, peer, announced,
                 config, thrown>>

PeerIs(c, p) ==
  /\ sock[c] \in {"open", "closing"} /\ peer[c] \notin {p, "gone"}
  /\ peer' = [peer EXCEPT ![c] = p]
  /\ UNCHANGED <<taskVars, writers, stopVars, open, kept, inbox, out, sock, sent, announced,
                 config, history>>

PeerReads(c) ==
  /\ sock[c] # "closed" /\ peer[c] = "reads" /\ out[c] > 0
  /\ out' = [out EXCEPT ![c] = out[c] - 1]
  /\ UNCHANGED <<taskVars, writers, stopVars, open, kept, inbox, netVars, announced,
                 config, history>>

(* A stream that was closed is lost when it has sent what it had, or when  *)
(* the client is gone.                                                     *)
Lost(c) ==
  /\ \/ sock[c] = "closing" /\ (out[c] = 0 \/ peer[c] = "gone")
     \/ sock[c] = "open" /\ peer[c] = "gone" /\ out[c] > 0
  /\ sock' = [sock EXCEPT ![c] = "closed"]
  /\ out' = [out EXCEPT ![c] = 0]
  /\ UNCHANGED <<taskVars, writers, stopVars, open, kept, inbox, peer, sent, announced,
                 config, history>>
-----------------------------------------------------------------------------
Step(t) == Awaited(t) \/ (t \in Conns /\ (Read(t) \/ ResumeBytes(t) \/ Finally(t) \/ Return(t)))
                      \/ (t = Host /\ Announced)

StopStep == StopWriters \/ StopAwaited \/ StopDone

Next ==
  \/ \E t \in Tasks : Step(t)
  \/ \E c \in Conns : \/ Accept(c) \/ OnClient(c) \/ PeerReads(c) \/ Lost(c)
                      \/ \E n \in 1..MaxTraffic : Send(c, n)
                      \/ \E p \in {"reads", "stalled", "gone"} : PeerIs(c, p)
  \/ Announce \/ Stop \/ StopStep

(* The event loop runs whatever can run, and the system moves bytes to a   *)
(* client that reads.  Clients owe nothing.                                *)
Fairness ==
  /\ \A t \in Tasks : WF_vars(Step(t))
  /\ \A c \in Conns : WF_vars(OnClient(c)) /\ WF_vars(PeerReads(c)) /\ WF_vars(Lost(c))
  /\ WF_vars(StopStep)

Spec == Init /\ [][Next]_vars /\ Fairness
-----------------------------------------------------------------------------
(* PROPERTIES *)

(* The finally clause waits for the others' streams before it closes its   *)
(* own.                                                                    *)
Leaving(c) == task[c] = "flush" /\ then[c] = "return"

(* Until stop(), the transport's table of writers and the server's table   *)
(* of connections name the same clients, whatever the order in which       *)
(* coroutines are suspended; each of them has a coroutine and a stream;    *)
(* what the server kept is owed another call by that coroutine; and after  *)
(* stop() no stream is still open, but those of the clients accepted       *)
(* before it whose coroutine first ran when the streams had been closed,   *)
(* and of the clients that had left before it and whose coroutine awaits   *)
(* the others' streams on the way to closing its own.                      *)
TransportAgrees ==
  /\ ~closing => Range(writers) = open /\ Len(writers) = Cardinality(open)
  /\ \A c \in open : task[c] \in {"flush", "ended"} /\ (task[c] = "ended" => closing)
  /\ \A c \in Conns : kept[c] > 0 => then[c] = "resume" \/ task[c] = "ended"
  /\ stopping = "done" =>
       /\ Range(writers) \subseteq late
       /\ \A c \in Conns : sock[c] = "open" => c \in late \/ Leaving(c)

Stalled == \E c \in Conns : peer[c] = "stalled" /\ sock[c] # "closed" /\ out[c] > 0

(* Every message a client sends is answered on its stream, and stop()      *)
(* returns.  Four exceptions, each of them in the code and named here: the *)
(* messages on_bytes threw away because one read held more than the write  *)
(* ring answers and the receive buffer keeps, where asyncio_transport.py   *)
(* resumes because "the bytes are kept"; a connection that ends, or whose  *)
(* writer stop() has closed or taken out of the table; one client that     *)
(* does not take its replies and makes everyone wait, for a coroutine      *)
(* awaits every writer, not its own, and stop() every stream;              *)
(* and, since Python 3.12, stop() awaiting the listener before it has      *)
(* closed the streams of the clients that are still there.                 *)
NobodyHangs ==
  /\ \A c \in Conns :
       (c \in open /\ owed[c] > thrown[c])
         ~> (owed[c] = thrown[c] \/ c \notin open \/ ~Takes(c) \/ Stalled)
  /\ closing ~> (stopping = "done" \/ Stalled
                   \/ (waits /\ \E c \in Conns : sock[c] = "open"))
=============================================================================
