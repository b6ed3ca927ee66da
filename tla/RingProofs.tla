----------------------------- MODULE RingProofs -----------------------------
(***************************************************************************)
(* The event ring's promises and the write ring's, and the circular arrays *)
(* that implement them, for every ring size and counter width.             *)
(***************************************************************************)
EXTENDS RingArrays, PartProofs

(* The queue's entries are numbered without a gap up to its counter. *)
Chained(q) ==
  /\ \A k \in 1..(Len(q.items) - 1) : q.items[k + 1].sequence = Succ(q.items[k].sequence)
  /\ q.items # <<>> => Succ(q.items[Len(q.items)].sequence) = q.sequence

(* What ring_push_event pushes onto: everything, or all but the oldest. *)
Base(q) == IF Room(q) THEN q.items ELSE Tail(q.items)

(* The parts of the queue ring_push_event leaves. *)
LEMMA PushParts ==
  ASSUME NEW q, QueueOK(q), NEW ev \in Event, NEW r, r = ring_push_event(q, ev)
  PROVE  /\ r.items = Append(Base(q), ev)
         /\ r.sequence = q.sequence
         /\ r.drop_warned = IF Room(q) THEN q.drop_warned
                            ELSE IF q.drop_warned = "no" THEN "owed" ELSE "said"
BY DEF ring_push_event, QueueOK, Base

LEMMA BaseOK ==
  ASSUME NEW q, QueueOK(q)
  PROVE  /\ Base(q) \in Seq(Event)
         /\ Len(Base(q)) < EventRing
         /\ Room(q) => Base(q) = q.items
         /\ ~Room(q) => /\ Len(Base(q)) = Len(q.items) - 1
                        /\ \A k \in 1..Len(Base(q)) : Base(q)[k] = q.items[k + 1]
<1>1. q.items \in Seq(Event) /\ Len(q.items) \in Nat /\ Len(q.items) <= EventRing
  BY DEF QueueOK
<1>2. CASE Room(q)
  BY <1>1, <1>2 DEF Base, Room
<1>3. CASE ~Room(q)
  <2>1. Len(q.items) = EventRing /\ q.items # <<>> /\ Base(q) = Tail(q.items)
    BY <1>1, <1>3, EventAssumption DEF Room, Base
  <2> QED BY <1>1, <1>3, <2>1, EventAssumption
<1> QED BY <1>2, <1>3

LEMMA NumberedParts ==
  ASSUME NEW q, QueueOK(q)
  PROVE  /\ Numbered(q).items = q.items
         /\ Numbered(q).sequence = Succ(q.sequence)
         /\ Numbered(q).drop_warned = q.drop_warned
         /\ Room(Numbered(q)) = Room(q)
         /\ Base(Numbered(q)) = Base(q)
BY DEF Numbered, QueueOK, Room, Base

(* Pushing an entry that carries the next number keeps the chain. *)
LEMMA PushChained ==
  ASSUME NEW q, QueueOK(q), Chained(q), NEW ev \in Event, ev.sequence = q.sequence
  PROVE  Chained(ring_push_event(Numbered(q), ev))
<1> DEFINE b == Base(q)
           r == ring_push_event(Numbered(q), ev)
<1>1. r.items = Append(b, ev) /\ r.sequence = Succ(q.sequence)
  BY NumberedOK, PushParts, NumberedParts
<1>2. b \in Seq(Event) /\ q.items \in Seq(Event)
  BY BaseOK DEF QueueOK
<1>3. /\ \A k \in 1..(Len(b) - 1) : b[k + 1].sequence = Succ(b[k].sequence)
      /\ b # <<>> => Succ(b[Len(b)].sequence) = q.sequence
  <2>1. CASE Room(q)
    BY <2>1, BaseOK DEF Chained
  <2>2. CASE ~Room(q)
    <3>1. /\ Len(b) = Len(q.items) - 1
          /\ \A k \in 1..Len(b) : b[k] = q.items[k + 1]
      BY <2>2, BaseOK
    <3> HIDE DEF b
    <3>2. ASSUME NEW k \in 1..(Len(b) - 1) PROVE b[k + 1].sequence = Succ(b[k].sequence)
      <4>1. k \in 1..Len(b) /\ k + 1 \in 1..Len(b)
        BY <1>2
      <4>2. b[k] = q.items[k + 1] /\ b[k + 1] = q.items[(k + 1) + 1]
        BY <3>1, <4>1
      <4>3. k + 1 \in 1..(Len(q.items) - 1)
        BY <1>2, <3>1
      <4> QED BY <4>2, <4>3 DEF Chained
    <3>3. ASSUME b # <<>> PROVE Succ(b[Len(b)].sequence) = q.sequence
      <4>1. b[Len(b)] = q.items[Len(q.items)] /\ q.items # <<>>
        BY <1>2, <3>1, <3>3
      <4> QED BY <4>1 DEF Chained
    <3> QED BY <3>2, <3>3
  <2> QED BY <2>1, <2>2
<1> HIDE DEF b, r
<1>4. /\ Len(r.items) = Len(b) + 1 /\ r.items # <<>> /\ r.items[Len(b) + 1] = ev
      /\ \A k \in 1..Len(b) : r.items[k] = b[k]
  BY <1>1, <1>2
<1>5. ASSUME NEW k \in 1..(Len(r.items) - 1)
      PROVE  r.items[k + 1].sequence = Succ(r.items[k].sequence)
  <2>1. CASE k = Len(b)
    <3>1. b # <<>> /\ r.items[k] = b[Len(b)] /\ r.items[k + 1] = ev
      BY <1>2, <1>4, <2>1
    <3> QED BY <1>3, <3>1
  <2>2. CASE k # Len(b)
    <3>1. k \in 1..(Len(b) - 1) /\ r.items[k] = b[k] /\ r.items[k + 1] = b[k + 1]
      BY <1>2, <1>4, <2>2
    <3> QED BY <1>3, <3>1
  <2> QED BY <2>1, <2>2
<1>6. Succ(r.items[Len(r.items)].sequence) = r.sequence
  BY <1>1, <1>4
<1>7. Chained(r)
  BY <1>5, <1>6 DEF Chained
<1> QED BY <1>7 DEF r

(* An event as emit builds it. *)
Raised(q, type) ==
  [type |-> type, conn |-> 1, detail |-> "none", sequence |-> q.sequence, value |-> 0]

LEMMA RaisedOK ==
  ASSUME NEW q, QueueOK(q), NEW type \in EventTypes
  PROVE  /\ Raised(q, type) \in Event
         /\ Raised(q, type).sequence = q.sequence
         /\ Raised(q, type).detail = "none"
         /\ Raised(q, type).type = type
<1>1. "none" \in Details /\ 0 \in Counter /\ q.sequence \in Counter
  BY EventAssumption DEF Details, Counter, QueueOK
<1> QED BY <1>1 DEF Raised, Event

LEMMA DropWarningOK ==
  ASSUME NEW q, QueueOK(q)
  PROVE  /\ DropWarning(q) \in Event
         /\ DropWarning(q).sequence = q.sequence
         /\ DropWarning(q).detail = "EVENTS_DROPPED"
BY DEF DropWarning, Event, EventTypes, Details, QueueOK

(* What emit does to a queue in good order that owes no warning: one push, *)
(* or, at the first drop since the ring was last empty, a push and the     *)
(* warning.                                                                *)
LEMMA EmitCases ==
  ASSUME NEW q, QueueOK(q), q.drop_warned # "owed", Chained(q), NEW type \in EventTypes,
         NEW r, r = emit(q, type, 1, "none")
  PROVE  /\ QueueOK(r) /\ Chained(r) /\ r.items # <<>>
         /\ IF ~Room(q) /\ q.drop_warned = "no"
            THEN /\ r.drop_warned = "said"
                 /\ r.items[Len(r.items)].detail = "EVENTS_DROPPED"
                 /\ EventRing > 1 => /\ Len(r.items) > 1
                                     /\ r.items[Len(r.items) - 1] = Raised(q, type)
            ELSE /\ r.drop_warned = q.drop_warned
                 /\ r.items[Len(r.items)] = Raised(q, type)
<1> DEFINE n  == Numbered(q)
           ev == Raised(q, type)
           p  == ring_push_event(n, ev)
           p2 == [p EXCEPT !.drop_warned = "said"]
           m  == Numbered(p2)
           w  == DropWarning(p)
           r2 == ring_push_event(m, w)
<1>1. r = IF p.drop_warned = "owed" THEN r2 ELSE p
  BY DEF emit, Raised
<1>2. ev \in Event /\ ev.sequence = q.sequence
  BY RaisedOK
<1>3. /\ QueueOK(n) /\ n.items = q.items /\ n.drop_warned = q.drop_warned
      /\ Room(n) = Room(q) /\ Base(n) = Base(q)
  BY NumberedOK, NumberedParts
<1>4. Chained(p)
  BY <1>2, PushChained
<1> HIDE DEF n, ev
<1>5. /\ QueueOK(p) /\ p.items # <<>> /\ p.items = Append(Base(q), ev)
      /\ p.drop_warned = IF Room(q) THEN q.drop_warned
                         ELSE IF q.drop_warned = "no" THEN "owed" ELSE "said"
  BY <1>2, <1>3, PushOK, PushParts
<1>6. Base(q) \in Seq(Event) /\ Len(Base(q)) < EventRing
  BY BaseOK
<1>7. p.items[Len(p.items)] = ev /\ Len(p.items) = Len(Base(q)) + 1
  BY <1>2, <1>5, <1>6
<1> HIDE DEF p
<1>8. CASE ~(~Room(q) /\ q.drop_warned = "no")
  <2>1. p.drop_warned = q.drop_warned
    BY <1>5, <1>8 DEF QueueOK, Warned
  <2>2. r = p
    BY <1>1, <2>1
  <2> QED BY <1>4, <1>5, <1>7, <1>8, <2>1, <2>2 DEF ev
<1>9. CASE ~Room(q) /\ q.drop_warned = "no"
  <2>1. r = r2
    BY <1>1, <1>5, <1>9
  <2>2. /\ QueueOK(p2) /\ p2.items = p.items /\ p2.sequence = p.sequence
        /\ p2.drop_warned = "said"
    BY <1>5 DEF QueueOK, Warned
  <2>3. Chained(p2)
    BY <1>4, <2>2 DEF Chained
  <2> HIDE DEF p2
  <2>4. w \in Event /\ w.sequence = p2.sequence /\ w.detail = "EVENTS_DROPPED"
    BY <1>5, <2>2, DropWarningOK
  <2> HIDE DEF w
  <2>5. Chained(r2)
    BY <2>2, <2>3, <2>4, PushChained
  <2>6. QueueOK(m) /\ m.drop_warned = "said" /\ Base(m) = Base(p2)
    BY <2>2, NumberedOK, NumberedParts
  <2> HIDE DEF m
  <2>7. /\ QueueOK(r2) /\ r2.items # <<>> /\ r2.drop_warned = "said"
        /\ r2.items = Append(Base(p2), w)
    BY <2>4, <2>6, PushOK, PushParts
  <2> HIDE DEF r2
  <2>8. Base(p2) \in Seq(Event)
    BY <2>2, BaseOK
  <2>9. r2.items[Len(r2.items)] = w /\ Len(r2.items) = Len(Base(p2)) + 1
    BY <2>4, <2>7, <2>8
  <2>10. ASSUME EventRing > 1
         PROVE  Len(r2.items) > 1 /\ r2.items[Len(r2.items) - 1] = ev
    <3>1. p.items \in Seq(Event) /\ Len(p.items) = EventRing
      <4>1. Len(Base(q)) = EventRing - 1
        BY <1>9, BaseOK, EventAssumption DEF QueueOK, Room
      <4>2. p.items \in Seq(Event)
        BY <1>5 DEF QueueOK
      <4>3. Len(p.items) = EventRing
        BY <1>7, <4>1, EventAssumption
      <4> QED BY <4>2, <4>3
    <3>2. Base(p2) = Tail(p.items)
      BY <2>2, <3>1, EventAssumption DEF Base, Room
    <3>3. /\ Len(Base(p2)) = EventRing - 1
          /\ Base(p2)[EventRing - 1] = p.items[EventRing]
      BY <2>10, <3>1, <3>2, EventAssumption
    <3>4. r2.items[EventRing - 1] = Base(p2)[EventRing - 1]
      BY <2>4, <2>7, <2>8, <2>10, <3>3, EventAssumption
    <3> QED BY <1>7, <2>9, <2>10, <3>1, <3>3, <3>4, EventAssumption
  <2> QED BY <1>9, <2>1, <2>4, <2>5, <2>7, <2>9, <2>10 DEF ev
<1> QED BY <1>8, <1>9

(* Taking the oldest entry keeps the rest chained and owes nothing. *)
LEMMA PollParts ==
  ASSUME NEW q, QueueOK(q), q.drop_warned # "owed", Chained(q), q.items # <<>>,
         NEW r, r = poll_event(q)
  PROVE  /\ QueueOK(r) /\ Chained(r) /\ r.drop_warned # "owed"
         /\ r.drop_warned = IF r.items = <<>> THEN "no" ELSE q.drop_warned
<1>1. /\ r.items = Tail(q.items) /\ r.sequence = q.sequence
      /\ r.drop_warned = IF r.items = <<>> THEN "no" ELSE q.drop_warned
  BY DEF poll_event, QueueOK
<1>2. QueueOK(r)
  BY PollOK
<1>3. q.items \in Seq(Event) /\ Len(q.items) \in Nat /\ Len(q.items) > 0
  BY DEF QueueOK
<1>4. /\ Len(r.items) = Len(q.items) - 1
      /\ \A k \in 1..Len(r.items) : r.items[k] = q.items[k + 1]
  BY <1>1, <1>3
<1>5. ASSUME NEW k \in 1..(Len(r.items) - 1)
      PROVE  r.items[k + 1].sequence = Succ(r.items[k].sequence)
  <2>1. k \in 1..Len(r.items) /\ k + 1 \in 1..Len(r.items) /\ k + 1 \in 1..(Len(q.items) - 1)
    BY <1>3, <1>4
  <2>2. r.items[k] = q.items[k + 1] /\ r.items[k + 1] = q.items[(k + 1) + 1]
    BY <1>4, <2>1
  <2> QED BY <2>1, <2>2 DEF Chained
<1>6. ASSUME r.items # <<>> PROVE Succ(r.items[Len(r.items)].sequence) = r.sequence
  <2>1. r.items \in Seq(Event) /\ Len(r.items) > 0
    BY <1>2, <1>6 DEF QueueOK
  <2>2. r.items[Len(r.items)] = q.items[Len(q.items)]
    BY <1>3, <1>4, <2>1
  <2> QED BY <1>1, <2>2 DEF Chained
<1> QED BY <1>1, <1>2, <1>5, <1>6 DEF Chained

(* The inductive invariant: the three properties lean on each other, since *)
(* a warning is only known not to be owed because the last one was said.   *)
LogInv == TypeOK /\ Chained(queue) /\ run_warnings = IF queue.drop_warned = "no" THEN 0 ELSE 1

LEMMA LogInvHolds == Spec => []LogInv
<1>1. ASSUME Init PROVE LogInv
  <2>1. QueueOK(queue)
    BY <1>1, EmptyOK DEF Init
  <2>2. 0 \in Counter
    BY EventAssumption DEF Counter
  <2>3. Chained(queue) /\ queue.drop_warned = "no"
    BY <1>1 DEF Init, EmptyQueue, Chained
  <2> QED BY <1>1, <2>1, <2>2, <2>3 DEF Init, LogInv, TypeOK
<1>2. ASSUME LogInv, [Next]_vars PROVE LogInv'
  <2> USE <1>2 DEF LogInv, TypeOK
  <2>1. ASSUME NEW type \in Types, Emit(type) PROVE LogInv'
    <3>1. type \in EventTypes /\ queue' = emit(queue, type, 1, "none")
      BY <2>1, TypesAssumption DEF Emit
    <3>2. /\ QueueOK(queue') /\ Chained(queue') /\ queue'.items # <<>>
          /\ IF ~Room(queue) /\ queue.drop_warned = "no"
             THEN queue'.drop_warned = "said" /\ NewestIsWarning(queue'.items)
             ELSE /\ queue'.drop_warned = queue.drop_warned
                  /\ queue'.items[Len(queue'.items)] = Raised(queue, type)
      BY <3>1, EmitCases DEF NewestIsWarning
    <3>3. CASE ~Room(queue) /\ queue.drop_warned = "no"
      <4>1. run_warnings' = 1 /\ queue'.drop_warned = "said"
        BY <2>1, <3>2, <3>3 DEF Emit
      <4> QED BY <2>1, <3>2, <4>1 DEF Emit
    <3>4. CASE ~(~Room(queue) /\ queue.drop_warned = "no")
      <4>1. ~NewestIsWarning(queue'.items)
        BY <3>1, <3>2, <3>4, RaisedOK DEF NewestIsWarning
      <4>2. run_warnings' = run_warnings /\ queue'.drop_warned = queue.drop_warned
        BY <2>1, <3>2, <3>4, <4>1 DEF Emit
      <4> QED BY <2>1, <3>2, <4>2 DEF Emit
    <3> QED BY <3>3, <3>4
  <2>2. ASSUME PollEvent PROVE LogInv'
    <3>1. /\ QueueOK(queue') /\ Chained(queue') /\ queue'.drop_warned # "owed"
          /\ queue'.drop_warned = IF queue'.items = <<>> THEN "no" ELSE queue.drop_warned
      BY <2>2, PollParts DEF PollEvent
    <3>2. polled' \in Counter
      BY <2>2, SuccType DEF PollEvent
    <3>3. run_warnings' = IF queue'.drop_warned = "no" THEN 0 ELSE 1
      BY <2>2, <3>1 DEF PollEvent
    <3> QED BY <3>1, <3>2, <3>3
  <2>3. ASSUME UNCHANGED vars PROVE LogInv'
    BY <2>3 DEF vars, Chained
  <2> QED BY <2>1, <2>2, <2>3 DEF Next
<1> QED BY <1>1, <1>2, PTL DEF Spec

(* The ring never exceeds its capacity, and the entries it holds carry     *)
(* consecutive numbers ending at the last one given out: a gap the host    *)
(* sees between two polls is exactly what ring_push_event dropped.         *)
THEOREM NoGapsInside == Spec => [](TypeOK /\ Contiguous)
<1>1. LogInv => TypeOK /\ Contiguous
  BY DEF LogInv, Chained, Contiguous
<1> QED BY <1>1, LogInvHolds, PTL

(* emit tells the host of drops exactly once between two times it empties  *)
(* the ring, however many events that overflow costs.                      *)
THEOREM WarnedOncePerRun == Spec => []OneWarningPerRun
<1>1. LogInv => OneWarningPerRun
  BY DEF LogInv, TypeOK, QueueOK, OneWarningPerRun
<1> QED BY <1>1, LogInvHolds, PTL

(* An overflow, and the warning emit adds to it, never costs the host the  *)
(* event just raised, unless the ring has a single place.                  *)
THEOREM NewestKept == Spec => NewestSurvives
<1> DEFINE Kept == \A type \in Types : Emit(type) /\ EventRing > 1 =>
       \E k \in {Len(queue'.items) - 1, Len(queue'.items)} \cap (1..EventRing) :
         queue'.items[k].type = type /\ queue'.items[k].sequence = queue.sequence
<1>1. ASSUME LogInv PROVE Kept
  <2> SUFFICES ASSUME NEW type \in Types, Emit(type), EventRing > 1
               PROVE  \E k \in {Len(queue'.items) - 1, Len(queue'.items)} \cap (1..EventRing) :
                        /\ queue'.items[k].type = type
                        /\ queue'.items[k].sequence = queue.sequence
    OBVIOUS
  <2> DEFINE n == Len(queue'.items)
  <2>1. type \in EventTypes /\ queue' = emit(queue, type, 1, "none")
    BY TypesAssumption DEF Emit
  <2>2. /\ QueueOK(queue') /\ queue'.items # <<>>
        /\ \/ n > 1 /\ queue'.items[n - 1] = Raised(queue, type)
           \/ queue'.items[n] = Raised(queue, type)
    BY <1>1, <2>1, EmitCases DEF LogInv, TypeOK
  <2>3. Raised(queue, type).type = type /\ Raised(queue, type).sequence = queue.sequence
    BY <1>1, <2>1, RaisedOK DEF LogInv, TypeOK
  <2>4. n \in Nat /\ n <= EventRing /\ n > 0
    BY <2>2 DEF QueueOK
  <2> HIDE DEF n
  <2>5. CASE n > 1 /\ queue'.items[n - 1] = Raised(queue, type)
    <3>1. n - 1 \in 1..EventRing
      BY <2>4, <2>5, EventAssumption
    <3>2. n - 1 \in {Len(queue'.items) - 1, Len(queue'.items)} \cap (1..EventRing)
      BY <3>1 DEF n
    <3> QED BY <2>3, <2>5, <3>2
  <2>6. CASE queue'.items[n] = Raised(queue, type)
    <3>1. n \in 1..EventRing
      BY <2>4, EventAssumption
    <3>2. n \in {Len(queue'.items) - 1, Len(queue'.items)} \cap (1..EventRing)
      BY <3>1 DEF n
    <3> QED BY <2>3, <2>6, <3>2
  <2> QED BY <2>2, <2>5, <2>6
<1> QED BY <1>1, LogInvHolds, PTL DEF NewestSurvives
-----------------------------------------------------------------------------
(* n events polled from a queue, and what it dropped and holds, are all it *)
(* ever numbered.                                                          *)
Balanced(n, q) == (n + q.dropped + Len(q.items)) % CounterModulus = q.sequence

(* An entry pushed takes a place, or one that is counted as dropped. *)
LEMMA PushBalanced ==
  ASSUME NEW q, QueueOK(q), NEW n \in Nat, Balanced(n, q), NEW ev \in Event
  PROVE  Balanced(n, ring_push_event(Numbered(q), ev))
<1> DEFINE m == Numbered(q)
           r == ring_push_event(m, ev)
           L == Len(q.items)
           d == q.dropped
<1>1. /\ d \in Nat /\ L \in Nat /\ CounterModulus \in Nat \ {0} /\ q.items \in Seq(Event)
  BY EventAssumption DEF QueueOK, Counter
<1>2. QueueOK(m) /\ m.sequence = Succ(q.sequence) /\ m.dropped = d /\ Room(m) = Room(q)
      /\ Base(m) = Base(q)
  BY NumberedOK, NumberedParts DEF Numbered, QueueOK
<1>3. r.items = Append(Base(q), ev) /\ r.sequence = Succ(q.sequence)
  BY <1>2, PushParts
<1>4. r.dropped = IF Room(q) THEN d ELSE Succ(d)
  BY <1>2 DEF ring_push_event, QueueOK
<1>5. Base(q) \in Seq(Event) /\ Len(Base(q)) = IF Room(q) THEN L ELSE L - 1
  BY BaseOK
<1>6. Len(r.items) = Len(Base(q)) + 1
  BY <1>3, <1>5
<1>7. Succ(q.sequence) = ((n + d + L) + 1) % CounterModulus
  <2>1. n + d + L \in Nat
    BY <1>1
  <2>2. (((n + d + L) % CounterModulus) + 1) % CounterModulus = ((n + d + L) + 1) % CounterModulus
    BY <1>1, <2>1, WrapSum
  <2> QED BY <2>2 DEF Balanced, Succ
<1> HIDE DEF m, r, L, d
<1>8. CASE Room(q)
  <2>1. n + d + (L + 1) = (n + d + L) + 1
    BY <1>1
  <2>2. r.dropped = d /\ Len(r.items) = L + 1
    BY <1>4, <1>5, <1>6, <1>8
  <2>3. Balanced(n, r)
    BY <1>3, <1>7, <2>1, <2>2 DEF Balanced
  <2> QED BY <2>3 DEF r, m
<1>9. CASE ~Room(q)
  <2>1. r.dropped = Succ(d) /\ Len(r.items) = L
    BY <1>1, <1>4, <1>5, <1>6, <1>9
  <2>2. (((d + 1) % CounterModulus) + (n + L)) % CounterModulus = ((d + 1) + (n + L)) % CounterModulus
    <3>1. d + 1 \in Nat /\ n + L \in Nat
      BY <1>1
    <3> QED BY <1>1, <3>1, WrapSum
  <2>3. /\ (d + 1) % CounterModulus \in Nat
        /\ (d + 1) + (n + L) = (n + d + L) + 1
        /\ ((d + 1) % CounterModulus) + (n + L) = n + ((d + 1) % CounterModulus) + L
    <3>1. (d + 1) % CounterModulus \in 0..(CounterModulus - 1)
      BY <1>1
    <3> DEFINE z == (d + 1) % CounterModulus
    <3>2. z \in Nat
      BY <1>1, <3>1
    <3> HIDE DEF z
    <3>3. z + (n + L) = n + z + L
      BY <1>1, <3>2
    <3>4. (d + 1) + (n + L) = (n + d + L) + 1
      BY <1>1
    <3> QED BY <3>2, <3>3, <3>4 DEF z
  <2>4. Balanced(n, r)
    BY <1>3, <1>7, <2>1, <2>2, <2>3 DEF Balanced, Succ
  <2> QED BY <2>4 DEF r, m
<1> QED BY <1>8, <1>9

LEMMA EmitBalanced ==
  ASSUME NEW q, QueueOK(q), NEW n \in Nat, Balanced(n, q), NEW type \in EventTypes
  PROVE  Balanced(n, emit(q, type, 1, "none"))
<1> DEFINE ev == Raised(q, type)
           p  == ring_push_event(Numbered(q), ev)
           p2 == [p EXCEPT !.drop_warned = "said"]
           r2 == ring_push_event(Numbered(p2), DropWarning(p))
<1>1. emit(q, type, 1, "none") = IF p.drop_warned = "owed" THEN r2 ELSE p
  BY DEF emit, Raised
<1>2. ev \in Event
  BY RaisedOK
<1> HIDE DEF ev
<1>3. QueueOK(p) /\ Balanced(n, p)
  BY <1>2, NumberedOK, PushOK, PushBalanced
<1> HIDE DEF p
<1>4. QueueOK(p2) /\ Balanced(n, p2)
  BY <1>3 DEF QueueOK, Warned, Balanced
<1> HIDE DEF p2
<1>5. Balanced(n, r2)
  BY <1>3, <1>4, DropWarningOK, PushBalanced
<1> QED BY <1>1, <1>3, <1>5

(* dropped_events is exact, through every wrap of the 32-bit counters: it  *)
(* and what the host took and can still take make up all that was raised.  *)
THEOREM EventsAccounted == Spec => []Accounted
<1> DEFINE AccountInv == Balanced(polled, queue)
<1>1. ASSUME Init PROVE AccountInv
  <2>1. polled + queue.dropped + Len(queue.items) = 0 /\ queue.sequence = 0
    BY <1>1 DEF Init, EmptyQueue
  <2>2. 0 % CounterModulus = 0
    BY EventAssumption
  <2> QED BY <2>1, <2>2 DEF Balanced
<1>2. ASSUME LogInv, AccountInv, [Next]_vars PROVE AccountInv'
  <2>1. QueueOK(queue) /\ polled \in Nat /\ CounterModulus \in Nat \ {0}
    BY <1>2, EventAssumption DEF LogInv, TypeOK, Counter
  <2>2. ASSUME NEW type \in Types, Emit(type) PROVE AccountInv'
    BY <1>2, <2>1, <2>2, EmitBalanced, TypesAssumption DEF Emit
  <2>3. ASSUME PollEvent PROVE AccountInv'
    <3> DEFINE L == Len(queue.items)
               d == queue.dropped
    <3>1. queue.items \in Seq(Event) /\ queue.items # <<>> /\ d \in Nat
      BY <2>1, <2>3 DEF PollEvent, QueueOK, Counter
    <3>2. /\ queue'.items = Tail(queue.items) /\ queue'.dropped = d
          /\ queue'.sequence = queue.sequence /\ polled' = (polled + 1) % CounterModulus
      BY <2>1, <2>3 DEF PollEvent, poll_event, QueueOK, Succ
    <3>3. L \in Nat /\ L - 1 \in Nat /\ Len(queue'.items) = L - 1
      BY <3>1, <3>2
    <3> HIDE DEF L, d
    <3>4. /\ (polled + 1) % CounterModulus \in 0..(CounterModulus - 1)
          /\ (((polled + 1) % CounterModulus) + (d + (L - 1))) % CounterModulus
               = ((polled + 1) + (d + (L - 1))) % CounterModulus
      <4>1. polled + 1 \in Nat /\ d + (L - 1) \in Nat
        BY <2>1, <3>1, <3>3
      <4> QED BY <2>1, <4>1, WrapSum
    <3>5. (polled + 1) + (d + (L - 1)) = polled + d + L
      BY <2>1, <3>1, <3>3
    <3>6. polled' + (d + (L - 1)) = polled' + d + (L - 1)
      <4>1. polled' \in Int
        BY <2>1, <3>2, <3>4
      <4> QED BY <3>1, <3>3, <4>1
    <3> QED BY <1>2, <3>2, <3>3, <3>4, <3>5, <3>6 DEF Balanced, L, d
  <2>4. ASSUME UNCHANGED vars PROVE AccountInv'
    BY <1>2, <2>4 DEF vars, Balanced
  <2> QED BY <1>2, <2>2, <2>3, <2>4 DEF Next
<1>3. AccountInv => Accounted
  BY DEF Balanced, Accounted
<1> QED BY <1>1, <1>2, <1>3, LogInvHolds, PTL DEF Spec
-----------------------------------------------------------------------------
(***************************************************************************)
(* The circular array of the event ring.  A ring in good order has its     *)
(* head in the array and no more entries than places; View(r) is the queue *)
(* it stands for.                                                          *)
(***************************************************************************)
Cells == Event \cup {ZeroEvent}

RingOK(r) ==
  r \in [events : [0..(EventRing - 1) -> Cells], ev_head : 0..(EventRing - 1),
         ev_count : 0..EventRing, event_sequence : Counter, dropped_events : Counter,
         drop_warned : Warned]

ItemAt(r, k) == r.events[(r.ev_head + k - 1) % EventRing]

View(r) ==
  [items |-> [k \in 1..r.ev_count |-> ItemAt(r, k)],
   sequence |-> r.event_sequence, dropped |-> r.dropped_events, drop_warned |-> r.drop_warned]

(* The place of entry k. *)
LEMMA PlaceOf ==
  ASSUME NEW h \in 0..(EventRing - 1), NEW k \in 1..(EventRing + 1)
  PROVE  /\ (h + k - 1) % EventRing = IF h + k - 1 < EventRing THEN h + k - 1
                                      ELSE h + k - 1 - EventRing
         /\ (h + k - 1) % EventRing \in 0..(EventRing - 1)
<1>1. k - 1 \in 0..EventRing /\ h + (k - 1) = h + k - 1
  BY EventAssumption
<1>2. (h + (k - 1)) % EventRing = IF h + (k - 1) < EventRing THEN h + (k - 1)
                                  ELSE h + (k - 1) - EventRing
  BY <1>1, EventAssumption, WrapOnce
<1> QED BY <1>1, <1>2, EventAssumption

LEMMA ItemsOK ==
  ASSUME NEW r, RingOK(r)
  PROVE  /\ View(r).items \in Seq(Cells) /\ Len(View(r).items) = r.ev_count
         /\ \A k \in 1..r.ev_count : View(r).items[k] = ItemAt(r, k) /\ ItemAt(r, k) \in Cells
<1>1. ASSUME NEW k \in 1..r.ev_count PROVE ItemAt(r, k) \in Cells
  <2>1. k \in 1..(EventRing + 1)
    BY EventAssumption DEF RingOK
  <2> QED BY <2>1, PlaceOf DEF ItemAt, RingOK
<1> DEFINE s == [k \in 1..r.ev_count |-> ItemAt(r, k)]
<1>2. s \in [1..r.ev_count -> Cells] /\ r.ev_count \in Nat /\ View(r).items = s
  BY <1>1, EventAssumption DEF RingOK, View
<1> HIDE DEF s
<1>3. s \in Seq(Cells) /\ Len(s) = r.ev_count
  BY <1>2, FunIsSeq
<1> QED BY <1>1, <1>2, <1>3 DEF s

(* The head moved on by one: the queue lost its oldest entry. *)
LEMMA AdvanceView ==
  ASSUME NEW r, RingOK(r), r.ev_count > 0, NEW p, RingOK(p), p.events = r.events,
         p.ev_head = (r.ev_head + 1) % EventRing, p.ev_count = r.ev_count - 1
  PROVE  View(p).items = Tail(View(r).items)
<1> DEFINE h == r.ev_head
           i == p.ev_head
           c == r.ev_count
           s == View(r).items
           t == Tail(s)
           u == View(p).items
<1>1. /\ h \in 0..(EventRing - 1) /\ i \in 0..(EventRing - 1) /\ EventRing \in Nat \ {0}
      /\ c \in 1..EventRing
  BY EventAssumption DEF RingOK
<1>2. i = IF h + 1 < EventRing THEN h + 1 ELSE h + 1 - EventRing
  <2>1. 1 \in 0..EventRing
    BY <1>1
  <2> QED BY <1>1, <2>1, WrapOnce
<1>3. s \in Seq(Cells) /\ Len(s) = c /\ \A k \in 1..c : s[k] = ItemAt(r, k)
  BY ItemsOK
<1>4. u \in Seq(Cells) /\ Len(u) = c - 1 /\ \A k \in 1..(c - 1) : u[k] = ItemAt(p, k)
  BY ItemsOK
<1>5. t \in Seq(Cells) /\ Len(t) = c - 1 /\ \A k \in 1..(c - 1) : t[k] = s[k + 1]
  <2>1. s # <<>>
    BY <1>1, <1>3
  <2> HIDE DEF s, c
  <2> QED BY <1>1, <1>3, <2>1
<1>6. ASSUME NEW k \in 1..(c - 1) PROVE u[k] = t[k]
  <2>1. k \in 1..(EventRing + 1) /\ k + 1 \in 1..(EventRing + 1) /\ k + 1 \in 1..c
    BY <1>1
  <2>2. (i + k - 1) % EventRing =
          IF i + k - 1 < EventRing THEN i + k - 1 ELSE i + k - 1 - EventRing
    BY <1>1, <2>1, PlaceOf
  <2>3. (h + (k + 1) - 1) % EventRing =
          IF h + (k + 1) - 1 < EventRing THEN h + (k + 1) - 1 ELSE h + (k + 1) - 1 - EventRing
    BY <1>1, <2>1, PlaceOf
  <2>4. (i + k - 1) % EventRing = (h + (k + 1) - 1) % EventRing
    <3> HIDE DEF h, i, c
    <3>1. i \in Int /\ h \in Int /\ k \in Int /\ EventRing \in Int /\ 1 <= k /\ k < EventRing
          /\ 0 <= h /\ h < EventRing
      BY <1>1
    <3>2. (IF i + k - 1 < EventRing THEN i + k - 1 ELSE i + k - 1 - EventRing) =
          (IF h + (k + 1) - 1 < EventRing THEN h + (k + 1) - 1 ELSE h + (k + 1) - 1 - EventRing)
      BY <1>2, <3>1
    <3> QED BY <2>2, <2>3, <3>2
  <2>5. ItemAt(p, k) = ItemAt(r, k + 1)
    BY <2>4 DEF ItemAt
  <2> QED BY <1>3, <1>4, <1>5, <2>1, <2>5
<1> HIDE DEF s, t, u, c
<1>7. \A k \in 1..Len(u) : u[k] = t[k]
  BY <1>4, <1>6
<1>8. u = t
  BY <1>4, <1>5, <1>7, SeqEqual
<1> QED BY <1>8 DEF u, t, s

(* Three fields of a queue replaced. *)
QueueOf(a, n, d, w) == [items |-> a, sequence |-> n, dropped |-> d, drop_warned |-> w]

Replaced(q, t, d2, w2) == [q EXCEPT !.items = t, !.dropped = d2, !.drop_warned = w2]

LEMMA UpdateQueue ==
  ASSUME NEW a, NEW n, NEW d, NEW w, NEW t, NEW d2, NEW w2, NEW q, q = QueueOf(a, n, d, w)
  PROVE  Replaced(q, t, d2, w2) = QueueOf(t, n, d2, w2)
<1>1. [q EXCEPT !.items = t] = QueueOf(t, n, d, w)
  BY DEF QueueOf
<1>2. [QueueOf(t, n, d, w) EXCEPT !.dropped = d2] = QueueOf(t, n, d2, w)
  BY DEF QueueOf
<1>3. [QueueOf(t, n, d2, w) EXCEPT !.drop_warned = w2] = QueueOf(t, n, d2, w2)
  BY DEF QueueOf
<1>4. Replaced(q, t, d2, w2) =
      [[[q EXCEPT !.items = t] EXCEPT !.dropped = d2] EXCEPT !.drop_warned = w2]
  BY DEF Replaced
<1> QED BY <1>1, <1>2, <1>3, <1>4

(* ring_push_event's first half: the head moves past the oldest entry of a *)
(* full ring, which is then counted as dropped.                            *)
LEMMA MakeRoomView ==
  ASSUME NEW r, RingOK(r), NEW p, p = Array!MakeRoom(r)
  PROVE  /\ RingOK(p) /\ p.ev_count < EventRing
         /\ View(p) = IF Room(View(r)) THEN View(r)
                      ELSE [View(r) EXCEPT
                              !.items = Tail(View(r).items),
                              !.dropped = Succ(View(r).dropped),
                              !.drop_warned = IF View(r).drop_warned = "no" THEN "owed" ELSE "said"]
<1> DEFINE q == View(r)
<1>1. /\ q.items \in Seq(Cells) /\ Len(q.items) = r.ev_count
      /\ \A k \in 1..r.ev_count : q.items[k] = ItemAt(r, k)
  BY ItemsOK
<1>2. Room(q) <=> r.ev_count < EventRing
  BY <1>1 DEF Room
<1>3. CASE r.ev_count < EventRing
  <2>1. p = r
    BY <1>3 DEF Array!MakeRoom
  <2> QED BY <1>2, <1>3, <2>1
<1>4. CASE ~(r.ev_count < EventRing)
  <2> DEFINE head == (r.ev_head + 1) % EventRing
             dropped == Succ(r.dropped_events)
             warned == IF r.drop_warned = "no" THEN "owed" ELSE "said"
  <2>0. r.ev_count \in 0..EventRing /\ r.ev_count = EventRing
    BY <1>4, EventAssumption DEF RingOK
  <2>1. /\ p = [r EXCEPT !.ev_head = head, !.ev_count = EventRing - 1,
                         !.dropped_events = dropped, !.drop_warned = warned]
        /\ r.ev_count = EventRing
    BY <1>4, <2>0 DEF Array!MakeRoom, Array!Succ, Succ
  <2> HIDE DEF head, dropped, warned
  <2>1a. /\ p.events = r.events /\ p.ev_head = head
         /\ p.ev_count = EventRing - 1 /\ p.event_sequence = r.event_sequence
         /\ p.dropped_events = dropped /\ p.drop_warned = warned
    BY <2>1 DEF RingOK
  <2>2. r.ev_head \in 0..(EventRing - 1) /\ EventRing \in Nat \ {0} /\ r.dropped_events \in Counter
    BY EventAssumption DEF RingOK
  <2>3. /\ p.ev_head = IF r.ev_head + 1 < EventRing THEN r.ev_head + 1 ELSE r.ev_head + 1 - EventRing
        /\ p.ev_head \in 0..(EventRing - 1)
    <3>1. 1 \in 0..EventRing
      BY <2>2
    <3>2. p.ev_head = IF r.ev_head + 1 < EventRing THEN r.ev_head + 1 ELSE r.ev_head + 1 - EventRing
      BY <2>1a, <2>2, <3>1, WrapOnce DEF head
    <3> QED BY <2>2, <3>2
  <2>4. dropped \in Counter /\ warned \in Warned
    BY <2>2, SuccType DEF dropped, warned, Warned
  <2>5. RingOK(p)
    <3>1. head \in 0..(EventRing - 1) /\ EventRing - 1 \in 0..EventRing
      BY <2>1a, <2>2, <2>3
    <3> QED BY <2>1, <2>4, <3>1 DEF RingOK
  <2> DEFINE t == Tail(q.items)
             u == View(p).items
  <2>10. u = t
    BY <2>0, <2>1a, <2>2, <2>5, AdvanceView DEF head
  <2>11. View(p) = [q EXCEPT !.items = t, !.dropped = Succ(q.dropped),
                             !.drop_warned = IF q.drop_warned = "no" THEN "owed" ELSE "said"]
    <3> DEFINE old == q.items
               n == r.event_sequence
               d == r.dropped_events
               w == r.drop_warned
    <3>1. View(p) = QueueOf(u, n, dropped, warned)
      BY <2>1a DEF View, QueueOf
    <3>2. q = QueueOf(old, n, d, w) /\ q.dropped = d /\ q.drop_warned = w
      BY DEF View, QueueOf
    <3>3. Succ(q.dropped) = dropped
          /\ (IF q.drop_warned = "no" THEN "owed" ELSE "said") = warned
      BY <3>2 DEF dropped, warned
    <3> HIDE DEF t, u, q, old, n, d, w
    <3>4. Replaced(q, t, dropped, warned) = QueueOf(t, n, dropped, warned)
      BY <3>2, UpdateQueue
    <3> QED BY <2>10, <3>1, <3>3, <3>4 DEF Replaced
  <2> QED BY <1>2, <1>4, <2>1a, <2>2, <2>5, <2>11
<1> QED BY <1>3, <1>4

(* Its second half: the entry goes behind the last one. *)
LEMMA StoreView ==
  ASSUME NEW p, RingOK(p), p.ev_count < EventRing, NEW ev \in Event,
         NEW r, r = [p EXCEPT !.events[(p.ev_head + p.ev_count) % EventRing] = ev,
                              !.ev_count = p.ev_count + 1]
  PROVE  RingOK(r) /\ View(r) = [View(p) EXCEPT !.items = Append(View(p).items, ev)]
<1> DEFINE h == p.ev_head
           c == p.ev_count
           at == (h + c) % EventRing
<1>1. /\ h \in 0..(EventRing - 1) /\ c \in 0..(EventRing - 1) /\ EventRing \in Nat \ {0}
      /\ p.events \in [0..(EventRing - 1) -> Cells] /\ ev \in Cells
  BY EventAssumption DEF RingOK, Cells
<1>2. at = (IF h + c < EventRing THEN h + c ELSE h + c - EventRing) /\ at \in 0..(EventRing - 1)
  <2>1. c \in 0..EventRing
    BY <1>1
  <2>2. at = IF h + c < EventRing THEN h + c ELSE h + c - EventRing
    BY <1>1, <2>1, WrapOnce
  <2> HIDE DEF at
  <2> QED BY <1>1, <2>2
<1> HIDE DEF at
<1>3. /\ r.events = [p.events EXCEPT ![at] = ev] /\ r.ev_head = h /\ r.ev_count = c + 1
      /\ r.event_sequence = p.event_sequence /\ r.dropped_events = p.dropped_events
      /\ r.drop_warned = p.drop_warned
      /\ r = [p EXCEPT !.events = [p.events EXCEPT ![at] = ev], !.ev_count = c + 1]
  BY DEF at, RingOK
<1>4. c + 1 \in 0..EventRing /\ [p.events EXCEPT ![at] = ev] \in [0..(EventRing - 1) -> Cells]
  BY <1>1, <1>2
<1>5. RingOK(r)
  BY <1>3, <1>4 DEF RingOK
<1> DEFINE s == View(p).items
           u == View(r).items
           v == Append(s, ev)
<1>6. s \in Seq(Cells) /\ Len(s) = c /\ \A k \in 1..c : s[k] = ItemAt(p, k)
  BY ItemsOK
<1>7. u \in Seq(Cells) /\ Len(u) = c + 1 /\ \A k \in 1..(c + 1) : u[k] = ItemAt(r, k)
  <2>1. /\ View(r).items \in Seq(Cells) /\ Len(View(r).items) = r.ev_count
        /\ \A k \in 1..r.ev_count : View(r).items[k] = ItemAt(r, k)
    BY <1>5, ItemsOK
  <2> QED BY <1>3, <2>1
<1>8. v \in Seq(Cells) /\ Len(v) = c + 1 /\ v[c + 1] = ev /\ \A k \in 1..c : v[k] = s[k]
  <2> HIDE DEF s
  <2> QED BY <1>1, <1>6
<1>9. ASSUME NEW k \in 1..(c + 1) PROVE u[k] = v[k]
  <2> DEFINE j == (h + k - 1) % EventRing
  <2>1. j = (IF h + k - 1 < EventRing THEN h + k - 1 ELSE h + k - 1 - EventRing)
        /\ j \in 0..(EventRing - 1)
    <3>1. k \in 1..(EventRing + 1)
      BY <1>1
    <3> QED BY <1>1, <3>1, PlaceOf
  <2>2. u[k] = r.events[j]
    BY <1>3, <1>7 DEF ItemAt
  <2> HIDE DEF j, u, v
  <2>3. CASE k = c + 1
    <3>1. j = at
      BY <1>1, <1>2, <2>1, <2>3
    <3> QED BY <1>1, <1>2, <1>3, <1>8, <2>2, <2>3, <3>1
  <2>4. CASE k # c + 1
    <3>1. j # at /\ k \in 1..c
      <4> HIDE DEF h, c
      <4>1. k \in Int /\ h \in Int /\ c \in Int /\ EventRing \in Int /\ 1 <= k /\ k <= c + 1
            /\ 0 <= h /\ h < EventRing /\ 0 <= c /\ c < EventRing
        BY <1>1
      <4>2. k <= c
        BY <2>4, <4>1
      <4> QED BY <1>2, <2>1, <4>1, <4>2
    <3>2. u[k] = p.events[j]
      BY <1>1, <1>3, <2>1, <2>2, <3>1
    <3>3. v[k] = ItemAt(p, k)
      BY <1>6, <1>8, <3>1
    <3> QED BY <3>2, <3>3 DEF ItemAt, j
  <2> QED BY <2>3, <2>4
<1>10. u = v
  <2> HIDE DEF u, v
  <2> QED BY <1>7, <1>8, <1>9, SeqEqual
<1>11. View(r) = [View(p) EXCEPT !.items = v]
  <2>1. View(r) = [items |-> u, sequence |-> p.event_sequence, dropped |-> p.dropped_events,
                   drop_warned |-> p.drop_warned]
    BY <1>3 DEF View
  <2>2. View(p) = [items |-> s, sequence |-> p.event_sequence, dropped |-> p.dropped_events,
                   drop_warned |-> p.drop_warned]
    BY DEF View
  <2> HIDE DEF u, v, s
  <2> QED BY <1>10, <2>1, <2>2
<1> QED BY <1>5, <1>11

(* The whole of it, against the queue's. *)
LEMMA PushView ==
  ASSUME NEW r, RingOK(r), NEW ev \in Event, NEW r2, r2 = Array!ring_push_event(r, ev)
  PROVE  RingOK(r2) /\ View(r2) = ring_push_event(View(r), ev)
<1> DEFINE p == Array!MakeRoom(r)
           q == View(r)
           d == Succ(q.dropped)
           w == IF q.drop_warned = "no" THEN "owed" ELSE "said"
<1>1. /\ RingOK(p) /\ p.ev_count < EventRing
      /\ View(p) = IF Room(q) THEN q
                   ELSE [q EXCEPT !.items = Tail(q.items), !.dropped = d, !.drop_warned = w]
  BY MakeRoomView
<1>2. r2 = [p EXCEPT !.events[(p.ev_head + p.ev_count) % EventRing] = ev,
                     !.ev_count = p.ev_count + 1]
  BY DEF Array!ring_push_event
<1> HIDE DEF p
<1>3. RingOK(r2) /\ View(r2) = [View(p) EXCEPT !.items = Append(View(p).items, ev)]
  <2>1. \A a, e, b : /\ RingOK(a) /\ a.ev_count < EventRing /\ e \in Event
                     /\ b = [a EXCEPT !.events[(a.ev_head + a.ev_count) % EventRing] = e,
                                      !.ev_count = a.ev_count + 1]
                     => RingOK(b) /\ View(b) = [View(a) EXCEPT !.items = Append(View(a).items, e)]
    BY StoreView
  <2> QED BY <1>1, <1>2, <2>1, ZenonT(60)
<1>4. q = [items |-> q.items, sequence |-> q.sequence, dropped |-> q.dropped,
           drop_warned |-> q.drop_warned]
  BY DEF View
<1> HIDE DEF q, d, w
<1>5. CASE Room(q)
  BY <1>1, <1>3, <1>5 DEF ring_push_event, q
<1>6. CASE ~Room(q)
  <2>1. ring_push_event(q, ev) = [q EXCEPT !.items = Append(Tail(q.items), ev), !.dropped = d,
                                           !.drop_warned = w]
    BY <1>6 DEF ring_push_event, d, w
  <2>2. View(p) = [q EXCEPT !.items = Tail(q.items), !.dropped = d, !.drop_warned = w]
    BY <1>1, <1>6
  <2>3. View(r2) = [q EXCEPT !.items = Append(Tail(q.items), ev), !.dropped = d,
                             !.drop_warned = w]
    BY <1>3, <1>4, <2>2
  <2> QED BY <1>3, <2>1, <2>3 DEF q
<1> QED BY <1>5, <1>6

(* Its number taken: emit's first line. *)
LEMMA NumberedView ==
  ASSUME NEW r, RingOK(r),
         NEW r1, r1 = [r EXCEPT !.event_sequence = Array!Succ(r.event_sequence)]
  PROVE  RingOK(r1) /\ View(r1) = Numbered(View(r))
<1> DEFINE n == Succ(r.event_sequence)
           s == View(r).items
<1>1. r1 = [r EXCEPT !.event_sequence = n] /\ n \in Counter
  BY SuccType DEF Array!Succ, Succ, RingOK
<1> HIDE DEF n
<1>2. /\ RingOK(r1) /\ r1.events = r.events /\ r1.ev_head = r.ev_head /\ r1.ev_count = r.ev_count
      /\ r1.event_sequence = n /\ r1.dropped_events = r.dropped_events
      /\ r1.drop_warned = r.drop_warned
  BY <1>1 DEF RingOK
<1>3. View(r1).items = s
  BY <1>2 DEF View, ItemAt
<1>4. /\ View(r) = QueueOf(s, r.event_sequence, r.dropped_events, r.drop_warned)
      /\ View(r1) = QueueOf(View(r1).items, n, r.dropped_events, r.drop_warned)
      /\ View(r).sequence = r.event_sequence
  BY <1>2 DEF View, QueueOf
<1> HIDE DEF s
<1>5. Numbered(View(r)) = [View(r) EXCEPT !.sequence = n]
  BY <1>4 DEF Numbered, n
<1>6. [View(r) EXCEPT !.sequence = n] = QueueOf(s, n, r.dropped_events, r.drop_warned)
  BY <1>4 DEF QueueOf
<1> QED BY <1>2, <1>3, <1>4, <1>5, <1>6

(* The warning noted as said. *)
LEMMA SaidView ==
  ASSUME NEW r, RingOK(r), NEW r1, r1 = [r EXCEPT !.drop_warned = "said"]
  PROVE  RingOK(r1) /\ View(r1) = [View(r) EXCEPT !.drop_warned = "said"]
         /\ r1.event_sequence = r.event_sequence
<1> DEFINE s == View(r).items
<1>1. /\ RingOK(r1) /\ r1.events = r.events /\ r1.ev_head = r.ev_head /\ r1.ev_count = r.ev_count
      /\ r1.event_sequence = r.event_sequence /\ r1.dropped_events = r.dropped_events
      /\ r1.drop_warned = "said"
  BY DEF RingOK, Warned
<1>2. View(r1).items = s
  BY <1>1 DEF View, ItemAt
<1>3. /\ View(r) = QueueOf(s, r.event_sequence, r.dropped_events, r.drop_warned)
      /\ View(r1) = QueueOf(View(r1).items, r.event_sequence, r.dropped_events, "said")
  BY <1>1 DEF View, QueueOf
<1> HIDE DEF s
<1>4. [View(r) EXCEPT !.drop_warned = "said"] =
      QueueOf(s, r.event_sequence, r.dropped_events, "said")
  BY <1>3 DEF QueueOf
<1> QED BY <1>1, <1>2, <1>3, <1>4

(* emit() on the array is emit() on the queue. *)
LEMMA EmitView ==
  ASSUME NEW r, RingOK(r), NEW type \in EventTypes,
         NEW r2, r2 = Array!emit(r, [type |-> type, conn |-> 1, detail |-> "none",
                                     sequence |-> 0, value |-> 0])
  PROVE  RingOK(r2) /\ View(r2) = emit(View(r), type, 1, "none")
<1> DEFINE ev0 == [type |-> type, conn |-> 1, detail |-> "none", sequence |-> 0, value |-> 0]
           ev == Raised(View(r), type)
           r1 == [r EXCEPT !.event_sequence = Array!Succ(r.event_sequence)]
           p == Array!ring_push_event(r1, ev)
           q == ring_push_event(Numbered(View(r)), ev)
<1>1. /\ r.event_sequence \in Counter /\ View(r).sequence = r.event_sequence
      /\ View(r).dropped = r.dropped_events
  BY DEF RingOK, View
<1>2. [ev0 EXCEPT !.sequence = r.event_sequence] = ev
  BY <1>1 DEF Raised
<1>3. ev \in Event
  <2>1. "none" \in Details /\ 0 \in Counter
    BY EventAssumption DEF Details, Counter
  <2> QED BY <1>1, <2>1 DEF Raised, Event
<1>4. Array!Numbered(r, ev0) = p
  BY <1>2 DEF Array!Numbered
<1>5. RingOK(r1) /\ View(r1) = Numbered(View(r))
  BY NumberedView
<1> HIDE DEF r1, ev
<1>6. RingOK(p) /\ View(p) = q
  BY <1>3, <1>5, PushView
<1>7. /\ p.drop_warned = q.drop_warned /\ p.event_sequence = q.sequence
      /\ p.dropped_events = q.dropped /\ p.event_sequence \in Counter /\ p.dropped_events \in Counter
  <2> HIDE DEF p, q
  <2> QED BY <1>6 DEF View, RingOK
<1> DEFINE wn == [type |-> "WARNING", conn |-> 0, detail |-> "EVENTS_DROPPED", sequence |-> 0,
                  value |-> p.dropped_events]
           p1 == [p EXCEPT !.drop_warned = "said"]
           q1 == [q EXCEPT !.drop_warned = "said"]
           p2 == [p1 EXCEPT !.event_sequence = Array!Succ(p1.event_sequence)]
           w == DropWarning(q)
<1>8. r2 = IF p.drop_warned = "owed" THEN Array!Numbered(p1, wn) ELSE p
  <2> HIDE DEF p
  <2> QED BY <1>4 DEF Array!emit
<1>9. emit(View(r), type, 1, "none") =
        IF q.drop_warned = "owed" THEN ring_push_event(Numbered(q1), w) ELSE q
  BY DEF emit, ev, Raised
<1> HIDE DEF p, q
<1>10. RingOK(p1) /\ View(p1) = q1 /\ p1.event_sequence = p.event_sequence
  BY <1>6, SaidView
<1> HIDE DEF p1, q1
<1>11. RingOK(p2) /\ View(p2) = Numbered(q1)
  BY <1>10, NumberedView
<1>12. [wn EXCEPT !.sequence = p1.event_sequence] = w /\ w \in Event
  <2>1. "EVENTS_DROPPED" \in Details /\ "WARNING" \in EventTypes
    BY DEF Details, EventTypes
  <2> QED BY <1>7, <1>10, <2>1 DEF DropWarning, Event
<1>13. Array!Numbered(p1, wn) = Array!ring_push_event(p2, w)
  BY <1>12 DEF Array!Numbered
<1> HIDE DEF p2, w, wn
<1>14. CASE p.drop_warned = "owed"
  <2>1. r2 = Array!ring_push_event(p2, w)
    BY <1>8, <1>13, <1>14
  <2>2. RingOK(r2) /\ View(r2) = ring_push_event(Numbered(q1), w)
    BY <1>11, <1>12, <2>1, PushView
  <2> QED BY <1>7, <1>9, <1>14, <2>2
<1>15. CASE p.drop_warned # "owed"
  BY <1>6, <1>7, <1>8, <1>9, <1>15
<1> QED BY <1>14, <1>15

(* Taking the oldest entry of the array. *)
LEMMA PollView ==
  ASSUME NEW r, RingOK(r), r.ev_count > 0,
         NEW r2, r2 = [r EXCEPT !.ev_head = (r.ev_head + 1) % EventRing,
                                !.ev_count = r.ev_count - 1,
                                !.drop_warned = IF r.ev_count = 1 THEN "no" ELSE r.drop_warned]
  PROVE  RingOK(r2) /\ View(r2) = poll_event(View(r))
<1> DEFINE head == (r.ev_head + 1) % EventRing
           count == r.ev_count - 1
           warned == IF r.ev_count = 1 THEN "no" ELSE r.drop_warned
           s == View(r).items
           t == Tail(s)
<1>1. /\ r.ev_head \in 0..(EventRing - 1) /\ r.ev_count \in 1..EventRing
      /\ EventRing \in Nat \ {0} /\ r.drop_warned \in Warned
  BY EventAssumption DEF RingOK
<1>2. head \in 0..(EventRing - 1)
  <2>1. 1 \in 0..EventRing
    BY <1>1
  <2>2. head = IF r.ev_head + 1 < EventRing THEN r.ev_head + 1 ELSE r.ev_head + 1 - EventRing
    BY <1>1, <2>1, WrapOnce
  <2> HIDE DEF head
  <2> QED BY <1>1, <2>2
<1>3. count \in 0..EventRing /\ warned \in Warned
  BY <1>1 DEF Warned
<1> HIDE DEF head, warned
<1>4. r2 = [r EXCEPT !.ev_head = head, !.ev_count = count, !.drop_warned = warned]
  BY DEF head, warned
<1> HIDE DEF count
<1>5. /\ RingOK(r2) /\ r2.events = r.events /\ r2.ev_head = head /\ r2.ev_count = count
      /\ r2.event_sequence = r.event_sequence /\ r2.dropped_events = r.dropped_events
      /\ r2.drop_warned = warned
  BY <1>2, <1>3, <1>4 DEF RingOK
<1>6. View(r2).items = t
  BY <1>5, AdvanceView DEF head, count
<1>7. s \in Seq(Cells) /\ Len(s) = r.ev_count
  BY ItemsOK
<1>8. View(r) = QueueOf(s, r.event_sequence, r.dropped_events, r.drop_warned)
  BY DEF View, QueueOf
<1>9. View(r2) = QueueOf(View(r2).items, r.event_sequence, r.dropped_events, warned)
  BY <1>5 DEF View, QueueOf
<1>10. View(r).dropped = r.dropped_events /\ View(r).drop_warned = r.drop_warned
  BY DEF View
<1> HIDE DEF s
<1>11. s # <<>> /\ (t = <<>> <=> r.ev_count = 1)
  <2>1. s # <<>>
    BY <1>1, <1>7
  <2>2. t \in Seq(Cells) /\ Len(t) = r.ev_count - 1
    BY <1>1, <1>7, <2>1
  <2>3. t = <<>> <=> Len(t) = 0
    <3> HIDE DEF t
    <3> QED BY <2>2, EmptySeq
  <2>4. Len(t) = 0 <=> r.ev_count = 1
    <3> HIDE DEF t
    <3> QED BY <1>1, <2>2
  <2> QED BY <2>1, <2>3, <2>4
<1> HIDE DEF t
<1>12. poll_event(View(r)) = [View(r) EXCEPT !.items = t, !.drop_warned = warned]
  BY <1>10, <1>11 DEF poll_event, warned, s, t
<1>13. [View(r) EXCEPT !.items = t, !.drop_warned = warned] =
       QueueOf(t, r.event_sequence, r.dropped_events, warned)
  <2>1. [View(r) EXCEPT !.items = t] = QueueOf(t, r.event_sequence, r.dropped_events, r.drop_warned)
    BY <1>8 DEF QueueOf
  <2>2. [QueueOf(t, r.event_sequence, r.dropped_events, r.drop_warned)
           EXCEPT !.drop_warned = warned] = QueueOf(t, r.event_sequence, r.dropped_events, warned)
    BY DEF QueueOf
  <2>3. [View(r) EXCEPT !.items = t, !.drop_warned = warned] =
        [[View(r) EXCEPT !.items = t] EXCEPT !.drop_warned = warned]
    OBVIOUS
  <2> QED BY <2>1, <2>2, <2>3
<1> QED BY <1>5, <1>6, <1>9, <1>12, <1>13

(* The circular array holds exactly the log: whatever emits and polls have *)
(* happened, ev_head and ev_count of gs_server.c's ring delimit the events *)
(* the drop-oldest queue has, in its order, with its counters and warning. *)
THEOREM ArrayIsTheQueue == BothSpec => []ArrayHoldsTheLog
<1>1. ASSUME BothInit PROVE RingOK(ring) /\ View(ring) = queue
  <2>1. 0 \in Counter /\ 0 \in 0..(EventRing - 1) /\ 0 \in 0..EventRing
    BY EventAssumption DEF Counter
  <2>2. /\ ring = [events |-> [k \in 0..(EventRing - 1) |-> ZeroEvent], ev_head |-> 0,
                   ev_count |-> 0, event_sequence |-> 0, dropped_events |-> 0,
                   drop_warned |-> "no"]
        /\ queue = EmptyQueue
    BY <1>1 DEF BothInit, Init, Array!Init
  <2>3. RingOK(ring) /\ ring.ev_count = 0
    BY <2>1, <2>2 DEF RingOK, Cells, Warned
  <2>4. View(ring).items = <<>>
    BY <2>3, ItemsOK
  <2>5. View(ring) = QueueOf(View(ring).items, 0, 0, "no")
    BY <2>2 DEF View, QueueOf
  <2> QED BY <2>2, <2>3, <2>4, <2>5 DEF EmptyQueue, QueueOf
<1>2. ASSUME LogInv, RingOK(ring), View(ring) = queue, [BothNext]_<<vars, ring>>
      PROVE  RingOK(ring') /\ View(ring') = queue'
  <2>1. ASSUME NEW type \in Types, Emit(type), Array!Emit(type)
        PROVE  RingOK(ring') /\ View(ring') = queue'
    <3>1. type \in EventTypes /\ queue' = emit(queue, type, 1, "none")
      BY <2>1, TypesAssumption DEF Emit
    <3>2. ring' = Array!emit(ring, [type |-> type, conn |-> 1, detail |-> "none",
                                    sequence |-> 0, value |-> 0])
      BY <2>1 DEF Array!Emit
    <3> QED BY <1>2, <3>1, <3>2, EmitView
  <2>2. ASSUME PollEvent, Array!PollEvent PROVE RingOK(ring') /\ View(ring') = queue'
    <3>1. ring.ev_count > 0 /\ queue' = poll_event(queue)
          /\ ring' = [ring EXCEPT !.ev_head = (ring.ev_head + 1) % EventRing,
                                  !.ev_count = ring.ev_count - 1,
                                  !.drop_warned = IF ring.ev_count = 1 THEN "no"
                                                  ELSE ring.drop_warned]
      BY <2>2 DEF PollEvent, Array!PollEvent
    <3> QED BY <1>2, <3>1, PollView
  <2>3. ASSUME UNCHANGED <<vars, ring>> PROVE RingOK(ring') /\ View(ring') = queue'
    BY <1>2, <2>3 DEF vars
  <2> QED BY <1>2, <2>1, <2>2, <2>3 DEF BothNext
<1>3. BothInit => Init
  BY DEF BothInit
<1>4. [BothNext]_<<vars, ring>> => [Next]_vars
  BY DEF BothNext, Next, vars
<1>5. View(ring) = queue => ArrayHoldsTheLog
  BY DEF ArrayHoldsTheLog, View, ItemAt, Array!Contents
<1> DEFINE Held == RingOK(ring) /\ View(ring) = queue
<1>6. BothInit => Held
  BY <1>1
<1>7. LogInv /\ Held /\ [BothNext]_<<vars, ring>> => Held'
  BY <1>2
<1>8. Held => ArrayHoldsTheLog
  BY <1>5
<1> HIDE DEF Held
<1>9. BothSpec => Spec
  BY <1>3, <1>4, PTL DEF BothSpec, Spec
<1> QED BY <1>6, <1>7, <1>8, <1>9, LogInvHolds, PTL DEF BothSpec
-----------------------------------------------------------------------------
(***************************************************************************)
(* The circular array of the write ring, and the queue it implements.      *)
(* Place(h, i) is where entry i lies when the head is at h; Slice is the   *)
(* queue that head and count cut out of the array.                         *)
(***************************************************************************)
Entry == Write!Request \cup {NoRequest}

Index == 0..(WriteRing - 1)

Place(h, i) == (h + i) % WriteRing

Slice(a, h, c) == [k \in 1..c |-> a[Place(h, k - 1)]]

LEMMA PlaceIn == ASSUME NEW h \in Index, NEW i \in Nat PROVE Place(h, i) \in Index
<1>1. h + i \in Nat
  BY WriteAssumption DEF Index
<1> QED BY <1>1, WrapSum, WriteAssumption DEF Place, Index

LEMMA PlaceApart ==
  ASSUME NEW h \in Index, NEW i \in Index, NEW j \in Index, Place(h, i) = Place(h, j)
  PROVE  i = j
<1>1. i \in 0..WriteRing /\ j \in 0..WriteRing
  BY WriteAssumption DEF Index
<1>2. /\ Place(h, i) = IF h + i < WriteRing THEN h + i ELSE h + i - WriteRing
      /\ Place(h, j) = IF h + j < WriteRing THEN h + j ELSE h + j - WriteRing
  BY <1>1, WrapOnce, WriteAssumption DEF Place, Index
<1>3. (IF h + i < WriteRing THEN h + i ELSE h + i - WriteRing) =
      (IF h + j < WriteRing THEN h + j ELSE h + j - WriteRing)
  BY <1>2
<1>4. /\ h \in Int /\ i \in Int /\ j \in Int /\ WriteRing \in Int
      /\ 0 <= h /\ h < WriteRing /\ 0 <= i /\ i < WriteRing /\ 0 <= j /\ j < WriteRing
  BY WriteAssumption DEF Index
<1> QED BY <1>3, <1>4

LEMMA PlaceAfter ==
  ASSUME NEW h \in Index, NEW i \in Nat PROVE Place(Place(h, 1), i) = Place(h, i + 1)
<1>1. h + 1 \in Nat
  BY WriteAssumption DEF Index
<1>2. (((h + 1) % WriteRing) + i) % WriteRing = ((h + 1) + i) % WriteRing
  BY <1>1, WrapSum, WriteAssumption
<1>3. (h + 1) + i = h + (i + 1)
  BY WriteAssumption DEF Index
<1> QED BY <1>2, <1>3 DEF Place

LEMMA SliceOK ==
  ASSUME NEW a \in [Index -> Entry], NEW h \in Index, NEW c \in Nat
  PROVE  /\ Slice(a, h, c) \in Seq(Entry) /\ Len(Slice(a, h, c)) = c
         /\ \A k \in 1..c : Slice(a, h, c)[k] = a[Place(h, k - 1)]
<1> DEFINE s == Slice(a, h, c)
<1>1. ASSUME NEW k \in 1..c PROVE a[Place(h, k - 1)] \in Entry
  <2>1. k - 1 \in Nat
    OBVIOUS
  <2> QED BY <2>1, PlaceIn
<1>2. s \in [1..c -> Entry] /\ \A k \in 1..c : s[k] = a[Place(h, k - 1)]
  BY <1>1 DEF Slice
<1> HIDE DEF s
<1>3. s \in Seq(Entry) /\ Len(s) = c
  BY <1>2, FunIsSeq
<1> QED BY <1>2, <1>3 DEF s

(* An entry written behind the last. *)
Stored(a, h, c, x) == [a EXCEPT ![Place(h, c)] = x]

LEMMA SliceAppend ==
  ASSUME NEW a \in [Index -> Entry], NEW h \in Index, NEW c \in Index, NEW x \in Entry
  PROVE  /\ Stored(a, h, c, x) \in [Index -> Entry]
         /\ Slice(Stored(a, h, c, x), h, c + 1) = Append(Slice(a, h, c), x)
<1> DEFINE b == Stored(a, h, c, x)
           s == Slice(a, h, c)
           u == Slice(b, h, c + 1)
           v == Append(s, x)
<1>1. c \in Nat /\ c + 1 \in Nat /\ c < WriteRing /\ WriteRing \in Nat
  BY WriteAssumption DEF Index
<1>2. Place(h, c) \in Index
  BY <1>1, PlaceIn
<1>3. b \in [Index -> Entry] /\ b[Place(h, c)] = x
      /\ \A p \in Index : p # Place(h, c) => b[p] = a[p]
  BY <1>2 DEF Stored
<1> HIDE DEF b
<1>4. s \in Seq(Entry) /\ Len(s) = c /\ \A k \in 1..c : s[k] = a[Place(h, k - 1)]
  BY <1>1, SliceOK
<1>5. u \in Seq(Entry) /\ Len(u) = c + 1 /\ \A k \in 1..(c + 1) : u[k] = b[Place(h, k - 1)]
  <2> DEFINE n == c + 1
  <2>1. n \in Nat
    BY <1>1
  <2> HIDE DEF n
  <2>2. /\ Slice(b, h, n) \in Seq(Entry) /\ Len(Slice(b, h, n)) = n
        /\ \A k \in 1..n : Slice(b, h, n)[k] = b[Place(h, k - 1)]
    BY <1>3, <2>1, SliceOK
  <2> QED BY <2>2 DEF n
<1> HIDE DEF s, u
<1>6. v \in Seq(Entry) /\ Len(v) = c + 1 /\ v[c + 1] = x /\ \A k \in 1..c : v[k] = s[k]
  BY <1>1, <1>4
<1> HIDE DEF v
<1>7. ASSUME NEW k \in 1..(c + 1) PROVE u[k] = v[k]
  <2>1. CASE k = c + 1
    <3>1. k - 1 = c
      BY <1>1, <2>1
    <3> QED BY <1>3, <1>5, <1>6, <2>1, <3>1
  <2>2. CASE k # c + 1
    <3>1. k \in 1..c /\ k - 1 \in Index /\ k - 1 # c /\ k - 1 \in Nat
      BY <1>1, <2>2 DEF Index
    <3>2. Place(h, k - 1) # Place(h, c) /\ Place(h, k - 1) \in Index
      BY <3>1, PlaceApart, PlaceIn
    <3> QED BY <1>3, <1>4, <1>5, <1>6, <3>1, <3>2
  <2> QED BY <2>1, <2>2
<1>8. u = v
  BY <1>5, <1>6, <1>7, SeqEqual
<1> QED BY <1>3, <1>8 DEF b, s, u, v

(* What is outside the slice does not matter to it. *)
LEMMA SliceElsewhere ==
  ASSUME NEW a, NEW b, NEW h, NEW c, \A i \in 0..(c - 1) : a[Place(h, i)] = b[Place(h, i)],
         c \in Nat
  PROVE  Slice(a, h, c) = Slice(b, h, c)
<1>1. \A k \in 1..c : a[Place(h, k - 1)] = b[Place(h, k - 1)]
  OBVIOUS
<1> QED BY <1>1 DEF Slice

(* drop_writes_for's loop: the table it fills, and one pass of it. *)
DropTable(a0, h, m, c) ==
  LET loop[i \in 0..m] ==
        IF i = 0 THEN [a |-> a0, keep |-> 0]
        ELSE LET p   == loop[i - 1]
                 src == p.a[Place(h, i - 1)]
             IN  IF src.conn = c THEN p
                 ELSE [a |-> [p.a EXCEPT ![Place(h, p.keep)] = src], keep |-> p.keep + 1]
  IN  loop

DropStep(h, c, i, p) ==
  IF p.a[Place(h, i - 1)].conn = c THEN p
  ELSE [a |-> [p.a EXCEPT ![Place(h, p.keep)] = p.a[Place(h, i - 1)]], keep |-> p.keep + 1]

DropPass(a0, h, c, g, i) ==
  IF i = 0 THEN [a |-> a0, keep |-> 0] ELSE DropStep(h, c, i, g[i - 1])

LEMMA DropRecurrence ==
  ASSUME NEW S, NEW a0 \in [Index -> S], NEW h \in Index, NEW m \in Nat, NEW c, NEW t,
         t = DropTable(a0, h, m, c)
  PROVE  \A k \in 0..m : t[k] = DropPass(a0, h, c, t, k)
<1> DEFINE V == [a : [Index -> S], keep : Nat]
           v0 == [a |-> a0, keep |-> 0]
           F == [k \in 1..m |-> [p \in V |-> DropStep(h, c, k, p)]]
<1>1. ASSUME NEW k \in 1..m, NEW p \in V PROVE DropStep(h, c, k, p) \in V
  <2>1. k - 1 \in Nat /\ p.keep \in Nat /\ p.keep + 1 \in Nat /\ p.a \in [Index -> S]
    OBVIOUS
  <2>2. Place(h, k - 1) \in Index /\ Place(h, p.keep) \in Index
    BY <2>1, PlaceIn
  <2>3. p.a[Place(h, k - 1)] \in S
    BY <2>1, <2>2
  <2>4. [p.a EXCEPT ![Place(h, p.keep)] = p.a[Place(h, k - 1)]] \in [Index -> S]
    BY <2>1, <2>2, <2>3
  <2> QED BY <2>1, <2>4 DEF DropStep
<1>2. F \in [1..m -> [V -> V]]
  BY <1>1
<1>3. v0 \in V
  OBVIOUS
<1>4. \A k \in 1..m, p \in V : F[k][p] = DropStep(h, c, k, p)
  OBVIOUS
<1> HIDE DEF F, V
<1>5. PICK g \in [0..m -> V] : Iterates(g, v0, F, m)
  BY <1>2, <1>3, LoopExists
<1>6. ASSUME NEW k \in 0..m PROVE g[k] = DropPass(a0, h, c, g, k)
  <2>1. CASE k = 0
    BY <1>5, <2>1 DEF DropPass, Iterates
  <2>2. CASE k # 0
    <3>1. k \in 1..m /\ g[k - 1] \in V
      BY <1>5, <2>2
    <3>2. g[k] = DropStep(h, c, k, g[k - 1])
      BY <1>4, <1>5, <3>1 DEF Iterates
    <3> QED BY <2>2, <3>2 DEF DropPass
  <2> QED BY <2>1, <2>2
<1>7. g = [k \in 0..m |-> DropPass(a0, h, c, g, k)]
  BY <1>5, <1>6
<1>8. t = [k \in 0..m |-> DropPass(a0, h, c, t, k)]
  BY <1>7, Zenon DEF DropTable, DropPass, DropStep
<1> QED BY <1>8

(* After k passes the slice is what is kept of the first k entries, and    *)
(* the entries still to be read are where they were.                       *)
Compacted(a0, h, m, c, C, k, p) ==
  /\ p \in [a : [Index -> Entry], keep : 0..k]
  /\ Slice(p.a, h, p.keep) = kept_writes(Slice(a0, h, k), C)
  /\ \A j \in k..(m - 1) : p.a[Place(h, j)] = a0[Place(h, j)]

LEMMA CompactStep ==
  ASSUME NEW a0 \in [Index -> Entry], NEW h \in Index, NEW m \in 0..WriteRing, NEW c, NEW C,
         NEW k \in 1..m, NEW p, Compacted(a0, h, m, c, C, k - 1, p),
         a0[Place(h, k - 1)].conn \in C <=> a0[Place(h, k - 1)].conn # c
  PROVE  Compacted(a0, h, m, c, C, k, DropStep(h, c, k, p))
<1> DEFINE x == a0[Place(h, k - 1)]
           s == Slice(a0, h, k - 1)
<1>1. k - 1 \in Nat /\ k \in Nat /\ m \in Nat /\ k - 1 \in Index /\ k - 1 \in (k - 1)..(m - 1)
  BY WriteAssumption DEF Index
<1>2. p.a \in [Index -> Entry] /\ p.keep \in 0..(k - 1)
      /\ Slice(p.a, h, p.keep) = kept_writes(s, C)
      /\ \A j \in (k - 1)..(m - 1) : p.a[Place(h, j)] = a0[Place(h, j)]
  BY DEF Compacted
<1>3. p.a[Place(h, k - 1)] = x /\ Place(h, k - 1) \in Index /\ x \in Entry
  BY <1>1, <1>2, PlaceIn
<1>4. s \in Seq(Entry)
  BY <1>1, SliceOK
<1>5. Slice(a0, h, k) = Append(s, x)
  <2>1. Stored(a0, h, k - 1, x) = a0
    BY <1>3 DEF Stored
  <2>2. (k - 1) + 1 = k
    BY <1>1
  <2>3. Slice(Stored(a0, h, k - 1, x), h, (k - 1) + 1) = Append(s, x)
    <3> HIDE DEF x
    <3> QED BY <1>1, <1>3, SliceAppend, ZenonT(40) DEF s
  <2> QED BY <2>1, <2>2, <2>3
<1> HIDE DEF x, s
<1>6. kept_writes(Slice(a0, h, k), C) =
        IF x.conn \in C THEN Append(kept_writes(s, C), x) ELSE kept_writes(s, C)
  BY <1>3, <1>4, <1>5, KeptAppend
<1>7. CASE x.conn = c
  <2>1. DropStep(h, c, k, p) = p
    BY <1>3, <1>7 DEF DropStep
  <2>2. p \in [a : [Index -> Entry], keep : 0..k]
    BY <1>1 DEF Compacted
  <2>3. Slice(p.a, h, p.keep) = kept_writes(Slice(a0, h, k), C)
    BY <1>2, <1>6, <1>7 DEF x
  <2>4. \A j \in k..(m - 1) : p.a[Place(h, j)] = a0[Place(h, j)]
    BY <1>1, <1>2
  <2> QED BY <2>1, <2>2, <2>3, <2>4 DEF Compacted
<1>8. CASE x.conn # c
  <2> DEFINE b == Stored(p.a, h, p.keep, x)
             q == [a |-> b, keep |-> p.keep + 1]
  <2>1. DropStep(h, c, k, p) = q
    BY <1>3, <1>8 DEF DropStep, Stored
  <2>2. p.keep \in Index /\ p.keep \in Nat /\ p.keep + 1 \in 0..k
    BY <1>1, <1>2, WriteAssumption DEF Index
  <2>3. b \in [Index -> Entry] /\ Slice(b, h, p.keep + 1) = Append(Slice(p.a, h, p.keep), x)
    <3> DEFINE ar == p.a
               kp == p.keep
    <3>1. ar \in [Index -> Entry] /\ kp \in Index
      BY <1>2, <2>2
    <3> HIDE DEF ar, kp
    <3>2. /\ Stored(ar, h, kp, x) \in [Index -> Entry]
          /\ Slice(Stored(ar, h, kp, x), h, kp + 1) = Append(Slice(ar, h, kp), x)
      BY <1>3, <3>1, SliceAppend, ZenonT(40)
    <3> QED BY <3>2 DEF ar, kp
  <2>4. ASSUME NEW j \in k..(m - 1) PROVE b[Place(h, j)] = a0[Place(h, j)]
    <3>1. j \in Index /\ j \in Nat /\ j # p.keep /\ j \in (k - 1)..(m - 1)
      BY <1>1, <1>2, WriteAssumption DEF Index
    <3>2. Place(h, j) # Place(h, p.keep) /\ Place(h, j) \in Index
      BY <2>2, <3>1, PlaceApart, PlaceIn
    <3> QED BY <1>2, <3>1, <3>2 DEF Stored
  <2> HIDE DEF b
  <2>5. q.a = b /\ q.keep = p.keep + 1 /\ q \in [a : [Index -> Entry], keep : 0..k]
    BY <2>2, <2>3
  <2>6. Slice(q.a, h, q.keep) = kept_writes(Slice(a0, h, k), C)
    BY <1>2, <1>6, <1>8, <2>3, <2>5 DEF x
  <2> HIDE DEF q
  <2> QED BY <2>1, <2>4, <2>5, <2>6 DEF Compacted
<1> QED BY <1>7, <1>8

(* The whole of it: the slice is drop_writes_for of the queue. *)
LEMMA DropSlice ==
  ASSUME NEW a0 \in [Index -> Entry], NEW h \in Index, NEW m \in 0..WriteRing, NEW c,
         NEW p, p = DropTable(a0, h, m, c)[m]
  PROVE  /\ p.a \in [Index -> Entry] /\ p.keep \in 0..m
         /\ Slice(p.a, h, p.keep) = drop_writes_for(Slice(a0, h, m), c)
<1> DEFINE w == Slice(a0, h, m)
           C == Addressees(w) \ {c}
           t == DropTable(a0, h, m, c)
           Good(k) == Compacted(a0, h, m, c, C, k, t[k])
           T == {k \in Nat : k <= m => Good(k)}
<1>1. m \in Nat
  BY WriteAssumption
<1>2. w \in Seq(Entry) /\ Len(w) = m /\ \A k \in 1..m : w[k] = a0[Place(h, k - 1)]
  BY <1>1, SliceOK
<1>3. ASSUME NEW k \in 1..m
      PROVE  a0[Place(h, k - 1)].conn \in C <=> a0[Place(h, k - 1)].conn # c
  <2>1. a0[Place(h, k - 1)] = w[k] /\ k \in 1..Len(w)
    BY <1>2
  <2> HIDE DEF w
  <2> QED BY <2>1 DEF Addressees
<1>4. \A k \in 0..m : t[k] = DropPass(a0, h, c, t, k)
  BY <1>1, DropRecurrence
<1> HIDE DEF C, t
<1>5. 0 \in T
  <2> DEFINE p0 == [a |-> a0, keep |-> 0]
  <2>1. t[0] = p0
    BY <1>1, <1>4 DEF DropPass
  <2>2. p0 \in [a : [Index -> Entry], keep : 0..0] /\ p0.a = a0 /\ p0.keep = 0
    OBVIOUS
  <2> HIDE DEF p0
  <2>3. Slice(a0, h, 0) = <<>>
    <3>1. Slice(a0, h, 0) \in Seq(Entry) /\ Len(Slice(a0, h, 0)) = 0
      BY SliceOK
    <3> QED BY <3>1, EmptySeq
  <2>4. kept_writes(Slice(a0, h, 0), C) = <<>>
    BY <2>3, KeptEmpty
  <2>5. Good(0)
    BY <2>1, <2>2, <2>3, <2>4 DEF Compacted
  <2> HIDE DEF Good
  <2> QED BY <2>5
<1>6. ASSUME NEW n \in T PROVE n + 1 \in T
  <2> SUFFICES ASSUME n + 1 <= m PROVE Good(n + 1)
    OBVIOUS
  <2>1. n \in Nat /\ Good(n) /\ n + 1 \in 1..m /\ (n + 1) - 1 = n /\ n + 1 \in 0..m /\ n + 1 # 0
    BY <1>1, <1>6
  <2>2. t[n + 1] = DropStep(h, c, n + 1, t[n])
    BY <1>4, <2>1 DEF DropPass
  <2>3. a0[Place(h, (n + 1) - 1)].conn \in C <=> a0[Place(h, (n + 1) - 1)].conn # c
    BY <1>3, <2>1
  <2>4. Compacted(a0, h, m, c, C, (n + 1) - 1, t[n])
    BY <2>1
  <2>5. Compacted(a0, h, m, c, C, n + 1, DropStep(h, c, n + 1, t[n]))
    BY <2>1, <2>3, <2>4, CompactStep
  <2> QED BY <2>2, <2>5
<1> HIDE DEF T
<1>7. T = Nat
  <2>1. T \in SUBSET Nat
    BY DEF T
  <2> QED BY <1>5, <1>6, <2>1, SetInduction
<1>8. Good(m)
  BY <1>1, <1>7 DEF T
<1> QED BY <1>8 DEF Compacted, t, C, drop_writes_for

(* poll_writes' shift: the table its loop fills, and one pass of it. *)
ShiftTable(a0, h, i) ==
  LET loop[n \in 0..i] ==
        IF n = 0 THEN a0
        ELSE LET k == i - n + 1
             IN  [loop[n - 1] EXCEPT ![Place(h, k)] = loop[n - 1][Place(h, k - 1)]]
  IN  loop

ShiftStep(h, i, n, a) ==
  [a EXCEPT ![Place(h, i - n + 1)] = a[Place(h, (i - n + 1) - 1)]]

ShiftPass(a0, h, i, g, n) == IF n = 0 THEN a0 ELSE ShiftStep(h, i, n, g[n - 1])

LEMMA ShiftRecurrence ==
  ASSUME NEW S, NEW a0 \in [Index -> S], NEW h \in Index, NEW i \in Nat, NEW t,
         t = ShiftTable(a0, h, i)
  PROVE  \A n \in 0..i : t[n] = ShiftPass(a0, h, i, t, n)
<1> DEFINE V == [Index -> S]
           F == [n \in 1..i |-> [a \in V |-> ShiftStep(h, i, n, a)]]
<1>1. ASSUME NEW n \in 1..i, NEW a \in V PROVE ShiftStep(h, i, n, a) \in V
  <2>1. i - n + 1 \in Nat /\ (i - n + 1) - 1 \in Nat
    OBVIOUS
  <2>2. Place(h, i - n + 1) \in Index /\ Place(h, (i - n + 1) - 1) \in Index
    BY <2>1, PlaceIn
  <2> QED BY <2>2 DEF ShiftStep
<1>2. F \in [1..i -> [V -> V]]
  BY <1>1
<1>4. \A n \in 1..i, a \in V : F[n][a] = ShiftStep(h, i, n, a)
  OBVIOUS
<1>3. a0 \in V
  OBVIOUS
<1> HIDE DEF F, V
<1>5. PICK g \in [0..i -> V] : Iterates(g, a0, F, i)
  BY <1>2, <1>3, LoopExists
<1>6. ASSUME NEW k \in 0..i PROVE g[k] = ShiftPass(a0, h, i, g, k)
  <2>1. CASE k = 0
    BY <1>5, <2>1 DEF ShiftPass, Iterates
  <2>2. CASE k # 0
    <3>1. k \in 1..i /\ g[k - 1] \in V
      BY <1>5, <2>2
    <3>2. g[k] = ShiftStep(h, i, k, g[k - 1])
      BY <1>4, <1>5, <3>1 DEF Iterates
    <3> QED BY <2>2, <3>2 DEF ShiftPass
  <2> QED BY <2>1, <2>2
<1>7. g = [k \in 0..i |-> ShiftPass(a0, h, i, g, k)]
  BY <1>5, <1>6
<1>8. t = [k \in 0..i |-> ShiftPass(a0, h, i, t, k)]
  BY <1>7, Zenon DEF ShiftTable, ShiftPass, ShiftStep
<1> QED BY <1>8

(* After n passes the n entries before entry i have moved up by one place, *)
(* and nothing else has.                                                   *)
Shifted(a0, h, i, n, a) ==
  /\ a \in [Index -> Entry]
  /\ \A j \in Index : a[Place(h, j)] = IF j \in (i - n + 1)..i THEN a0[Place(h, j - 1)]
                                       ELSE a0[Place(h, j)]

LEMMA ShiftOne ==
  ASSUME NEW a0 \in [Index -> Entry], NEW h \in Index, NEW i \in Index, NEW n \in 1..i, NEW a,
         Shifted(a0, h, i, n - 1, a)
  PROVE  Shifted(a0, h, i, n, ShiftStep(h, i, n, a))
<1> DEFINE k == i - n + 1
           b == ShiftStep(h, i, n, a)
<1>1. /\ k \in Index /\ k \in Nat /\ k - 1 \in Nat /\ k - 1 \in Index /\ k \in 1..i
      /\ i - (n - 1) + 1 = k + 1 /\ k \in Int /\ i \in Int /\ n \in Int
  BY WriteAssumption DEF Index
<1>2. Place(h, k) \in Index /\ Place(h, k - 1) \in Index
  BY <1>1, PlaceIn
<1>3. /\ a \in [Index -> Entry]
      /\ \A j \in Index : a[Place(h, j)] = IF j \in (k + 1)..i THEN a0[Place(h, j - 1)]
                                           ELSE a0[Place(h, j)]
  BY <1>1 DEF Shifted
<1>4. b = [a EXCEPT ![Place(h, k)] = a[Place(h, k - 1)]]
  BY DEF ShiftStep
<1> HIDE DEF k, b
<1>5. b \in [Index -> Entry]
  BY <1>2, <1>3, <1>4
<1>6. ASSUME NEW j \in Index
      PROVE  b[Place(h, j)] = IF j \in k..i THEN a0[Place(h, j - 1)] ELSE a0[Place(h, j)]
  <2>1. j \in Int /\ j \in Nat
    BY WriteAssumption DEF Index
  <2>2. Place(h, j) \in Index
    BY <2>1, PlaceIn
  <2>3. CASE j = k
    <3>1. b[Place(h, j)] = a[Place(h, k - 1)]
      BY <1>2, <1>3, <1>4, <2>3
    <3>2. k - 1 \notin (k + 1)..i
      BY <1>1
    <3>3. a[Place(h, k - 1)] = a0[Place(h, k - 1)]
      BY <1>1, <1>3, <3>2
    <3>4. j \in k..i
      BY <1>1, <2>3
    <3> QED BY <2>3, <3>1, <3>3, <3>4
  <2>4. CASE j # k
    <3>1. Place(h, j) # Place(h, k)
      BY <1>1, <2>4, PlaceApart
    <3>2. b[Place(h, j)] = a[Place(h, j)]
      BY <1>2, <1>3, <1>4, <2>2, <3>1
    <3>3. j \in k..i <=> j \in (k + 1)..i
      BY <1>1, <2>1, <2>4
    <3> QED BY <1>3, <3>2, <3>3
  <2> QED BY <2>3, <2>4
<1> QED BY <1>5, <1>6 DEF Shifted, k, b

(* The whole of it: the queue without its entry i + 1. *)
LEMMA ShiftSlice ==
  ASSUME NEW a0 \in [Index -> Entry], NEW h \in Index, NEW m \in 0..WriteRing,
         NEW i \in 0..(m - 1), NEW a, a = ShiftTable(a0, h, i)[i]
  PROVE  /\ a \in [Index -> Entry]
         /\ Slice(a, Place(h, 1), m - 1) = RemoveEntry(Slice(a0, h, m), i + 1)
<1> DEFINE t == ShiftTable(a0, h, i)
           Good(n) == Shifted(a0, h, i, n, t[n])
           T == {n \in Nat : n <= i => Good(n)}
<1>1. m \in Nat /\ i \in Nat /\ i \in Index /\ m - 1 \in Nat /\ i + 1 \in 1..m
      /\ m <= WriteRing /\ WriteRing \in Nat
  BY WriteAssumption DEF Index
<1>2. \A n \in 0..i : t[n] = ShiftPass(a0, h, i, t, n)
  BY <1>1, ShiftRecurrence
<1> HIDE DEF t
<1>3. 0 \in T
  <2>1. t[0] = a0
    BY <1>1, <1>2 DEF ShiftPass
  <2>2. \A j \in Index : j \notin (i - 0 + 1)..i
    BY <1>1 DEF Index
  <2>3. Good(0)
    BY <2>1, <2>2 DEF Shifted
  <2> HIDE DEF Good
  <2> QED BY <2>3
<1>4. ASSUME NEW n \in T PROVE n + 1 \in T
  <2> SUFFICES ASSUME n + 1 <= i PROVE Good(n + 1)
    OBVIOUS
  <2>1. n \in Nat /\ Good(n) /\ n + 1 \in 1..i /\ (n + 1) - 1 = n /\ n + 1 \in 0..i /\ n + 1 # 0
    BY <1>1, <1>4
  <2>2. t[n + 1] = ShiftStep(h, i, n + 1, t[n])
    BY <1>2, <2>1 DEF ShiftPass
  <2>3. Shifted(a0, h, i, (n + 1) - 1, t[n])
    BY <2>1
  <2>4. Shifted(a0, h, i, n + 1, ShiftStep(h, i, n + 1, t[n]))
    BY <1>1, <2>1, <2>3, ShiftOne
  <2> QED BY <2>2, <2>4
<1> HIDE DEF T
<1>5. T = Nat
  <2>1. T \in SUBSET Nat
    BY DEF T
  <2> QED BY <1>3, <1>4, <2>1, SetInduction
<1>6. Good(i)
  BY <1>1, <1>5 DEF T
<1>7. /\ a \in [Index -> Entry]
      /\ \A j \in Index : a[Place(h, j)] = IF j \in 1..i THEN a0[Place(h, j - 1)]
                                           ELSE a0[Place(h, j)]
  <2>1. i - i + 1 = 1
    BY <1>1
  <2> QED BY <1>6, <2>1 DEF Shifted, t
<1> DEFINE w == Slice(a0, h, m)
           u == Slice(a, Place(h, 1), m - 1)
           r == RemoveEntry(w, i + 1)
<1>8. w \in Seq(Entry) /\ Len(w) = m /\ \A k \in 1..m : w[k] = a0[Place(h, k - 1)]
  BY <1>1, SliceOK
<1>9. /\ u \in Seq(Entry) /\ Len(u) = m - 1
      /\ \A k \in 1..(m - 1) : u[k] = a[Place(Place(h, 1), k - 1)]
  <2> DEFINE n == m - 1
             h1 == Place(h, 1)
  <2>1. h1 \in Index /\ n \in Nat
    BY <1>1, PlaceIn
  <2> HIDE DEF n, h1
  <2>2. /\ Slice(a, h1, n) \in Seq(Entry) /\ Len(Slice(a, h1, n)) = n
        /\ \A k \in 1..n : Slice(a, h1, n)[k] = a[Place(h1, k - 1)]
    BY <1>7, <2>1, SliceOK
  <2> QED BY <2>2 DEF n, h1
<1> HIDE DEF w, u
<1>10. /\ r \in Seq(Entry) /\ Len(r) = m - 1
       /\ \A k \in 1..Len(r) : r[k] = IF k < i + 1 THEN w[k] ELSE w[k + 1]
  <2>1. i + 1 \in 1..Len(w)
    BY <1>1, <1>8
  <2> QED BY <1>8, <2>1, RemoveEntryKeeps
<1> HIDE DEF r
<1>11. ASSUME NEW k \in 1..(m - 1) PROVE u[k] = r[k]
  <2>1. /\ k - 1 \in Nat /\ (k - 1) + 1 = k /\ k \in Index /\ k \in 1..m /\ k + 1 \in 1..m
        /\ (k + 1) - 1 = k
    BY <1>1 DEF Index
  <2>2. u[k] = a[Place(h, k)]
    BY <1>9, <2>1, PlaceAfter
  <2>3. k \in 1..i <=> k < i + 1
    BY <1>1
  <2>4. r[k] = IF k < i + 1 THEN w[k] ELSE w[k + 1]
    BY <1>10
  <2> QED BY <1>7, <1>8, <2>1, <2>2, <2>3, <2>4
<1>12. u = r
  BY <1>9, <1>10, <1>11, SeqEqual
<1> QED BY <1>7, <1>12 DEF u, r, w

(* The array in good order: what the step simulation needs to know. *)
ArrayOK ==
  /\ writes \in [Index -> Entry] /\ w_head \in Index /\ w_count \in 0..WriteRing

LEMMA ContentsIsSlice ==
  /\ Write!Contents = Slice(writes, w_head, w_count)
  /\ Write!Contents' = Slice(writes', w_head', w_count')
BY DEF Write!Contents, Write!At, Slice, Place

(* The queue's operators are those of WriteQueue, under another name. *)
LEMMA SameOperators ==
  ASSUME NEW w, NEW c, NEW i
  PROVE  /\ Write!Queue!drop_writes_for(w, c) = drop_writes_for(w, c)
         /\ Write!Queue!RemoveEntry(w, i) = RemoveEntry(w, i)
         /\ Write!Queue!write_ring_full(w) <=> write_ring_full(w)
BY DEF Write!Queue!drop_writes_for, drop_writes_for, Write!Queue!kept_writes, kept_writes,
       Write!Queue!Addressees, Addressees, Write!Queue!RemoveEntry, RemoveEntry,
       Write!Queue!write_ring_full, write_ring_full

(* queue_write appends. *)
LEMMA AppendStep ==
  ASSUME ArrayOK, NEW x \in Write!Request, Write!queue_write(x)
  PROVE  ArrayOK' /\ Write!Queue!Enqueue(x)
<1>1. /\ w_count < WriteRing /\ w_head' = w_head /\ w_count' = w_count + 1
      /\ writes' = Stored(writes, w_head, w_count, x)
  BY DEF Write!queue_write, Write!At, Stored, Place
<1>2. x \in Entry /\ w_count \in Index /\ w_count \in Nat /\ w_head \in Index
      /\ writes \in [Index -> Entry] /\ w_count + 1 \in 0..WriteRing
  BY <1>1, WriteAssumption DEF ArrayOK, Entry, Index
<1>3. /\ writes' \in [Index -> Entry]
      /\ Slice(writes', w_head', w_count') = Append(Slice(writes, w_head, w_count), x)
  <2>1. /\ Stored(writes, w_head, w_count, x) \in [Index -> Entry]
        /\ Slice(Stored(writes, w_head, w_count, x), w_head, w_count + 1) =
             Append(Slice(writes, w_head, w_count), x)
    BY <1>2, SliceAppend
  <2> QED BY <1>1, <2>1
<1>4. ArrayOK'
  BY <1>1, <1>2, <1>3 DEF ArrayOK
<1>5. Len(Slice(writes, w_head, w_count)) = w_count
  BY <1>2, SliceOK
<1>6. ~Write!Queue!write_ring_full(Write!Contents)
  BY <1>1, <1>2, <1>5, ContentsIsSlice, SameOperators, WriteAssumption DEF write_ring_full
<1>7. Write!Contents' = Append(Write!Contents, x)
  BY <1>3, ContentsIsSlice
<1> QED BY <1>4, <1>6, <1>7 DEF Write!Queue!Enqueue

(* drop_writes_for compacts in place. *)
LEMMA DropArrayStep ==
  ASSUME ArrayOK, NEW c \in Conns, Write!drop_writes_for(c)
  PROVE  ArrayOK' /\ Write!Queue!DropFor(c)
<1> DEFINE p == DropTable(writes, w_head, w_count, c)[w_count]
<1>1. Write!drop_loop(c) = p
  BY DEF Write!drop_loop, DropTable, Write!At, Place
<1>2. writes' = p.a /\ w_count' = p.keep /\ w_head' = w_head
  BY <1>1 DEF Write!drop_writes_for
<1>3. writes \in [Index -> Entry] /\ w_head \in Index /\ w_count \in 0..WriteRing
  BY DEF ArrayOK
<1>4. /\ p.a \in [Index -> Entry] /\ p.keep \in 0..w_count
      /\ Slice(p.a, w_head, p.keep) = drop_writes_for(Slice(writes, w_head, w_count), c)
  BY <1>3, DropSlice
<1> HIDE DEF p
<1>5. ArrayOK'
  BY <1>2, <1>3, <1>4, WriteAssumption DEF ArrayOK
<1>6. Write!Contents' = drop_writes_for(Write!Contents, c)
  BY <1>2, <1>4, ContentsIsSlice
<1> QED BY <1>5, <1>6, SameOperators DEF Write!Queue!DropFor

(* poll_writes takes the first entry whose connection is not held back,    *)
(* shifting those before it.                                               *)
LEMMA PollArrayStep ==
  ASSUME ArrayOK, NEW held \in SUBSET Conns, Write!poll_write(held)
  PROVE  ArrayOK' /\ Write!Queue!Poll(held)
<1> DEFINE w == Slice(writes, w_head, w_count)
<1>1. PICK i \in 0..(w_count - 1) :
        /\ writes[Place(w_head, i)].conn \notin held
        /\ \A j \in 0..(i - 1) : writes[Place(w_head, j)].conn \in held
        /\ writes' = Write!shift_loop(i)
        /\ w_head' = Place(w_head, 1)
        /\ w_count' = w_count - 1
  BY DEF Write!poll_write, Write!At, Place
<1> DEFINE a == ShiftTable(writes, w_head, i)[i]
<1>2. Write!shift_loop(i) = a
  BY DEF Write!shift_loop, ShiftTable, Write!At, Place
<1>3. /\ writes \in [Index -> Entry] /\ w_head \in Index /\ w_count \in 0..WriteRing
      /\ w_count \in Nat /\ i \in Nat /\ i + 1 \in 1..w_count /\ w_count - 1 \in 0..WriteRing
  BY <1>1, WriteAssumption DEF ArrayOK
<1>4. /\ a \in [Index -> Entry]
      /\ Slice(a, Place(w_head, 1), w_count - 1) = RemoveEntry(w, i + 1)
  BY <1>3, ShiftSlice
<1>5. w \in Seq(Entry) /\ Len(w) = w_count
      /\ \A k \in 1..w_count : w[k] = writes[Place(w_head, k - 1)]
  BY <1>3, SliceOK
<1> HIDE DEF w, a
<1>6. ArrayOK'
  <2>1. Place(w_head, 1) \in Index
    BY <1>3, PlaceIn
  <2> QED BY <1>1, <1>2, <1>3, <1>4, <2>1 DEF ArrayOK
<1>7. w[i + 1].conn \notin held
  <2>1. (i + 1) - 1 = i
    BY <1>3
  <2> QED BY <1>1, <1>3, <1>5, <2>1
<1>8. ASSUME NEW j \in 1..((i + 1) - 1) PROVE w[j].conn \in held
  <2>1. j \in 1..w_count /\ j - 1 \in 0..(i - 1)
    BY <1>3
  <2> QED BY <1>1, <1>5, <2>1
<1>9. Write!Contents' = RemoveEntry(w, i + 1)
  BY <1>1, <1>2, <1>4, ContentsIsSlice
<1>10. Write!Contents = w
  BY ContentsIsSlice DEF w
<1>11. /\ i + 1 \in 1..Len(Write!Contents) /\ Write!Contents[i + 1].conn \notin held
       /\ \A j \in 1..((i + 1) - 1) : Write!Contents[j].conn \in held
       /\ Write!Contents' = Write!Queue!RemoveEntry(Write!Contents, i + 1)
  BY <1>3, <1>5, <1>7, <1>8, <1>9, <1>10, SameOperators
<1> QED BY <1>6, <1>11 DEF Write!Queue!Poll

(* The circular array of gs_server.c's write ring implements the queue     *)
(* that refuses when full: queue_write, the in-place compaction of         *)
(* drop_writes_for and the shift of poll_writes do exactly what the queue  *)
(* does, wherever the head is and however the ring is wrapped, for every   *)
(* ring size.                                                              *)
THEOREM WriteArrayIsTheQueue == Write!Spec => ImplementsQueue
<1>1. ASSUME Write!Init PROVE ArrayOK /\ Write!Queue!Init
  <2>1. /\ writes = [k \in Index |-> NoRequest] /\ w_head = 0 /\ w_count = 0
    BY <1>1 DEF Write!Init, Write!Index, Index
  <2>2. ArrayOK
    BY <2>1, WriteAssumption DEF ArrayOK, Entry, Index
  <2>3. Slice(writes, w_head, w_count) = <<>>
    <3>1. writes \in [Index -> Entry] /\ w_head \in Index /\ w_count \in Nat
      BY <2>1, <2>2 DEF ArrayOK
    <3>2. Slice(writes, w_head, w_count) \in Seq(Entry) /\ Len(Slice(writes, w_head, w_count)) = 0
      BY <2>1, <3>1, SliceOK
    <3> QED BY <3>2, EmptySeq
  <2> QED BY <2>2, <2>3, ContentsIsSlice DEF Write!Queue!Init
<1>2. ASSUME ArrayOK, [Write!Next]_(Write!vars)
      PROVE  ArrayOK' /\ [Write!Queue!Next]_(Write!Contents)
  <2>1. ASSUME NEW x \in Write!Request, Write!queue_write(x)
        PROVE  ArrayOK' /\ Write!Queue!Next
    <3>1. x \in Write!Queue!Request
      BY DEF Write!Request, Write!Queue!Request
    <3> QED BY <1>2, <2>1, <3>1, AppendStep DEF Write!Queue!Next
  <2>2. ASSUME NEW c \in Conns, Write!drop_writes_for(c) PROVE ArrayOK' /\ Write!Queue!Next
    BY <1>2, <2>2, DropArrayStep DEF Write!Queue!Next
  <2>3. ASSUME NEW held \in SUBSET Conns, Write!poll_write(held)
        PROVE  ArrayOK' /\ Write!Queue!Next
    BY <1>2, <2>3, PollArrayStep DEF Write!Queue!Next
  <2>4. ASSUME UNCHANGED Write!vars PROVE ArrayOK' /\ UNCHANGED Write!Contents
    BY <1>2, <2>4 DEF Write!vars, ArrayOK, Write!Contents, Write!At
  <2> QED BY <1>2, <2>1, <2>2, <2>3, <2>4 DEF Write!Next
<1> QED BY <1>1, <1>2, PTL DEF Write!Spec, ImplementsQueue, Write!ImplementsQueue, Write!Queue!Spec
-----------------------------------------------------------------------------
(***************************************************************************)
(* The wire log.  A chunk is kept with its number, its place in its buffer *)
(* and its flags.  What a reader is told made inductive: the newest chunk  *)
(* says whether the running wire_push_bytes goes on, so the next one joins *)
(* it, and an empty ring owes the reader nothing (WireJoins, WireMarks);   *)
(* the number given out next follows the newest chunk's (WireNumbers).     *)
(***************************************************************************)
WireCount == 0..(WireModulus - 1)

WireChunk == [sequence : WireCount, off : Nat, redacted : BOOLEAN, continues : BOOLEAN,
              lost : BOOLEAN]

JobOK ==
  /\ job = [buf |-> job.buf, off |-> job.off, redact |-> job.redact, withheld |-> job.withheld,
            r |-> job.r]
  /\ job.off \in Nat /\ Len(job.buf) \in Nat /\ job.off <= Len(job.buf)
  /\ job.redact \in BOOLEAN /\ job.withheld \in BOOLEAN

WireTypes ==
  /\ wire_ring \in Nat \ {0} /\ wire \in Seq(WireChunk) /\ Len(wire) <= wire_ring
  /\ wire_sequence \in WireCount /\ dropped_wire \in WireCount /\ wire_polled \in WireCount
  /\ wire_drop_warned \in {"no", "said"} /\ gap \in BOOLEAN /\ joins \in BOOLEAN
  /\ JobOK

WireMarks ==
  /\ wire # <<>> => wire[1].lost = gap
  /\ \A k \in 2..Len(wire) : ~wire[k].lost
  /\ wire = <<>> => ~gap

WireJoins ==
  /\ \A k \in 1..(Len(wire) - 1) : wire[k].continues <=> wire[k + 1].off > 0
  /\ wire # <<>> /\ ~wire[1].lost => (joins <=> wire[1].off > 0)
  /\ wire # <<>> => (wire[Len(wire)].continues <=> (job.off > 0 /\ job.off < Len(job.buf)))
  /\ wire = <<>> => ~joins /\ job.off = 0

WireNext(n) == (n + 1) % WireModulus

WireNumbers ==
  /\ \A k \in 1..(Len(wire) - 1) : wire[k + 1].sequence = WireNext(wire[k].sequence)
  /\ wire # <<>> => WireNext(wire[Len(wire)].sequence) = wire_sequence

WireBalance == (wire_polled + dropped_wire + Len(wire)) % WireModulus = wire_sequence

WireWarned == wire_warnings = IF wire_drop_warned = "no" THEN 0 ELSE 1

WireInv == WireTypes /\ WireMarks /\ WireJoins /\ WireNumbers /\ WireBalance /\ WireWarned

LEMMA WireSucc == \A n : Wire!Succ(n) = WireNext(n)
BY DEF Wire!Succ, WireNext

LEMMA WireNextOK == ASSUME NEW n \in Nat PROVE WireNext(n) \in WireCount
BY WireAssumption, WrapSum DEF WireNext, WireCount

LEMMA ChunkFields ==
  ASSUME NEW c \in WireChunk
  PROVE  /\ c.continues \in BOOLEAN /\ c.lost \in BOOLEAN
         /\ c.off \in Nat /\ c.sequence \in WireCount
<1>1. c.continues \in BOOLEAN /\ c.lost \in BOOLEAN  BY Zenon DEF WireChunk
<1>2. c.off \in Nat /\ c.sequence \in WireCount  BY DEF WireChunk
<1> QED BY <1>1, <1>2

LEMMA WireInvGives == WireInv => GapsAreTold
<1> SUFFICES ASSUME WireInv PROVE Wire!GapsAreTold  BY DEF GapsAreTold
<1>1. Wire!ChunksReassemble
  BY DEF WireInv, WireJoins, Wire!ChunksReassemble
<1>2. /\ wire # <<>> => wire[1].lost = gap
      /\ \A k \in 2..Len(wire) : ~wire[k].lost
  BY DEF WireInv, WireMarks
<1>3. Len(wire) <= wire_ring  BY DEF WireInv, WireTypes
<1>4. \A k \in 1..(Len(wire) - 1) : wire[k + 1].sequence = Wire!Succ(wire[k].sequence)
  BY WireSucc DEF WireInv, WireNumbers
<1>5. /\ (wire_polled + dropped_wire + Len(wire)) % WireModulus = wire_sequence
      /\ wire_warnings = IF wire_drop_warned = "no" THEN 0 ELSE 1
  BY DEF WireInv, WireBalance, WireWarned
<1> QED BY <1>1, <1>2, <1>3, <1>4, <1>5 DEF Wire!GapsAreTold

LEMMA WireInitOK == Wire!Init => WireInv
<1> SUFFICES ASSUME Wire!Init PROVE WireInv  OBVIOUS
<1>1. /\ job = [buf |-> <<>>, off |-> 0, redact |-> FALSE, withheld |-> FALSE,
                r |-> Wire!NewCursor]
      /\ wire = <<>> /\ Len(wire) = 0
  BY DEF Wire!Init, Wire!NoJob
<1>2. JobOK  BY <1>1 DEF JobOK
<1>3. wire_ring \in Nat \ {0} /\ 0 \in WireCount  BY WireAssumption DEF Wire!Init, WireCount
<1>a. wire \in Seq(WireChunk) /\ Len(wire) <= wire_ring  BY <1>1, <1>3
<1>b. /\ wire_sequence \in WireCount /\ dropped_wire \in WireCount /\ wire_polled \in WireCount
      /\ wire_drop_warned \in {"no", "said"} /\ gap \in BOOLEAN /\ joins \in BOOLEAN
  BY <1>3 DEF Wire!Init
<1>4. WireTypes  BY <1>2, <1>3, <1>a, <1>b DEF WireTypes
<1>5. WireMarks /\ WireJoins /\ WireNumbers
  BY <1>1 DEF Wire!Init, WireMarks, WireJoins, WireNumbers
<1>6. 0 % WireModulus = 0  BY WireAssumption
<1>7. WireBalance  BY <1>1, <1>6 DEF Wire!Init, WireBalance
<1>8. WireWarned  BY DEF Wire!Init, WireWarned
<1> QED BY <1>4, <1>5, <1>7, <1>8 DEF WireInv

(* What wire_ring_push leaves: one chunk more behind what it kept, and     *)
(* after a drop the front of it marked.                                    *)
LEMMA MarkFrontOK ==
  ASSUME NEW rest \in Seq(WireChunk), NEW c \in WireChunk
  PROVE  LET m == Wire!MarkFront(rest, c)
             a == Append(rest, c)
         IN  /\ m \in Seq(WireChunk) /\ Len(m) = Len(rest) + 1
             /\ m[1].lost
             /\ \A k \in 1..Len(m) : /\ m[k].sequence = a[k].sequence /\ m[k].off = a[k].off
                                     /\ m[k].continues = a[k].continues
             /\ \A k \in 2..Len(m) : m[k].lost = a[k].lost
<1> DEFINE m == Wire!MarkFront(rest, c)
           a == Append(rest, c)
<1>1. CASE rest = <<>>
  <2> DEFINE d == [c EXCEPT !.lost = TRUE]
  <2>1. m = <<d>>  BY <1>1 DEF Wire!MarkFront
  <2>2. d \in WireChunk /\ d.lost /\ d.sequence = c.sequence /\ d.off = c.off
        /\ d.continues = c.continues
    BY DEF WireChunk
  <2>3. a[1] = c /\ Len(rest) = 0  BY <1>1
  <2> HIDE DEF d, m, a
  <2>4. m \in Seq(WireChunk) /\ Len(m) = 1 /\ m[1] = d  BY <2>1, <2>2
  <2>5. \A k \in 1..Len(m) : k = 1  BY <2>4
  <2>6. \A k \in 2..Len(m) : FALSE  BY <2>4
  <2> QED BY <2>2, <2>3, <2>4, <2>5, <2>6 DEF m, a
<1>2. CASE rest # <<>>
  <2> DEFINE d == [rest[1] EXCEPT !.lost = TRUE]
  <2>1. m = Append(<<d>> \o Tail(rest), c)  BY <1>2 DEF Wire!MarkFront
  <2>2. rest[1] \in WireChunk /\ Len(rest) \in Nat /\ Len(rest) >= 1  BY <1>2
  <2>3. d \in WireChunk /\ d.lost /\ d.sequence = rest[1].sequence /\ d.off = rest[1].off
        /\ d.continues = rest[1].continues
    BY <2>2 DEF WireChunk
  <2>4. a \in Seq(WireChunk) /\ Len(a) = Len(rest) + 1 /\ a[1] = rest[1]
        /\ \A k \in 2..Len(a) : a[k] = IF k <= Len(rest) THEN rest[k] ELSE c
    BY <2>2
  <2> HIDE DEF d
  <2>5. m \in Seq(WireChunk) /\ Len(m) = Len(rest) + 1 /\ m[1] = d
        /\ \A k \in 2..Len(m) : m[k] = IF k <= Len(rest) THEN rest[k] ELSE c
    BY <2>1, <2>2, <2>3
  <2> HIDE DEF m, a
  <2>6. \A k \in 2..Len(m) : m[k] = a[k]  BY <2>4, <2>5
  <2>7. \A k \in 1..Len(m) : k = 1 \/ k \in 2..Len(m)  BY <2>2, <2>5
  <2> QED BY <2>3, <2>4, <2>5, <2>6, <2>7 DEF m, a
<1> QED BY <1>1, <1>2

(* A call begins or ends: the newest chunk goes on in neither case. *)
LEMMA WireCall ==
  ASSUME WireInv, JobOK', job.off = 0 \/ job.off = Len(job.buf), job'.off = 0,
         UNCHANGED <<wire_ring, wire, wire_sequence, dropped_wire, wire_drop_warned, gap, joins,
                     wire_polled, wire_warnings>>
  PROVE  WireInv'
<1>1. WireTypes'  BY DEF WireInv, WireTypes
<1>2. WireMarks' /\ WireNumbers' /\ WireBalance' /\ WireWarned'
  BY DEF WireInv, WireMarks, WireNumbers, WireBalance, WireWarned
<1>3. ~(job.off > 0 /\ job.off < Len(job.buf)) /\ ~(job'.off > 0 /\ job'.off < Len(job'.buf))
  BY DEF WireInv, WireTypes, JobOK
<1>4. WireJoins'  BY <1>3 DEF WireInv, WireJoins
<1> QED BY <1>1, <1>2, <1>4 DEF WireInv

LEMMA WireBegins ==
  ASSUME WireInv, NEW buf \in Objects \cup Lines, NEW redact \in BOOLEAN, NEW withheld \in BOOLEAN,
         Wire!wire_push_bytes(buf, redact, withheld)
  PROVE  WireInv'
<1>1. /\ job = Wire!NoJob
      /\ job' = [buf |-> buf, off |-> 0, redact |-> redact, withheld |-> withheld,
                 r |-> Wire!NewCursor]
      /\ UNCHANGED <<wire_ring, wire, wire_sequence, dropped_wire, wire_drop_warned, gap, joins,
                     wire_polled, wire_warnings>>
  BY DEF Wire!wire_push_bytes, Wire!ringVars, Wire!histVars
<1>2. Len(buf) \in Nat  BY WireAssumption
<1>3. JobOK' /\ job'.off = 0  BY <1>1, <1>2 DEF JobOK
<1>4. job.off = 0  BY <1>1 DEF Wire!NoJob
<1> QED BY <1>1, <1>3, <1>4, WireCall

LEMMA WireEnds ==
  ASSUME WireInv, Wire!PushReturns PROVE WireInv'
<1>1. /\ job.off = Len(job.buf) /\ job' = Wire!NoJob
      /\ UNCHANGED <<wire_ring, wire, wire_sequence, dropped_wire, wire_drop_warned, gap, joins,
                     wire_polled, wire_warnings>>
  BY DEF Wire!PushReturns, Wire!ringVars, Wire!histVars
<1>2. JobOK' /\ job'.off = 0
  <2>1. job' = [buf |-> <<>>, off |-> 0, redact |-> FALSE, withheld |-> FALSE,
                r |-> Wire!NewCursor]
    BY <1>1 DEF Wire!NoJob
  <2> QED BY <2>1 DEF JobOK
<1> QED BY <1>1, <1>2, WireCall

(* One added to a sum of counts, by whichever of them. *)
LEMMA WireSums ==
  ASSUME NEW p \in Nat, NEW d \in Nat, NEW n \in Nat
  PROVE  /\ (p + d + (n + 1)) % WireModulus = WireNext((p + d + n) % WireModulus)
         /\ (p + WireNext(d) + n) % WireModulus = WireNext((p + d + n) % WireModulus)
         /\ (WireNext(p) + d + n) % WireModulus = WireNext((p + d + n) % WireModulus)
<1> DEFINE M == WireModulus
           s == p + d + n
<1>1. M \in Nat \ {0} /\ s \in Nat  BY WireAssumption
<1> HIDE DEF M, s
<1>2. ((s % M) + 1) % M = (s + 1) % M  BY <1>1, WrapSum
<1>3. p + d + (n + 1) = s + 1  BY DEF s
<1>4. (((d + 1) % M) + (p + n)) % M = ((d + 1) + (p + n)) % M /\ (d + 1) % M \in 0..(M - 1)
  <2>1. d + 1 \in Nat /\ p + n \in Nat  OBVIOUS
  <2> QED BY <1>1, <2>1, WrapSum
<1>5. (((p + 1) % M) + (d + n)) % M = ((p + 1) + (d + n)) % M /\ (p + 1) % M \in 0..(M - 1)
  <2>1. p + 1 \in Nat /\ d + n \in Nat  OBVIOUS
  <2> QED BY <1>1, <2>1, WrapSum
<1> DEFINE x == (d + 1) % M
           y == (p + 1) % M
<1>6. x \in Int /\ y \in Int  BY <1>1, <1>4, <1>5
<1>7. (x + (p + n)) % M = ((d + 1) + (p + n)) % M /\ (y + (d + n)) % M = ((p + 1) + (d + n)) % M
  BY <1>4, <1>5
<1>8. x = WireNext(d) /\ y = WireNext(p)  BY DEF WireNext, M
<1> HIDE DEF x, y
<1>9. /\ p + x + n = x + (p + n) /\ y + d + n = y + (d + n)
      /\ (d + 1) + (p + n) = s + 1 /\ (p + 1) + (d + n) = s + 1
  BY <1>6 DEF s
<1> QED BY <1>2, <1>3, <1>7, <1>8, <1>9 DEF WireNext, M, s

(* A reader takes the oldest chunk: the next one is not marked, and joins  *)
(* it if it says so.                                                       *)
LEMMA WirePolled ==
  ASSUME WireInv, Wire!PollWire PROVE WireInv'
<1>1. /\ job = Wire!NoJob /\ wire # <<>> /\ wire' = Tail(wire)
      /\ wire_drop_warned' = IF wire' = <<>> THEN "no" ELSE wire_drop_warned
      /\ wire_warnings' = IF wire' = <<>> THEN 0 ELSE wire_warnings
      /\ gap' = FALSE /\ joins' = wire[1].continues /\ wire_polled' = WireNext(wire_polled)
      /\ UNCHANGED <<wire_ring, wire_sequence, dropped_wire, job>>
  BY WireSucc DEF Wire!PollWire
<1>2. /\ wire \in Seq(WireChunk) /\ Len(wire) \in Nat /\ Len(wire) >= 1 /\ Len(wire) <= wire_ring
      /\ wire_ring \in Nat
  BY <1>1 DEF WireInv, WireTypes
<1>3. /\ wire' \in Seq(WireChunk) /\ Len(wire') = Len(wire) - 1
      /\ \A k \in 1..Len(wire') : wire'[k] = wire[k + 1]
  BY <1>1, <1>2
<1>4. wire[1].continues \in BOOLEAN
  <2>1. wire[1] \in WireChunk  BY <1>2
  <2> QED BY <2>1, ChunkFields
<1>5. wire_polled \in Nat /\ dropped_wire \in Nat
  BY WireAssumption DEF WireInv, WireTypes, WireCount
<1>6. job.off = 0  BY <1>1 DEF Wire!NoJob
<1>7. wire' = <<>> <=> Len(wire) = 1  BY <1>2, <1>3
<1>8. WireTypes'
  <2>1. JobOK'  BY <1>1 DEF WireInv, WireTypes, JobOK
  <2>2. Len(wire') <= wire_ring  BY <1>2, <1>3
  <2>3. wire_polled' \in WireCount  BY <1>1, <1>5, WireNextOK
  <2> QED BY <1>1, <1>3, <1>4, <2>1, <2>2, <2>3 DEF WireInv, WireTypes
<1>9. WireMarks'
  <2>1. ASSUME NEW k \in 1..Len(wire') PROVE ~wire'[k].lost /\ wire'[k].lost \in BOOLEAN
    <3>1. k + 1 \in 2..Len(wire) /\ k + 1 \in 1..Len(wire) /\ wire'[k] = wire[k + 1]
      BY <1>2, <1>3
    <3>2. wire[k + 1] \in WireChunk  BY <1>2, <3>1
    <3> QED BY <3>1, <3>2, ChunkFields DEF WireInv, WireMarks
  <2>2. wire' # <<>> => 1 \in 1..Len(wire')  BY <1>3
  <2>3. \A k \in 2..Len(wire') : k \in 1..Len(wire')  BY <1>2, <1>3
  <2> QED BY <1>1, <2>1, <2>2, <2>3 DEF WireMarks
<1>10. WireJoins'
  <2>1. ASSUME NEW k \in 1..(Len(wire') - 1) PROVE wire'[k].continues <=> wire'[k + 1].off > 0
    <3>1. k + 1 \in 1..(Len(wire) - 1) /\ wire'[k] = wire[k + 1] /\ wire'[k + 1] = wire[k + 1 + 1]
      BY <1>2, <1>3
    <3> QED BY <3>1 DEF WireInv, WireJoins
  <2>2. wire' # <<>> => (joins' <=> wire'[1].off > 0)
    <3> SUFFICES ASSUME wire' # <<>> PROVE joins' <=> wire'[1].off > 0  OBVIOUS
    <3>1. 1 \in 1..(Len(wire) - 1) /\ wire'[1] = wire[1 + 1]  BY <1>2, <1>3
    <3> QED BY <1>1, <3>1 DEF WireInv, WireJoins
  <2>3. ~(job.off > 0)  BY <1>6
  <2>4. ~wire[Len(wire)].continues  BY <1>1, <2>3 DEF WireInv, WireJoins
  <2>5. wire' # <<>> => wire'[Len(wire')] = wire[Len(wire)]
    <3>1. wire' # <<>> => Len(wire') \in 1..Len(wire') /\ Len(wire') + 1 = Len(wire)
      BY <1>2, <1>3
    <3> QED BY <1>3, <3>1
  <2>6. wire' = <<>> => ~joins'  BY <1>1, <1>7, <2>4
  <2> QED BY <1>1, <1>6, <2>1, <2>2, <2>3, <2>4, <2>5, <2>6 DEF WireJoins
<1>11. WireNumbers'
  <2>1. ASSUME NEW k \in 1..(Len(wire') - 1)
        PROVE  wire'[k + 1].sequence = WireNext(wire'[k].sequence)
    <3>1. k + 1 \in 1..(Len(wire) - 1) /\ wire'[k] = wire[k + 1] /\ wire'[k + 1] = wire[k + 1 + 1]
      BY <1>2, <1>3
    <3> QED BY <3>1 DEF WireInv, WireNumbers
  <2>2. wire' # <<>> => wire'[Len(wire')] = wire[Len(wire)]
    <3>1. wire' # <<>> => Len(wire') \in 1..Len(wire') /\ Len(wire') + 1 = Len(wire)
      BY <1>2, <1>3
    <3> QED BY <1>3, <3>1
  <2> QED BY <1>1, <2>1, <2>2 DEF WireInv, WireNumbers
<1>12. WireBalance'
  <2> DEFINE n == Len(wire) - 1
  <2>1. n \in Nat /\ Len(wire') = n /\ Len(wire) = n + 1  BY <1>2, <1>3
  <2> HIDE DEF n
  <2>2. (wire_polled + dropped_wire + (n + 1)) % WireModulus
          = WireNext((wire_polled + dropped_wire + n) % WireModulus)
    BY <1>5, <2>1, WireSums
  <2>3. (WireNext(wire_polled) + dropped_wire + n) % WireModulus
          = WireNext((wire_polled + dropped_wire + n) % WireModulus)
    BY <1>5, <2>1, WireSums
  <2> QED BY <1>1, <2>1, <2>2, <2>3 DEF WireInv, WireBalance
<1>13. WireWarned'  BY <1>1 DEF WireInv, WireWarned
<1> QED BY <1>8, <1>9, <1>10, <1>11, <1>12, <1>13 DEF WireInv

(* One pass of wire_push_bytes' loop.  `base` is what the ring keeps.      *)
LEMMA WirePushed ==
  ASSUME WireInv, Wire!PushChunk PROVE WireInv'
<1> DEFINE len  == Len(job.buf)
           n    == Wire!Least(len - job.off, ChunkMax)
           cut  == Wire!redactor_apply(job.buf, job.r, job.off, n)
           flag == job.withheld \/ (job.redact /\ Wire!took_out(cut))
           goes == Wire!more(job.off + n, len)
           c    == [sequence |-> wire_sequence, off |-> job.off, redacted |-> flag,
                    continues |-> goes, lost |-> FALSE]
           base == IF Wire!WireRoom THEN wire ELSE Tail(wire)
           a    == Append(base, c)
<1>1. /\ job.off < len
      /\ Wire!wire_ring_push(c)
      /\ wire_sequence' = WireNext(wire_sequence)
      /\ job' = [job EXCEPT !.off = job.off + n, !.r = IF job.redact THEN cut.r ELSE job.r]
      /\ UNCHANGED <<wire_ring, joins, wire_polled>>
  BY WireSucc DEF Wire!PushChunk, Wire!next_sequence
<1>2. /\ job.off \in Nat /\ len \in Nat /\ ChunkMax \in Nat \ {0}
      /\ job = [buf |-> job.buf, off |-> job.off, redact |-> job.redact,
                withheld |-> job.withheld, r |-> job.r]
      /\ job.redact \in BOOLEAN /\ job.withheld \in BOOLEAN
  BY WireAssumption DEF WireInv, WireTypes, JobOK
<1>3. n \in Nat \ {0} /\ job.off + n <= len /\ n <= len - job.off
  BY <1>1, <1>2 DEF Wire!Least
<1>4. flag \in BOOLEAN /\ goes \in BOOLEAN /\ (goes <=> job.off + n < len)
  BY DEF Wire!more
<1> HIDE DEF n, cut, flag, goes
<1>5. /\ job'.buf = job.buf /\ job'.off = job.off + n /\ job'.off > 0
      /\ JobOK'
  <2>1. job' = [buf |-> job.buf, off |-> job.off + n, redact |-> job.redact,
                withheld |-> job.withheld, r |-> IF job.redact THEN cut.r ELSE job.r]
    BY <1>1, <1>2
  <2> DEFINE x == job.off + n
  <2>2. x \in Nat /\ x > 0 /\ x <= Len(job.buf)  BY <1>2, <1>3
  <2>3. job' = [buf |-> job.buf, off |-> x, redact |-> job.redact,
                withheld |-> job.withheld, r |-> IF job.redact THEN cut.r ELSE job.r]
    BY <2>1
  <2> HIDE DEF x
  <2>4. JobOK'  BY <1>2, <2>2, <2>3 DEF JobOK
  <2> QED BY <2>2, <2>3, <2>4 DEF x
<1>6. /\ wire \in Seq(WireChunk) /\ Len(wire) \in Nat /\ Len(wire) <= wire_ring
      /\ wire_ring \in Nat \ {0} /\ wire_sequence \in Nat /\ dropped_wire \in Nat
      /\ wire_polled \in Nat /\ wire_sequence \in WireCount
  BY WireAssumption DEF WireInv, WireTypes, WireCount
<1>7. c \in WireChunk
  BY <1>2, <1>4, <1>6 DEF WireChunk
<1>8. /\ c.sequence = wire_sequence /\ c.off = job.off /\ c.continues = goes /\ ~c.lost
  OBVIOUS
<1> HIDE DEF c
<1>9. Wire!WireRoom <=> Len(wire) < wire_ring
  BY DEF Wire!WireRoom
<1>10. ~Wire!WireRoom => wire # <<>> /\ Len(wire) = wire_ring /\ Len(wire) >= 1
  BY <1>6, <1>9
<1>11. /\ base \in Seq(WireChunk) /\ Len(base) \in Nat /\ Len(base) + 1 <= wire_ring
       /\ Len(base) = IF Wire!WireRoom THEN Len(wire) ELSE Len(wire) - 1
       /\ \A k \in 1..Len(base) : base[k] = IF Wire!WireRoom THEN wire[k] ELSE wire[k + 1]
  <2>1. CASE Wire!WireRoom  BY <1>6, <1>9, <2>1
  <2>2. CASE ~Wire!WireRoom  BY <1>6, <1>10, <2>2
  <2> QED BY <2>1, <2>2
<1> HIDE DEF base
(* What the ring's new contents are, whichever way they came about. *)
<1>12. /\ a \in Seq(WireChunk) /\ Len(a) = Len(base) + 1 /\ a[Len(a)] = c
       /\ \A k \in 1..Len(base) : a[k] = base[k]
  BY <1>7, <1>11
<1>13. /\ wire' \in Seq(WireChunk) /\ Len(wire') = Len(base) + 1
       /\ \A k \in 1..Len(wire') : /\ wire'[k].sequence = a[k].sequence /\ wire'[k].off = a[k].off
                                   /\ wire'[k].continues = a[k].continues
       /\ \A k \in 2..Len(wire') : wire'[k].lost = a[k].lost
       /\ IF Wire!WireRoom THEN wire' = a ELSE wire'[1].lost
  <2>1. CASE Wire!WireRoom
    <3>1. wire' = a  BY <1>1, <2>1 DEF Wire!wire_ring_push, base
    <3> QED BY <1>12, <2>1, <3>1
  <2>2. CASE ~Wire!WireRoom
    <3>1. wire' = Wire!MarkFront(base, c)  BY <1>1, <2>2 DEF Wire!wire_ring_push, base
    <3> QED BY <1>7, <1>11, <2>2, <3>1, MarkFrontOK
  <2> QED BY <2>1, <2>2
<1> HIDE DEF a
<1>14. /\ IF Wire!WireRoom
          THEN UNCHANGED <<dropped_wire, wire_drop_warned, gap, wire_warnings>>
          ELSE /\ dropped_wire' = WireNext(dropped_wire) /\ wire_drop_warned' = "said" /\ gap' = TRUE
               /\ wire_warnings' = IF wire_drop_warned = "no" THEN wire_warnings + 1 ELSE wire_warnings
  BY <1>1, WireSucc DEF Wire!wire_ring_push, Wire!owes_warning
<1>15. Len(wire') \in Nat /\ Len(wire') >= 1 /\ Len(wire') <= wire_ring /\ wire' # <<>>
  BY <1>11, <1>13
(* The newest chunk before this one. *)
<1>16. Len(base) >= 1 => base[Len(base)] = wire[Len(wire)] /\ wire # <<>>
  <2>1. CASE Wire!WireRoom  BY <1>6, <1>11, <2>1
  <2>2. CASE ~Wire!WireRoom
    <3>1. Len(base) >= 1 => Len(base) \in 1..Len(base) /\ Len(base) + 1 = Len(wire)
      BY <1>6, <1>11, <2>2
    <3> QED BY <1>10, <1>11, <2>2, <3>1
  <2> QED BY <2>1, <2>2
<1>17. WireTypes'
  <2>1. wire_sequence' \in WireCount /\ WireNext(dropped_wire) \in WireCount
    BY <1>1, <1>6, WireNextOK
  <2>2. dropped_wire' \in WireCount /\ wire_drop_warned' \in {"no", "said"} /\ gap' \in BOOLEAN
    BY <1>14, <2>1 DEF WireInv, WireTypes
  <2> QED BY <1>1, <1>5, <1>13, <1>15, <2>1, <2>2 DEF WireInv, WireTypes
<1>18. WireMarks'
  <2>1. ASSUME NEW k \in 2..Len(wire') PROVE ~wire'[k].lost
    <3>1. wire'[k].lost = a[k].lost  BY <1>13
    <3>2. CASE k = Len(wire')
      <4>1. a[k] = c  BY <1>12, <1>13, <3>2
      <4> QED BY <1>8, <3>1, <4>1
    <3>3. CASE k # Len(wire')
      <4>1. k \in 1..Len(base) /\ a[k] = base[k]  BY <1>11, <1>12, <1>13, <3>3
      <4>2. base[k] = IF Wire!WireRoom THEN wire[k] ELSE wire[k + 1]  BY <1>11, <4>1
      <4>3. IF Wire!WireRoom THEN k \in 2..Len(wire) ELSE k + 1 \in 2..Len(wire)
        BY <1>6, <1>11, <4>1
      <4> QED BY <3>1, <4>1, <4>2, <4>3 DEF WireInv, WireMarks
    <3> QED BY <3>2, <3>3
  <2>2. wire'[1].lost = gap'
    <3>1. CASE ~Wire!WireRoom
      <4>1. wire'[1] \in WireChunk  BY <1>13, <1>15
      <4> QED BY <1>13, <1>14, <3>1, <4>1, ChunkFields
    <3>2. CASE Wire!WireRoom /\ wire = <<>>
      <4>1. Len(base) = 0  BY <1>11, <3>2
      <4>2. wire'[1] = c  BY <1>12, <1>13, <3>2, <4>1
      <4>3. ~gap /\ gap' = gap /\ gap \in BOOLEAN  BY <1>14, <3>2 DEF WireInv, WireMarks, WireTypes
      <4>4. c.lost \in BOOLEAN  BY <1>7, ChunkFields
      <4> QED BY <1>8, <4>2, <4>3, <4>4
    <3>3. CASE Wire!WireRoom /\ wire # <<>>
      <4>1. 1 \in 1..Len(base)  BY <1>6, <1>11, <3>3
      <4>2. wire'[1] = wire[1]  BY <1>11, <1>12, <1>13, <3>3, <4>1
      <4>3. gap' = gap  BY <1>14, <3>3
      <4> QED BY <3>3, <4>2, <4>3 DEF WireInv, WireMarks
    <3> QED BY <3>1, <3>2, <3>3
  <2> QED BY <1>15, <2>1, <2>2 DEF WireMarks
<1>19. \A k \in 1..(Len(wire') - 1) :
         /\ k \in 1..Len(base) /\ a[k] = base[k]
         /\ k = Len(base) => a[k + 1] = c
         /\ k # Len(base) => k + 1 \in 1..Len(base) /\ a[k + 1] = base[k + 1]
                             /\ \E j \in 1..(Len(wire) - 1) : base[k] = wire[j] /\ base[k + 1] = wire[j + 1]
  <2> SUFFICES ASSUME NEW k \in 1..(Len(wire') - 1)
               PROVE  /\ k \in 1..Len(base) /\ a[k] = base[k]
                      /\ k = Len(base) => a[k + 1] = c
                      /\ k # Len(base) => k + 1 \in 1..Len(base) /\ a[k + 1] = base[k + 1]
                             /\ \E j \in 1..(Len(wire) - 1) :
                                  base[k] = wire[j] /\ base[k + 1] = wire[j + 1]
    OBVIOUS
  <2>1. k \in 1..Len(base) /\ a[k] = base[k]  BY <1>11, <1>12, <1>13
  <2>2. k = Len(base) => a[k + 1] = c  BY <1>12, <1>13
  <2>3. ASSUME k # Len(base)
        PROVE  k + 1 \in 1..Len(base) /\ a[k + 1] = base[k + 1]
               /\ \E j \in 1..(Len(wire) - 1) : base[k] = wire[j] /\ base[k + 1] = wire[j + 1]
    <3>1. k + 1 \in 1..Len(base) /\ a[k + 1] = base[k + 1]  BY <1>11, <1>12, <2>1, <2>3
    <3>2. CASE Wire!WireRoom
      <4>1. k \in 1..(Len(wire) - 1) /\ base[k] = wire[k] /\ base[k + 1] = wire[k + 1]
        BY <1>6, <1>11, <2>1, <3>1, <3>2
      <4> QED BY <3>1, <4>1
    <3>3. CASE ~Wire!WireRoom
      <4>1. k + 1 \in 1..(Len(wire) - 1) /\ base[k] = wire[k + 1] /\ base[k + 1] = wire[k + 1 + 1]
        BY <1>6, <1>11, <2>1, <3>1, <3>3
      <4> QED BY <3>1, <4>1
    <3> QED BY <3>2, <3>3
  <2> QED BY <2>1, <2>2, <2>3
<1>20. WireJoins'
  <2>1. ASSUME NEW k \in 1..(Len(wire') - 1) PROVE wire'[k].continues <=> wire'[k + 1].off > 0
    <3>1. wire'[k].continues = a[k].continues /\ wire'[k + 1].off = a[k + 1].off
      BY <1>13, <1>15
    <3>2. CASE k = Len(base)
      <4>1. a[k] = wire[Len(wire)] /\ a[k + 1] = c /\ wire # <<>>
        BY <1>11, <1>16, <1>19, <3>2
      <4>2. wire[Len(wire)].continues <=> job.off > 0
        BY <1>1, <4>1 DEF WireInv, WireJoins
      <4> QED BY <1>8, <3>1, <4>1, <4>2
    <3>3. CASE k # Len(base)
      <4> PICK j \in 1..(Len(wire) - 1) : a[k] = wire[j] /\ a[k + 1] = wire[j + 1]
        BY <1>19, <3>3
      <4> QED BY <3>1 DEF WireInv, WireJoins
    <3> QED BY <3>2, <3>3
  <2>2. ASSUME ~wire'[1].lost PROVE joins' <=> wire'[1].off > 0
    <3>1. Wire!WireRoom /\ wire' = a  BY <1>13, <2>2
    <3>2. CASE wire = <<>>
      <4>1. Len(base) = 0  BY <1>11, <3>1, <3>2
      <4>2. wire'[1] = c  BY <1>12, <3>1, <4>1
      <4>3. ~joins /\ job.off = 0  BY <3>2 DEF WireInv, WireJoins
      <4>4. ~(c.off > 0)  BY <1>8, <4>3
      <4> QED BY <1>1, <4>2, <4>3, <4>4
    <3>3. CASE wire # <<>>
      <4>1. 1 \in 1..Len(base)  BY <1>6, <1>11, <3>1, <3>3
      <4>2. wire'[1] = wire[1]  BY <1>11, <1>12, <3>1, <4>1
      <4> QED BY <1>1, <2>2, <3>3, <4>2 DEF WireInv, WireJoins
    <3> QED BY <3>2, <3>3
  <2>3. wire'[Len(wire')].continues <=> (job'.off > 0 /\ job'.off < Len(job'.buf))
    <3>1. wire'[Len(wire')].continues = a[Len(a)].continues  BY <1>12, <1>13, <1>15
    <3>2. wire'[Len(wire')].continues = goes  BY <1>8, <1>12, <3>1
    <3> QED BY <1>4, <1>5, <3>2
  <2> QED BY <1>15, <2>1, <2>2, <2>3 DEF WireJoins
<1>21. WireNumbers'
  <2>1. ASSUME NEW k \in 1..(Len(wire') - 1)
        PROVE  wire'[k + 1].sequence = WireNext(wire'[k].sequence)
    <3>1. wire'[k].sequence = a[k].sequence /\ wire'[k + 1].sequence = a[k + 1].sequence
      BY <1>13, <1>15
    <3>2. CASE k = Len(base)
      <4>1. a[k] = wire[Len(wire)] /\ a[k + 1] = c /\ wire # <<>>
        BY <1>11, <1>16, <1>19, <3>2
      <4> QED BY <1>8, <3>1, <4>1 DEF WireInv, WireNumbers
    <3>3. CASE k # Len(base)
      <4> PICK j \in 1..(Len(wire) - 1) : a[k] = wire[j] /\ a[k + 1] = wire[j + 1]
        BY <1>19, <3>3
      <4> QED BY <3>1 DEF WireInv, WireNumbers
    <3> QED BY <3>2, <3>3
  <2>2. wire'[Len(wire')].sequence = wire_sequence
    BY <1>8, <1>12, <1>13, <1>15
  <2> QED BY <1>1, <2>1, <2>2 DEF WireNumbers
<1>22. WireBalance'
  <2>1. CASE Wire!WireRoom
    <3>1. Len(wire') = Len(wire) + 1 /\ dropped_wire' = dropped_wire
      BY <1>11, <1>13, <1>14, <2>1
    <3>2. (wire_polled + dropped_wire + (Len(wire) + 1)) % WireModulus
            = WireNext((wire_polled + dropped_wire + Len(wire)) % WireModulus)
      BY <1>6, WireSums
    <3> QED BY <1>1, <3>1, <3>2 DEF WireInv, WireBalance
  <2>2. CASE ~Wire!WireRoom
    <3>1. Len(wire') = Len(wire) /\ dropped_wire' = WireNext(dropped_wire)
      BY <1>6, <1>11, <1>13, <1>14, <2>2
    <3>2. (wire_polled + WireNext(dropped_wire) + Len(wire)) % WireModulus
            = WireNext((wire_polled + dropped_wire + Len(wire)) % WireModulus)
      BY <1>6, WireSums
    <3> QED BY <1>1, <3>1, <3>2 DEF WireInv, WireBalance
  <2> QED BY <2>1, <2>2
<1>23. WireWarned'
  BY <1>14 DEF WireInv, WireWarned, WireTypes
<1> QED BY <1>17, <1>18, <1>20, <1>21, <1>22, <1>23 DEF WireInv

LEMMA WireInvHolds == Wire!Spec => []WireInv
<1>1. ASSUME WireInv, [Wire!Next]_(Wire!vars) PROVE WireInv'
  <2>1. ASSUME NEW buf \in Objects, Wire!WireClient(buf) PROVE WireInv'
    <3>1. Wire!wire_push_bytes(buf, ~RecordIdentifiers, FALSE)  BY <2>1 DEF Wire!WireClient
    <3>2. (~RecordIdentifiers) \in BOOLEAN  BY WireAssumption
    <3> QED BY <1>1, <3>1, <3>2, WireBegins
  <2>2. ASSUME NEW buf \in Lines, Wire!WireReply(buf) PROVE WireInv'
    BY <1>1, <2>2, WireBegins DEF Wire!WireReply
  <2>3. ASSUME NEW buf \in Lines, NEW sensitive \in BOOLEAN, Wire!WireMeta(buf, sensitive)
        PROVE  WireInv'
    <3>1. Wire!wire_push_bytes(buf, FALSE, ~RecordIdentifiers /\ sensitive)
      BY <2>3 DEF Wire!WireMeta
    <3>2. (~RecordIdentifiers /\ sensitive) \in BOOLEAN  BY WireAssumption
    <3> QED BY <1>1, <3>1, <3>2, WireBegins
  <2>4. CASE Wire!PushChunk  BY <1>1, <2>4, WirePushed
  <2>5. CASE Wire!PushReturns  BY <1>1, <2>5, WireEnds
  <2>6. CASE Wire!PollWire  BY <1>1, <2>6, WirePolled
  <2>7. CASE Wire!PollEvents \/ UNCHANGED Wire!vars
    <3>1. UNCHANGED <<wire_ring, wire, wire_sequence, dropped_wire, wire_drop_warned, gap, joins,
                      wire_polled, wire_warnings, job>>
      BY <2>7 DEF Wire!PollEvents, Wire!vars, Wire!ringVars, Wire!histVars
    <3> QED BY <1>1, <3>1 DEF WireInv, WireTypes, JobOK, WireMarks, WireJoins, WireNumbers,
                              WireBalance, WireWarned
  <2> QED BY <1>1, <2>1, <2>2, <2>3, <2>4, <2>5, <2>6, <2>7 DEF Wire!Next
<1> QED BY <1>1, WireInitOK, PTL DEF Wire!Spec

(***************************************************************************)
(* The wire log tells its reader what is missing, for rings and chunks of  *)
(* any size, counters of any width and buffers of any length: the LOST     *)
(* mark stands exactly where chunks were dropped, the numbers account for  *)
(* every chunk, and pieces joined by CONTINUES belong to one message.      *)
(***************************************************************************)
THEOREM WireGapsTold == Wire!Spec => []GapsAreTold
  BY WireInvHolds, WireInvGives, PTL
-----------------------------------------------------------------------------
(***************************************************************************)
(* The redactor.  The reference (Scan) reads a buffer once from left to    *)
(* right, a state per byte; redactor_next searches for the next key from   *)
(* its cursor.  They agree because the state behind a byte, outside a      *)
(* value, says how far back the key it may belong to begins (Behind): the  *)
(* first match of the search is where the reference first enters a value   *)
(* (FirstMatch), and value_end is where it leaves it (ValueEnds).  Between *)
(* chunks the cursor stands outside every value, or past the one it holds  *)
(* (CursorOK), and holds all that is secret between the next chunk and     *)
(* itself (Covers); the passes of redactor_apply mask the rest (PassOK).   *)
(***************************************************************************)

Outside == {"none", "quote", "name", "key", "after key", "colon"}

Inside == {"value", "hidden"}

ScanState == [at : Outside \cup Inside, start : Nat]

(* The state behind a byte outside a value, but for the quote that begins one. *)
Looks(at, b) ==
  CASE b = "quote" -> CASE at = "name" -> "key"
                        [] at = "colon" -> "value"
                        [] OTHER -> "quote"
    [] b = "name" /\ at \in {"quote", "key"} -> "name"
    [] b = "colon" /\ at \in {"key", "after key"} -> "colon"
    [] b = "space" /\ at \in {"key", "after key"} -> "after key"
    [] b = "space" /\ at = "colon" -> "colon"
    [] OTHER -> "none"

ScanByte(s, b) ==
  IF s.at = "value" THEN CASE b = "quote"  -> [at |-> "none", start |-> 0]
                           [] b = "escape" -> [s EXCEPT !.at = "hidden"]
                           [] OTHER        -> s
  ELSE IF s.at = "hidden" THEN [s EXCEPT !.at = "value"]
  ELSE [start |-> 0, at |-> Looks(s.at, b)]

ScanStep(s, b, k) ==
  IF ScanByte(s, b).at = "value" /\ s.at = "colon" THEN [ScanByte(s, b) EXCEPT !.start = k]
  ELSE ScanByte(s, b)

ScanStart == [at |-> "none", start |-> 0]

ScanEntry(buf, g, k) == IF k = 0 THEN ScanStart ELSE ScanStep(g[k - 1], buf[k], k)

LEMMA LooksOK == ASSUME NEW at, NEW b PROVE Looks(at, b) \in Outside \cup {"value"}
  BY DEF Looks, Outside

LEMMA ScanStepOK ==
  ASSUME NEW s \in ScanState, NEW b, NEW k \in Nat
  PROVE  ScanStep(s, b, k) \in ScanState
<1>1. ScanByte(s, b) \in ScanState
  <2>1. CASE s.at \in Inside
    BY <2>1 DEF ScanByte, ScanState, Outside, Inside
  <2>2. CASE s.at \in Outside
    <3>1. s.at # "value" /\ s.at # "hidden"
      BY <2>2 DEF Outside
    <3>2. ScanByte(s, b) = [start |-> 0, at |-> Looks(s.at, b)]
      BY <3>1 DEF ScanByte
    <3>3. Looks(s.at, b) \in Outside \cup Inside
      BY LooksOK DEF Inside
    <3> QED BY <3>2, <3>3 DEF ScanState
  <2> QED BY <2>1, <2>2 DEF ScanState
<1> QED BY <1>1 DEF ScanStep, ScanState

LEMMA ScanTable ==
  ASSUME NEW buf \in Seq(Wire!WireByte)
  PROVE  /\ Wire!Scan(buf)[0] = ScanStart
         /\ \A k \in 1..Len(buf) : Wire!Scan(buf)[k] = ScanStep(Wire!Scan(buf)[k - 1], buf[k], k)
         /\ \A k \in 0..Len(buf) : Wire!Scan(buf)[k] \in ScanState
<1> DEFINE n == Len(buf)
           F == [k \in 1..n |-> [v \in ScanState |-> ScanStep(v, buf[k], k)]]
<1>1. \A k \in 1..n, v \in ScanState : ScanStep(v, buf[k], k) \in ScanState
  BY ScanStepOK
<1>2. ScanStart \in ScanState /\ n \in Nat
  BY DEF ScanStart, ScanState, Outside
<1>3. /\ F \in [1..n -> [ScanState -> ScanState]]
      /\ \A k \in 1..n, v \in ScanState : F[k][v] = ScanStep(v, buf[k], k)
  BY <1>1
<1> HIDE DEF F, n
<1>4. PICK g \in [0..n -> ScanState] : Iterates(g, ScanStart, F, n)
  BY <1>2, <1>3, LoopExists
<1>5. ASSUME NEW k \in 0..n PROVE g[k] = ScanEntry(buf, g, k)
  <2>1. CASE k = 0
    BY <1>4, <2>1 DEF ScanEntry, Iterates
  <2>2. CASE k # 0
    <3>1. k \in 1..n /\ k - 1 \in 0..n
      BY <1>2, <2>2
    <3>2. g[k - 1] \in ScanState
      BY <1>4, <3>1
    <3> QED BY <1>3, <1>4, <2>2, <3>1, <3>2 DEF ScanEntry, Iterates
  <2> QED BY <2>1, <2>2
<1>6. g = [k \in 0..n |-> ScanEntry(buf, g, k)]
  BY <1>4, <1>5
<1> DEFINE h == Wire!Scan(buf)
<1>7. h = [k \in 0..n |-> ScanEntry(buf, h, k)]
  BY <1>6, Zenon DEF Wire!Scan, ScanEntry, ScanStep, ScanByte, Looks, ScanStart, n
<1> HIDE DEF h
<1>8. h[0] = ScanStart /\ \A k \in 1..n : h[k] = ScanStep(h[k - 1], buf[k], k)
  BY <1>2, <1>7 DEF ScanEntry
<1> DEFINE T == {k \in Nat : k <= n => h[k] \in ScanState}
<1>9. 0 \in T
  BY <1>2, <1>8
<1>10. ASSUME NEW k \in T PROVE k + 1 \in T
  <2> SUFFICES ASSUME k + 1 <= n PROVE h[k + 1] \in ScanState
    OBVIOUS
  <2>1. h[k] \in ScanState /\ k + 1 \in 1..n /\ (k + 1) - 1 = k /\ k \in Nat
    BY <1>2, <1>10
  <2>2. h[k + 1] = ScanStep(h[k], buf[k + 1], k + 1)
    BY <1>8, <2>1
  <2> QED BY <2>1, <2>2, ScanStepOK
<1> HIDE DEF T
<1>11. T = Nat
  <2>1. T \in SUBSET Nat
    BY DEF T
  <2> QED BY <1>9, <1>10, <2>1, SetInduction
<1>12. \A k \in 0..n : h[k] \in ScanState
  BY <1>2, <1>11 DEF T
<1>13. Wire!Scan(buf) = h /\ Len(buf) = n
  BY DEF h, n
<1> QED BY <1>8, <1>12, <1>13, Zenon

(* Where the reference is behind the first k bytes, and since when. *)
Where(buf, k) == Wire!Scan(buf)[k].at

Since(buf, k) == Wire!Scan(buf)[k].start

LEMMA WhereMoves ==
  ASSUME NEW buf \in Seq(Wire!WireByte), NEW k \in 0..(Len(buf) - 1)
  PROVE  /\ Where(buf, k) \in Outside =>
              /\ Where(buf, k + 1) = Looks(Where(buf, k), Wire!At(buf, k))
              /\ Where(buf, k + 1) = "value" => Since(buf, k + 1) = k + 1
         /\ Where(buf, k) = "value" =>
              /\ Wire!At(buf, k) = "quote" => Where(buf, k + 1) = "none"
              /\ Wire!At(buf, k) = "escape" => Where(buf, k + 1) = "hidden"
              /\ Wire!At(buf, k) \notin {"quote", "escape"} => Where(buf, k + 1) = "value"
              /\ Wire!At(buf, k) # "quote" => Since(buf, k + 1) = Since(buf, k)
         /\ Where(buf, k) = "hidden" =>
              Where(buf, k + 1) = "value" /\ Since(buf, k + 1) = Since(buf, k)
<1> DEFINE s == Wire!Scan(buf)[k]
           t == Wire!Scan(buf)[k + 1]
           b == Wire!At(buf, k)
<1>1. Len(buf) \in Nat /\ k + 1 \in 1..Len(buf) /\ (k + 1) - 1 = k /\ k \in 0..Len(buf)
  OBVIOUS
<1>2. t = ScanStep(s, b, k + 1) /\ s \in ScanState
  BY <1>1, ScanTable DEF Wire!At
<1>3. Where(buf, k) = s.at /\ Where(buf, k + 1) = t.at /\ Since(buf, k) = s.start
      /\ Since(buf, k + 1) = t.start
  BY DEF Where, Since
<1> HIDE DEF s, t, b
<1>4. ASSUME s.at \in Outside PROVE t.at = Looks(s.at, b) /\ (t.at = "value" => t.start = k + 1)
  <2> DEFINE l == Looks(s.at, b)
  <2>1. s.at # "value" /\ s.at # "hidden"
    BY <1>4 DEF Outside
  <2>2. ScanByte(s, b) = [start |-> 0, at |-> l]
    BY <2>1 DEF ScanByte
  <2>3. l = "value" => s.at = "colon"
    BY DEF Looks
  <2> HIDE DEF l
  <2>4. t = IF l = "value" /\ s.at = "colon" THEN [start |-> k + 1, at |-> l]
            ELSE [start |-> 0, at |-> l]
    BY <1>2, <2>2 DEF ScanStep
  <2> QED BY <2>3, <2>4 DEF l
<1>5. ASSUME s.at = "value"
      PROVE  /\ b = "quote" => t.at = "none"
             /\ b = "escape" => t.at = "hidden"
             /\ b \notin {"quote", "escape"} => t.at = "value"
             /\ b # "quote" => t.start = s.start
  <2>1. t = ScanByte(s, b)
    BY <1>2, <1>5 DEF ScanStep
  <2>2. b = "quote" => t = [at |-> "none", start |-> 0]
    BY <1>5, <2>1 DEF ScanByte
  <2>3. b = "escape" => t = [s EXCEPT !.at = "hidden"]
    BY <1>5, <2>1 DEF ScanByte
  <2>4. b \notin {"quote", "escape"} => t = s
    BY <1>5, <2>1 DEF ScanByte
  <2> QED BY <1>2, <1>5, <2>2, <2>3, <2>4 DEF ScanState
<1>6. ASSUME s.at = "hidden" PROVE t.at = "value" /\ t.start = s.start
  <2>1. ScanByte(s, b) = [s EXCEPT !.at = "value"]
    BY <1>6 DEF ScanByte
  <2>2. t = ScanByte(s, b)
    BY <1>2, <1>6 DEF ScanStep
  <2> QED BY <1>2, <2>1, <2>2 DEF ScanState
<1> QED BY <1>3, <1>4, <1>5, <1>6 DEF b

LEMMA WhereOK ==
  ASSUME NEW buf \in Seq(Wire!WireByte)
  PROVE  /\ Where(buf, 0) = "none"
         /\ \A k \in 0..Len(buf) : Where(buf, k) \in Outside \cup Inside /\ Since(buf, k) \in Nat
         /\ \A k \in 0..Len(buf) : Wire!InValue(Wire!Scan(buf)[k]) <=> Where(buf, k) \in Inside
<1>1. Wire!Scan(buf)[0] = ScanStart /\ \A k \in 0..Len(buf) : Wire!Scan(buf)[k] \in ScanState
  BY ScanTable
<1> QED BY <1>1 DEF Where, Since, ScanStart, ScanState, Wire!InValue, Inside

(* White space is skipped to the first byte that is none. *)
Spaces(buf, j, k) == \A i \in j..(k - 1) : Wire!At(buf, i) = "space"

LEMMA SkipIs ==
  ASSUME NEW buf \in Seq(Wire!WireByte), NEW j \in 0..Len(buf), NEW k \in j..Len(buf),
         k < Len(buf) => Wire!At(buf, k) # "space", Spaces(buf, j, k)
  PROVE  Wire!SkipSpace(buf, j) = k
<1> DEFINE P(x) == /\ x < Len(buf) => Wire!At(buf, x) # "space"
                   /\ \A i \in j..(x - 1) : Wire!At(buf, i) = "space"
<1>1. P(k) /\ Len(buf) \in Nat
  BY DEF Spaces
<1>2. ASSUME NEW x \in j..Len(buf), P(x) PROVE x = k
  <2>1. CASE x < k
    <3>1. x \in j..(k - 1) /\ x < Len(buf)
      BY <1>1, <2>1
    <3> QED BY <1>1, <1>2, <3>1
  <2>2. CASE k < x
    <3>1. k \in j..(x - 1) /\ k < Len(buf)
      BY <1>1, <2>2
    <3> QED BY <1>1, <1>2, <3>1
  <2> QED BY <2>1, <2>2
<1>3. Wire!SkipSpace(buf, j) = CHOOSE x \in j..Len(buf) : P(x)
  BY DEF Wire!SkipSpace
<1> HIDE DEF P
<1> QED BY <1>1, <1>2, <1>3

LEMMA SkipFinds ==
  ASSUME NEW buf \in Seq(Wire!WireByte), NEW j \in 0..Len(buf)
  PROVE  /\ Wire!SkipSpace(buf, j) \in j..Len(buf)
         /\ Spaces(buf, j, Wire!SkipSpace(buf, j))
<1> DEFINE T == {x \in j..Len(buf) : x < Len(buf) => Wire!At(buf, x) # "space"}
<1>1. Len(buf) \in Nat /\ Len(buf) \in T /\ T \in SUBSET Nat
  OBVIOUS
<1>2. PICK k \in T : \A m \in T : k <= m
  BY <1>1, LeastNat
<1>3. k \in j..Len(buf) /\ (k < Len(buf) => Wire!At(buf, k) # "space")
  OBVIOUS
<1>4. Spaces(buf, j, k)
  <2> SUFFICES ASSUME NEW i \in j..(k - 1), Wire!At(buf, i) # "space" PROVE FALSE
    BY DEF Spaces
  <2>1. i \in j..Len(buf) /\ ~(k <= i)
    BY <1>3
  <2> QED BY <1>2, <2>1
<1>5. Wire!SkipSpace(buf, j) = k
  BY <1>3, <1>4, SkipIs
<1> QED BY <1>3, <1>4, <1>5

(* A key at i, its colon at c and the quote that begins its value at q. *)
Found(buf, i, c, q) ==
  /\ Wire!KeyAt(buf, i)
  /\ c \in (i + 3)..(Len(buf) - 1) /\ Wire!At(buf, c) = "colon" /\ Spaces(buf, i + 3, c)
  /\ q \in (c + 1)..(Len(buf) - 1) /\ Wire!At(buf, q) = "quote" /\ Spaces(buf, c + 1, q)

LEMMA FoundMatches ==
  ASSUME NEW buf \in Seq(Wire!WireByte), NEW i \in Nat, NEW c, NEW q, Found(buf, i, c, q)
  PROVE  Wire!Matches(buf, i) /\ Wire!QuoteFor(buf, i) = q /\ Wire!ColonFor(buf, i) = c
<1>1. Len(buf) \in Nat /\ c \in Nat /\ q \in Nat /\ c < Len(buf) /\ q < Len(buf)
      /\ i + 3 \in 0..Len(buf) /\ c \in (i + 3)..Len(buf)
      /\ c + 1 \in 0..Len(buf) /\ q \in (c + 1)..Len(buf)
  BY DEF Found
<1>2. Wire!SkipSpace(buf, i + 3) = c
  <2>1. PICK j \in 0..Len(buf) : j = i + 3
    BY <1>1
  <2>2. c \in j..Len(buf) /\ Wire!At(buf, c) # "space" /\ Spaces(buf, j, c)
    BY <1>1, <2>1 DEF Found
  <2> QED BY <2>1, <2>2, SkipIs
<1>3. Wire!SkipSpace(buf, c + 1) = q
  <2>1. PICK j \in 0..Len(buf) : j = c + 1
    BY <1>1
  <2>2. q \in j..Len(buf) /\ Wire!At(buf, q) # "space" /\ Spaces(buf, j, q)
    BY <1>1, <2>1 DEF Found
  <2> QED BY <2>1, <2>2, SkipIs
<1>4. Wire!ColonFor(buf, i) = c
  BY <1>2 DEF Wire!ColonFor
<1>5. Wire!QuoteFor(buf, i) = q
  BY <1>3, <1>4 DEF Wire!QuoteFor
<1> QED BY <1>1, <1>4, <1>5 DEF Wire!Matches, Wire!InBuf, Found

LEMMA MatchFound ==
  ASSUME NEW buf \in Seq(Wire!WireByte), NEW i \in Nat, Wire!Matches(buf, i)
  PROVE  Found(buf, i, Wire!ColonFor(buf, i), Wire!QuoteFor(buf, i))
<1> DEFINE c == Wire!ColonFor(buf, i)
           q == Wire!QuoteFor(buf, i)
<1>1. Wire!KeyAt(buf, i) /\ c < Len(buf) /\ Wire!At(buf, c) = "colon"
      /\ q < Len(buf) /\ Wire!At(buf, q) = "quote"
  BY DEF Wire!Matches, Wire!InBuf
<1>2. i + 3 \in 0..Len(buf)
  BY DEF Wire!Matches, Wire!KeyAt, Wire!InBuf
<1>3. c \in (i + 3)..Len(buf) /\ Spaces(buf, i + 3, c)
  <2>1. PICK j \in 0..Len(buf) : j = i + 3
    BY <1>2
  <2> QED BY <2>1, SkipFinds DEF Wire!ColonFor
<1> HIDE DEF c
<1>4. c + 1 \in 0..Len(buf)
  BY <1>1, <1>2, <1>3
<1>5. q \in (c + 1)..Len(buf) /\ Spaces(buf, c + 1, q)
  <2>1. PICK j \in 0..Len(buf) : j = c + 1
    BY <1>4
  <2>2. q = Wire!SkipSpace(buf, j)
    BY <2>1 DEF Wire!QuoteFor, c
  <2> HIDE DEF q
  <2> QED BY <2>1, <2>2, SkipFinds
<1> HIDE DEF q
<1>6. c \in (i + 3)..(Len(buf) - 1) /\ q \in (c + 1)..(Len(buf) - 1)
  BY <1>1, <1>2, <1>3, <1>4, <1>5
<1> QED BY <1>1, <1>3, <1>5, <1>6 DEF Found, c, q

(***************************************************************************)
(* THE SEARCH.  As long as the reference, which was nowhere at p, has      *)
(* entered no value, the state it is in tells what lies behind it.         *)
(***************************************************************************)
Behind(buf, p, k) ==
  /\ Where(buf, k) \in Outside
  /\ Where(buf, k) = "quote" => k - 1 >= p /\ Wire!At(buf, k - 1) = "quote"
  /\ Where(buf, k) = "name" =>
       k - 2 >= p /\ Wire!At(buf, k - 2) = "quote" /\ Wire!At(buf, k - 1) = "name"
  /\ Where(buf, k) = "key" => k - 3 >= p /\ Wire!KeyAt(buf, k - 3)
  /\ Where(buf, k) = "after key" =>
       \E i \in p..(k - 3) : Wire!KeyAt(buf, i) /\ Spaces(buf, i + 3, k)
  /\ Where(buf, k) = "colon" =>
       \E i \in p..(k - 4) : \E c \in (i + 3)..(k - 1) :
         /\ Wire!KeyAt(buf, i) /\ Spaces(buf, i + 3, c)
         /\ Wire!At(buf, c) = "colon" /\ Spaces(buf, c + 1, k)

LEMMA SpacesMore ==
  ASSUME NEW buf, NEW j \in Nat, NEW k \in Nat, Spaces(buf, j, k), Wire!At(buf, k) = "space"
  PROVE  Spaces(buf, j, k + 1)
<1>1. ASSUME NEW i \in j..((k + 1) - 1) PROVE Wire!At(buf, i) = "space"
  <2>1. CASE i = k
    BY <2>1
  <2>2. CASE i # k
    <3>1. i \in j..(k - 1)
      BY <2>2
    <3> QED BY <3>1 DEF Spaces
  <2> QED BY <2>1, <2>2
<1> QED BY <1>1 DEF Spaces

LEMMA SpacesNone == ASSUME NEW buf, NEW j \in Nat PROVE Spaces(buf, j, j)
  BY DEF Spaces

(* The key that ends where the reference is. *)
KeyEnds(buf, k) == Where(buf, k) \in {"key", "after key"}

LEMMA KeyBehind ==
  ASSUME NEW buf \in Seq(Wire!WireByte), NEW p \in Nat, NEW k \in p..Len(buf), Behind(buf, p, k),
         KeyEnds(buf, k)
  PROVE  \E i \in p..(k - 3) : Wire!KeyAt(buf, i) /\ Spaces(buf, i + 3, k)
<1>1. CASE Where(buf, k) = "key"
  <2>1. k - 3 >= p /\ Wire!KeyAt(buf, k - 3)
    BY <1>1 DEF Behind
  <2>a. k \in Nat
    <3>1. Len(buf) \in Nat
      OBVIOUS
    <3> QED BY <3>1
  <2>2. k - 3 \in p..(k - 3) /\ (k - 3) + 3 = k
    <3>1. k - 3 >= p
      BY <2>1
    <3> QED BY <2>a, <3>1
  <2>3. Spaces(buf, (k - 3) + 3, k)
    BY <2>a, <2>2, SpacesNone
  <2> QED BY <2>1, <2>2, <2>3
<1>2. CASE Where(buf, k) = "after key"
  BY <1>2 DEF Behind
<1> QED BY <1>1, <1>2 DEF KeyEnds

LEMMA BehindStep ==
  ASSUME NEW buf \in Seq(Wire!WireByte), NEW p \in Nat, NEW k \in p..(Len(buf) - 1),
         Behind(buf, p, k), Where(buf, k + 1) \in Outside
  PROVE  Behind(buf, p, k + 1)
<1> DEFINE at == Where(buf, k)
           b == Wire!At(buf, k)
           l == Where(buf, k + 1)
<1>1. k \in Nat /\ k \in 0..(Len(buf) - 1) /\ Len(buf) \in Nat /\ k \in p..Len(buf)
  OBVIOUS
<1>2. at \in Outside /\ l = Looks(at, b)
  BY <1>1, WhereMoves DEF Behind
<1>w. at = Where(buf, k) /\ l = Where(buf, k + 1) /\ b = Wire!At(buf, k) /\ l \in Outside
  OBVIOUS
<1> HIDE DEF at, l, b
<1>3. /\ l = "quote" => b = "quote"
      /\ l = "name" => b = "name" /\ at \in {"quote", "key"}
      /\ l = "key" => b = "quote" /\ at = "name"
      /\ l = "after key" => b = "space" /\ at \in {"key", "after key"}
      /\ l = "colon" => \/ b = "colon" /\ at \in {"key", "after key"}
                        \/ b = "space" /\ at = "colon"
  BY <1>2 DEF Looks, Outside
<1>4. ASSUME l = "quote" PROVE (k + 1) - 1 >= p /\ Wire!At(buf, (k + 1) - 1) = "quote"
  <2>1. (k + 1) - 1 = k /\ k >= p
    BY <1>1
  <2> QED BY <1>3, <1>4, <1>w, <2>1
<1>5. ASSUME l = "name"
      PROVE (k + 1) - 2 >= p /\ Wire!At(buf, (k + 1) - 2) = "quote" /\ Wire!At(buf, (k + 1) - 1) = "name"
  <2>1. (k + 1) - 1 = k /\ (k + 1) - 2 = k - 1
    BY <1>1
  <2>2. CASE at = "quote"
    <3>1. k - 1 >= p /\ Wire!At(buf, k - 1) = "quote"
      BY <1>w, <2>2 DEF Behind
    <3> QED BY <1>3, <1>5, <1>w, <2>1, <3>1
  <2>3. CASE at = "key"
    <3>1. k - 3 >= p /\ Wire!KeyAt(buf, k - 3)
      BY <1>w, <2>3 DEF Behind
    <3>2. (k - 3) + 2 = k - 1 /\ k - 1 >= p
      BY <1>1, <3>1
    <3>3. Wire!At(buf, k - 1) = "quote"
      BY <3>1, <3>2 DEF Wire!KeyAt, Wire!InBuf
    <3> QED BY <1>3, <1>5, <1>w, <2>1, <3>2, <3>3
  <2> QED BY <1>3, <1>5, <2>2, <2>3
<1>6. ASSUME l = "key" PROVE (k + 1) - 3 >= p /\ Wire!KeyAt(buf, (k + 1) - 3)
  <2>1. (k + 1) - 3 = k - 2
    BY <1>1
  <2>2. k - 2 >= p /\ Wire!At(buf, k - 2) = "quote" /\ Wire!At(buf, k - 1) = "name"
        /\ Wire!At(buf, k) = "quote"
    BY <1>3, <1>6, <1>w DEF Behind
  <2>3. (k - 2) + 1 = k - 1 /\ (k - 2) + 2 = k /\ k - 2 < Len(buf) /\ k - 1 < Len(buf) /\ k < Len(buf)
    BY <1>1
  <2>4. Wire!KeyAt(buf, k - 2)
    BY <2>2, <2>3 DEF Wire!KeyAt, Wire!InBuf
  <2> QED BY <2>1, <2>2, <2>4
<1>7. ASSUME l = "after key"
      PROVE \E i \in p..((k + 1) - 3) : Wire!KeyAt(buf, i) /\ Spaces(buf, i + 3, k + 1)
  <2>1. PICK i \in p..(k - 3) : Wire!KeyAt(buf, i) /\ Spaces(buf, i + 3, k)
    BY <1>1, <1>3, <1>7, <1>w, KeyBehind DEF KeyEnds
  <2>2. i + 3 \in Nat /\ i \in p..((k + 1) - 3)
    BY <1>1
  <2>3. Spaces(buf, i + 3, k + 1)
    <3>1. PICK j \in Nat : j = i + 3
      BY <2>2
    <3>2. Spaces(buf, j, k) /\ Wire!At(buf, k) = "space"
      BY <1>3, <1>7, <1>w, <2>1, <3>1
    <3>3. Spaces(buf, j, k + 1)
      BY <1>1, <3>2, SpacesMore
    <3> QED BY <3>1, <3>3
  <2> QED BY <2>1, <2>2, <2>3
<1>8. ASSUME l = "colon"
      PROVE \E i \in p..((k + 1) - 4) : \E c \in (i + 3)..((k + 1) - 1) :
              /\ Wire!KeyAt(buf, i) /\ Spaces(buf, i + 3, c)
              /\ Wire!At(buf, c) = "colon" /\ Spaces(buf, c + 1, k + 1)
  <2>1. CASE b = "colon" /\ at \in {"key", "after key"}
    <3>1. PICK i \in p..(k - 3) : Wire!KeyAt(buf, i) /\ Spaces(buf, i + 3, k)
      BY <1>1, <1>w, <2>1, KeyBehind DEF KeyEnds
    <3>2. i \in p..((k + 1) - 4) /\ k \in (i + 3)..((k + 1) - 1) /\ k + 1 \in Nat
      BY <1>1
    <3>3. Spaces(buf, k + 1, k + 1)
      BY <3>2, SpacesNone
    <3>4. Wire!At(buf, k) = "colon"
      BY <1>w, <2>1
    <3> QED BY <3>1, <3>2, <3>3, <3>4
  <2>2. CASE b = "space" /\ at = "colon"
    <3>a. PICK i \in p..(k - 4) : \E c \in (i + 3)..(k - 1) :
            /\ Wire!KeyAt(buf, i) /\ Spaces(buf, i + 3, c)
            /\ Wire!At(buf, c) = "colon" /\ Spaces(buf, c + 1, k)
      BY <1>w, <2>2 DEF Behind
    <3>1. PICK c \in (i + 3)..(k - 1) :
            /\ Wire!KeyAt(buf, i) /\ Spaces(buf, i + 3, c)
            /\ Wire!At(buf, c) = "colon" /\ Spaces(buf, c + 1, k)
      BY <3>a
    <3>2. i \in p..((k + 1) - 4) /\ c \in (i + 3)..((k + 1) - 1) /\ c + 1 \in Nat
      BY <1>1
    <3>3. Spaces(buf, c + 1, k + 1)
      <4>1. PICK j \in Nat : j = c + 1
        BY <3>2
      <4>2. Spaces(buf, j, k) /\ Wire!At(buf, k) = "space"
        BY <1>w, <2>2, <3>1, <4>1
      <4>3. Spaces(buf, j, k + 1)
        BY <1>1, <4>2, SpacesMore
      <4> QED BY <4>1, <4>3
    <3> QED BY <3>1, <3>2, <3>3
  <2> QED BY <1>3, <1>8, <2>1, <2>2
<1> QED BY <1>4, <1>5, <1>6, <1>7, <1>8, <1>w DEF Behind

(* A value the reference enters was found by a key not before p. *)
LEMMA EnterFound ==
  ASSUME NEW buf \in Seq(Wire!WireByte), NEW p \in Nat, NEW k \in p..(Len(buf) - 1),
         Behind(buf, p, k), Where(buf, k + 1) \notin Outside
  PROVE  \E i \in p..(k - 4) : Wire!Matches(buf, i)
<1>1. k \in Nat /\ k \in 0..(Len(buf) - 1) /\ Len(buf) \in Nat
  OBVIOUS
<1>2. Where(buf, k) \in Outside /\ Where(buf, k + 1) = Looks(Where(buf, k), Wire!At(buf, k))
  BY <1>1, WhereMoves DEF Behind
<1>3. Where(buf, k + 1) = "value"
  BY <1>2, LooksOK
<1>4. Wire!At(buf, k) = "quote" /\ Where(buf, k) = "colon"
  BY <1>2, <1>3 DEF Looks
<1>a. PICK i \in p..(k - 4) : \E c \in (i + 3)..(k - 1) :
        /\ Wire!KeyAt(buf, i) /\ Spaces(buf, i + 3, c)
        /\ Wire!At(buf, c) = "colon" /\ Spaces(buf, c + 1, k)
  BY <1>4 DEF Behind
<1>5. PICK c \in (i + 3)..(k - 1) :
        /\ Wire!KeyAt(buf, i) /\ Spaces(buf, i + 3, c)
        /\ Wire!At(buf, c) = "colon" /\ Spaces(buf, c + 1, k)
  BY <1>a
<1>6. c \in (i + 3)..(Len(buf) - 1) /\ k \in (c + 1)..(Len(buf) - 1) /\ i \in Nat
  BY <1>1
<1>7. Found(buf, i, c, k)
  BY <1>4, <1>5, <1>6 DEF Found
<1> QED BY <1>6, <1>7, FoundMatches

(* So without a match there is no value. *)
LEMMA NothingFound ==
  ASSUME NEW buf \in Seq(Wire!WireByte), NEW p \in 0..Len(buf), Where(buf, p) = "none",
         NEW q \in p..Len(buf), \A i \in p..(q - 5) : ~Wire!Matches(buf, i)
  PROVE  \A k \in p..q : Behind(buf, p, k)
<1> DEFINE T == {m \in Nat : p + m <= q => Behind(buf, p, p + m)}
<1>1. 0 \in T
  <2>1. p + 0 = p
    OBVIOUS
  <2> QED BY <2>1 DEF Behind, Outside
<1>2. ASSUME NEW m \in T PROVE m + 1 \in T
  <2> SUFFICES ASSUME p + (m + 1) <= q PROVE Behind(buf, p, p + (m + 1))
    OBVIOUS
  <2>1. PICK k \in p..(Len(buf) - 1) : k = p + m /\ k + 1 = p + (m + 1)
    OBVIOUS
  <2>2. Behind(buf, p, k) /\ p \in Nat
    BY <2>1
  <2>3. Where(buf, k + 1) \in Outside
    <3> SUFFICES ASSUME Where(buf, k + 1) \notin Outside PROVE FALSE
      OBVIOUS
    <3>1. PICK i \in p..(k - 4) : Wire!Matches(buf, i)
      BY <2>2, EnterFound
    <3>2. i \in p..(q - 5)
      BY <2>1
    <3> QED BY <3>1, <3>2
  <2>4. Behind(buf, p, k + 1)
    BY <2>2, <2>3, BehindStep
  <2> QED BY <2>1, <2>4
<1> HIDE DEF T
<1>3. T = Nat
  <2>1. T \in SUBSET Nat
    BY DEF T
  <2> QED BY <1>1, <1>2, <2>1, SetInduction
<1>4. ASSUME NEW k \in p..q PROVE Behind(buf, p, k)
  <2>1. k - p \in T /\ p + (k - p) = k
    BY <1>3
  <2> QED BY <2>1 DEF T
<1> QED BY <1>4

LEMMA IntervalInduction ==
  ASSUME NEW T, NEW a \in Nat, NEW b \in Nat, a <= b => a \in T,
         \A k \in a..(b - 1) : k \in T => k + 1 \in T
  PROVE  \A k \in a..b : k \in T
<1> DEFINE S == {m \in Nat : a + m <= b => a + m \in T}
<1>1. 0 \in S
  OBVIOUS
<1>2. ASSUME NEW m \in S PROVE m + 1 \in S
  <2> SUFFICES ASSUME a + (m + 1) <= b PROVE a + (m + 1) \in T
    OBVIOUS
  <2>1. a + m \in a..(b - 1) /\ (a + m) + 1 = a + (m + 1) /\ a + m <= b
    OBVIOUS
  <2>2. a + m \in T
    BY <2>1
  <2> QED BY <2>1, <2>2
<1> HIDE DEF S
<1>3. S = Nat
  <2>1. S \in SUBSET Nat
    BY DEF S
  <2> QED BY <1>1, <1>2, <2>1, SetInduction
<1>4. ASSUME NEW k \in a..b PROVE k \in T
  <2>1. k - a \in S /\ a + (k - a) = k
    BY <1>3
  <2> QED BY <2>1 DEF S
<1> QED BY <1>4

(* The first match from p on is where the reference enters a value. *)
LEMMA FirstMatch ==
  ASSUME NEW buf \in Seq(Wire!WireByte), NEW p \in 0..Len(buf), Where(buf, p) = "none",
         NEW i \in p..(Len(buf) - 1), Wire!Matches(buf, i),
         \A j \in p..(i - 1) : ~Wire!Matches(buf, j),
         NEW q, q = Wire!QuoteFor(buf, i)
  PROVE  /\ q \in (i + 4)..(Len(buf) - 1)
         /\ \A k \in p..q : Where(buf, k) \in Outside
         /\ Where(buf, q + 1) = "value" /\ Since(buf, q + 1) = q + 1
<1> DEFINE n == Len(buf)
           W(k) == Where(buf, k)
           A(k) == Wire!At(buf, k)
           c == Wire!ColonFor(buf, i)
<1>1. n \in Nat /\ p \in Nat /\ i \in Nat /\ i \in p..(n - 1)
  OBVIOUS
<1>2. Found(buf, i, c, q)
  BY <1>1, MatchFound
<1>3. /\ c \in (i + 3)..(n - 1) /\ q \in (c + 1)..(n - 1)
      /\ A(c) = "colon" /\ A(q) = "quote"
      /\ \A k \in (i + 3)..(c - 1) : A(k) = "space"
      /\ \A k \in (c + 1)..(q - 1) : A(k) = "space"
  BY <1>2 DEF Found, Spaces
<1>4. A(i) = "quote" /\ A(i + 1) = "name" /\ A(i + 2) = "quote"
  BY <1>2 DEF Found, Wire!KeyAt, Wire!InBuf
<1>5. \A k \in p..(i + 1) : W(k) \in Outside
  <2>1. PICK m \in p..Len(buf) : m = i + 1
    BY <1>1
  <2>2. \A j \in p..(m - 5) : ~Wire!Matches(buf, j)
    <3>1. \A j \in p..(m - 5) : j \in p..(i - 1)
      BY <1>1, <2>1
    <3> QED BY <3>1
  <2>3. \A k \in p..m : Behind(buf, p, k)
    BY <2>2, NothingFound
  <2> QED BY <2>1, <2>3 DEF Behind
<1>6. ASSUME NEW k \in 0..(n - 1), W(k) \in Outside
      PROVE  /\ W(k + 1) = Looks(W(k), A(k))
             /\ W(k + 1) = "value" => Since(buf, k + 1) = k + 1
  BY <1>6, WhereMoves
<1> HIDE DEF n, W, A, c
<1>7. W(i + 1) = "quote" \/ W(i + 1) = "key"
  <2>1. i \in 0..(n - 1) /\ i \in p..(i + 1) /\ i + 1 \in p..(i + 1)
    BY <1>1
  <2>2. W(i) \in Outside /\ W(i + 1) \in Outside
    BY <1>5, <2>1
  <2>3. W(i + 1) = Looks(W(i), "quote")
    BY <1>4, <1>6, <2>1, <2>2
  <2> QED BY <2>2, <2>3 DEF Looks, Outside
<1>8. W(i + 2) = "name"
  <2>1. i + 1 \in 0..(n - 1) /\ (i + 1) + 1 = i + 2
    BY <1>1, <1>3
  <2>2. W(i + 1) \in Outside
    BY <1>7 DEF Outside
  <2>3. W(i + 2) = Looks(W(i + 1), "name")
    BY <1>4, <1>6, <2>1, <2>2
  <2> QED BY <1>7, <2>3 DEF Looks
<1>9. W(i + 3) = "key"
  <2>1. i + 2 \in 0..(n - 1) /\ (i + 2) + 1 = i + 3
    BY <1>1, <1>3
  <2>2. W(i + 2) \in Outside
    BY <1>8 DEF Outside
  <2>3. W(i + 3) = Looks("name", "quote")
    BY <1>4, <1>6, <1>8, <2>1, <2>2
  <2> QED BY <2>3 DEF Looks
<1> DEFINE T == {k \in Nat : W(k) = "key" \/ W(k) = "after key"}
           U == {k \in Nat : W(k) = "colon"}
<1>10. \A k \in (i + 3)..c : k \in T
  <2>1. PICK a \in Nat : a = i + 3
    BY <1>1
  <2>c. c \in Nat /\ n \in Nat /\ c <= n - 1
    BY <1>1, <1>3
  <2>2. a \in T
    BY <1>9, <2>1
  <2>3. ASSUME NEW k \in a..(c - 1), k \in T PROVE k + 1 \in T
    <3>a. k \in 0..(n - 1) /\ k + 1 \in Nat /\ k \in (i + 3)..(c - 1)
      BY <1>1, <2>1, <2>c
    <3>1. k \in 0..(n - 1) /\ k + 1 \in Nat /\ A(k) = "space"
      BY <1>3, <3>a
    <3>2. W(k) = "key" \/ W(k) = "after key"
      BY <2>3
    <3>3. W(k) \in Outside
      BY <3>2 DEF Outside
    <3>4. W(k + 1) = Looks(W(k), "space")
      BY <1>6, <3>1, <3>3
    <3>5. W(k + 1) = "after key"
      BY <3>2, <3>4 DEF Looks
    <3> QED BY <3>1, <3>5
  <2> HIDE DEF T
  <2>4. \A k \in a..c : k \in T
    BY <2>2, <2>c, <2>3, IntervalInduction
  <2> QED BY <2>1, <2>4
<1>11. W(c + 1) = "colon"
  <2>1. c \in (i + 3)..c /\ c \in 0..(n - 1)
    BY <1>1, <1>3
  <2>2. W(c) = "key" \/ W(c) = "after key"
    BY <1>10, <2>1
  <2>3. W(c) \in Outside
    BY <2>2 DEF Outside
  <2>4. W(c + 1) = Looks(W(c), "colon")
    BY <1>3, <1>6, <2>1, <2>3
  <2> QED BY <2>2, <2>4 DEF Looks
<1>12. \A k \in (c + 1)..q : k \in U
  <2>1. PICK a \in Nat : a = c + 1
    BY <1>1, <1>3
  <2>2. a \in U /\ q \in Nat
    BY <1>1, <1>3, <1>11, <2>1
  <2>3. ASSUME NEW k \in a..(q - 1), k \in U PROVE k + 1 \in U
    <3>1. k \in 0..(n - 1) /\ k + 1 \in Nat /\ A(k) = "space"
      BY <1>1, <1>3, <2>1, <2>2
    <3>2. W(k) = "colon"
      BY <2>3
    <3>3. W(k) \in Outside
      BY <3>2 DEF Outside
    <3>4. W(k + 1) = Looks("colon", "space")
      BY <1>6, <3>1, <3>2, <3>3
    <3>5. W(k + 1) = "colon"
      BY <3>4 DEF Looks
    <3> QED BY <3>1, <3>5
  <2> HIDE DEF U
  <2>4. \A k \in a..q : k \in U
    BY <2>2, <2>3, IntervalInduction
  <2> QED BY <2>1, <2>4
<1>13. W(q + 1) = "value" /\ Since(buf, q + 1) = q + 1
  <2>1. q \in (c + 1)..q /\ q \in 0..(n - 1)
    BY <1>1, <1>3
  <2>2. W(q) = "colon"
    BY <1>12, <2>1
  <2>3. W(q) \in Outside
    BY <2>2 DEF Outside
  <2>4. W(q + 1) = Looks("colon", "quote")
    BY <1>3, <1>6, <2>1, <2>2, <2>3
  <2>5. W(q + 1) = "value"
    BY <2>4 DEF Looks
  <2> QED BY <1>6, <2>1, <2>3, <2>5
<1>14. ASSUME NEW k \in p..q PROVE W(k) \in Outside
  <2>1. k \in p..(i + 1) \/ k = i + 2 \/ k \in (i + 3)..c \/ k \in (c + 1)..q
    BY <1>1, <1>3
  <2>2. CASE k \in p..(i + 1)
    BY <1>5, <2>2
  <2>3. CASE k = i + 2
    BY <1>8, <2>3 DEF Outside
  <2>4. CASE k \in (i + 3)..c
    <3>1. W(k) = "key" \/ W(k) = "after key"
      BY <1>10, <2>4
    <3> QED BY <3>1 DEF Outside
  <2>5. CASE k \in (c + 1)..q
    <3>1. W(k) = "colon"
      BY <1>12, <2>5
    <3> QED BY <3>1 DEF Outside
  <2> QED BY <2>1, <2>2, <2>3, <2>4, <2>5
<1>15. q \in (i + 4)..(n - 1)
  BY <1>1, <1>3
<1> QED BY <1>13, <1>14, <1>15 DEF W, n

(* THE VALUE.  Which bytes of the string that begins at j are escaped. *)
HiddenEntry(buf, j, g, k) ==
  k >= j /\ k > 0 /\ ~g[k - 1] /\ k - 1 >= j /\ Wire!At(buf, k - 1) = "escape"

HiddenFrom(buf, j) ==
  LET hidden[k \in (j - 1)..Len(buf)] ==
        k >= j /\ k > 0 /\ ~hidden[k - 1] /\ k - 1 >= j /\ Wire!At(buf, k - 1) = "escape"
  IN  hidden

LEMMA SameTruth == \A a, b \in BOOLEAN : (a <=> b) => a = b
  BY Zenon

LEMMA HiddenExists ==
  ASSUME NEW buf \in Seq(Wire!WireByte), NEW j \in 1..Len(buf)
  PROVE  \E h : h = [k \in (j - 1)..Len(buf) |-> HiddenEntry(buf, j, h, k)]
<1> DEFINE n == Len(buf)
           m == n - (j - 1)
           E(k) == k - 1 >= j /\ Wire!At(buf, k - 1) = "escape"
           F == [i \in 1..m |-> [v \in BOOLEAN |-> ~v /\ E(i + (j - 1))]]
<1>1. n \in Nat /\ m \in Nat /\ j \in Nat /\ j >= 1 /\ m = n - (j - 1)
  OBVIOUS
<1>2. /\ F \in [1..m -> [BOOLEAN -> BOOLEAN]]
      /\ \A i \in 1..m, v \in BOOLEAN : F[i][v] = (~v /\ E(i + (j - 1)))
  <2> HIDE DEF E, m
  <2> QED BY Zenon
<1>e. \A k : E(k) <=> k - 1 >= j /\ Wire!At(buf, k - 1) = "escape"
  OBVIOUS
<1> HIDE DEF F, E, n, m
<1>3. PICK g \in [0..m -> BOOLEAN] : Iterates(g, FALSE, F, m)
  BY <1>1, <1>2, LoopExists
<1>4. ~g[0] /\ \A i \in 1..m : g[i] <=> ~g[i - 1] /\ E(i + (j - 1))
  <2>1. g[0] = FALSE /\ \A i \in 1..m : g[i] = F[i][g[i - 1]]
    BY <1>3, Zenon DEF Iterates
  <2>2. \A i \in 1..m : i - 1 \in 0..m
    BY <1>1
  <2>3. ASSUME NEW i \in 1..m PROVE g[i] <=> ~g[i - 1] /\ E(i + (j - 1))
    <3>1. g[i - 1] \in BOOLEAN
      BY <1>3, <2>2
    <3>2. F[i][g[i - 1]] = (~g[i - 1] /\ E(i + (j - 1)))
      BY <1>2, <3>1, Zenon
    <3>3. g[i] = (~g[i - 1] /\ E(i + (j - 1)))
      BY <2>1, <3>2, Zenon
    <3> QED BY <3>3, Zenon
  <2> QED BY <2>1, <2>3, Zenon
<1> DEFINE h == [k \in (j - 1)..n |-> g[k - (j - 1)]]
<1>5. ASSUME NEW k \in (j - 1)..n PROVE h[k] = HiddenEntry(buf, j, h, k)
  <2>1. k - (j - 1) \in 0..m /\ h[k] = g[k - (j - 1)]
    BY <1>1
  <2>2. h[k] \in BOOLEAN
    BY <1>3, <2>1, Zenon
  <2>3. CASE k = j - 1
    <3>1. k - (j - 1) = 0 /\ ~(k >= j)
      BY <1>1, <2>3
    <3>2. h[k] = g[0]
      BY <2>1, <3>1
    <3> HIDE DEF h
    <3> QED BY <1>4, <2>2, <3>1, <3>2, Zenon DEF HiddenEntry
  <2>4. CASE k # j - 1
    <3>1. /\ k \in Int /\ k - (j - 1) \in 1..m /\ (k - (j - 1)) - 1 = (k - 1) - (j - 1)
          /\ (k - (j - 1)) + (j - 1) = k /\ k - 1 \in (j - 1)..n /\ k >= j /\ k > 0
      BY <1>1, <2>4
    <3>2. h[k - 1] = g[(k - 1) - (j - 1)]
      BY <3>1
    <3> HIDE DEF h
    <3>3. PICK i \in 1..m : i = k - (j - 1)
      BY <3>1
    <3>4. i - 1 = (k - 1) - (j - 1) /\ i + (j - 1) = k
      BY <3>1, <3>3
    <3>5. g[i] <=> ~g[i - 1] /\ E(i + (j - 1))
      BY <1>4
    <3>6. h[k] <=> ~h[k - 1] /\ E(k)
      BY <2>1, <3>2, <3>3, <3>4, <3>5, Zenon
    <3>7. HiddenEntry(buf, j, h, k) <=> ~h[k - 1] /\ E(k)
      BY <1>e, <3>1, Zenon DEF HiddenEntry
    <3>8. HiddenEntry(buf, j, h, k) \in BOOLEAN
      BY Zenon DEF HiddenEntry
    <3>9. h[k] <=> HiddenEntry(buf, j, h, k)
      BY <3>6, <3>7, Zenon
    <3> QED BY <2>2, <3>8, <3>9, SameTruth, Zenon
  <2> QED BY <2>3, <2>4
<1>6. h = [k \in (j - 1)..n |-> HiddenEntry(buf, j, h, k)]
  <2>1. h = [k \in (j - 1)..n |-> h[k]]
    BY Zenon
  <2> HIDE DEF h
  <2> QED BY <1>5, <2>1, Zenon
<1> QED BY <1>6, Zenon DEF n

LEMMA HiddenTable ==
  ASSUME NEW buf \in Seq(Wire!WireByte), NEW j \in 1..Len(buf), NEW h, h = HiddenFrom(buf, j)
  PROVE  /\ ~h[j]
         /\ \A k \in j..(Len(buf) - 1) : h[k + 1] <=> ~h[k] /\ Wire!At(buf, k) = "escape"
<1>1. h = [k \in (j - 1)..Len(buf) |-> HiddenEntry(buf, j, h, k)]
  BY HiddenExists, Zenon DEF HiddenFrom, HiddenEntry
<1>2. Len(buf) \in Nat
  OBVIOUS
<1>3. \A k \in (j - 1)..Len(buf) : h[k] = HiddenEntry(buf, j, h, k)
  BY <1>1, Zenon
<1>4. ~h[j]
  <2>1. j \in (j - 1)..Len(buf) /\ ~(j - 1 >= j)
    BY <1>2
  <2> QED BY <1>3, <2>1, Zenon DEF HiddenEntry
<1>5. ASSUME NEW k \in j..(Len(buf) - 1) PROVE h[k + 1] <=> ~h[k] /\ Wire!At(buf, k) = "escape"
  <2>1. k + 1 \in (j - 1)..Len(buf) /\ (k + 1) - 1 = k /\ k + 1 >= j /\ k + 1 > 0 /\ k >= j
    BY <1>2
  <2>2. h[k + 1] = HiddenEntry(buf, j, h, k + 1)
    BY <1>3, <2>1, Zenon
  <2>3. HiddenEntry(buf, j, h, k + 1) <=> ~h[k] /\ Wire!At(buf, k) = "escape"
    BY <2>1, Zenon DEF HiddenEntry
  <2> QED BY <2>2, <2>3, Zenon
<1> QED BY <1>4, <1>5, Zenon

(* value_end is where the reference leaves the value. *)
LEMMA ValueEnds ==
  ASSUME NEW buf \in Seq(Wire!WireByte), NEW j \in 1..Len(buf),
         Where(buf, j) = "value", Since(buf, j) = j, NEW e, e = Wire!value_end(buf, j)
  PROVE  /\ e \in j..Len(buf)
         /\ \A k \in j..e : Where(buf, k) \in Inside /\ Since(buf, k) = j
         /\ e < Len(buf) => Where(buf, e + 1) = "none"
<1> DEFINE n == Len(buf)
           h == HiddenFrom(buf, j)
           Stop(v) == v < n => Wire!At(buf, v) = "quote" /\ ~h[v]
           Ends(v) == Stop(v) /\ \A k \in j..(v - 1) : Wire!At(buf, k) = "quote" => h[k]
<1>1. n \in Nat /\ j \in Nat /\ j <= n
  OBVIOUS
<1>2. e = CHOOSE v \in j..n : Ends(v)
  BY Zenon DEF Wire!value_end, HiddenFrom
<1>3. ~h[j] /\ \A k \in j..(n - 1) : h[k + 1] <=> ~h[k] /\ Wire!At(buf, k) = "escape"
  BY HiddenTable
<1> HIDE DEF h
<1>4. \E v \in j..n : Ends(v)
  <2> DEFINE T == {v \in j..n : Stop(v)}
  <2>1. n \in T /\ T \in SUBSET Nat
    BY <1>1
  <2>2. PICK v \in T : \A m \in T : v <= m
    BY <2>1, LeastNat
  <2>3. v \in j..n /\ Stop(v)
    OBVIOUS
  <2>4. ASSUME NEW k \in j..(v - 1), Wire!At(buf, k) = "quote" PROVE h[k]
    <3>1. k \in j..n /\ ~(v <= k)
      BY <1>1, <2>3
    <3>2. k \notin T
      BY <2>2, <3>1
    <3> QED BY <2>4, <3>1, <3>2, Zenon
  <2> QED BY <2>3, <2>4
<1>5. e \in j..n /\ Ends(e)
  <2> HIDE DEF Ends
  <2> QED BY <1>2, <1>4
<1>6. \A k \in j..(e - 1) : Wire!At(buf, k) = "quote" => h[k]
  BY <1>5
<1> DEFINE T == {k \in Nat : Where(buf, k) = (IF h[k] THEN "hidden" ELSE "value")
                             /\ Since(buf, k) = j}
<1>7. \A k \in j..e : k \in T
  <2>1. j \in T
    BY <1>1, <1>3
  <2>2. ASSUME NEW k \in j..(e - 1), k \in T PROVE k + 1 \in T
    <3>1. k \in 0..(n - 1) /\ k \in j..(n - 1) /\ k \in Nat /\ k + 1 \in Nat
      BY <1>1, <1>5
    <3>2. h[k + 1] <=> ~h[k] /\ Wire!At(buf, k) = "escape"
      BY <1>3, <3>1
    <3>3. Since(buf, k) = j
      BY <2>2
    <3>4. CASE h[k]
      <4>1. Where(buf, k) = "hidden" /\ ~h[k + 1]
        BY <2>2, <3>2, <3>4
      <4>2. Where(buf, k + 1) = "value" /\ Since(buf, k + 1) = j
        BY <3>1, <3>3, <4>1, WhereMoves
      <4> QED BY <3>1, <4>1, <4>2
    <3>5. CASE ~h[k]
      <4>1. Where(buf, k) = "value" /\ Wire!At(buf, k) # "quote"
        BY <1>6, <2>2, <3>5
      <4>2. Since(buf, k + 1) = j
        BY <3>1, <3>3, <4>1, WhereMoves
      <4>3. CASE Wire!At(buf, k) = "escape"
        <5>1. Where(buf, k + 1) = "hidden"
          BY <3>1, <4>1, <4>3, WhereMoves
        <5>2. h[k + 1]
          BY <3>2, <3>5, <4>3
        <5> QED BY <3>1, <4>2, <5>1, <5>2
      <4>4. CASE Wire!At(buf, k) # "escape"
        <5>1. Where(buf, k + 1) = "value"
          BY <3>1, <4>1, <4>4, WhereMoves
        <5>2. ~h[k + 1]
          BY <3>2, <4>4
        <5> QED BY <3>1, <4>2, <5>1, <5>2
      <4> QED BY <4>3, <4>4
    <3> QED BY <3>4, <3>5
  <2>3. e \in Nat
    BY <1>1, <1>5
  <2> HIDE DEF T
  <2> QED BY <1>1, <2>1, <2>2, <2>3, IntervalInduction
<1>8. ASSUME NEW k \in j..e PROVE Where(buf, k) \in Inside /\ Since(buf, k) = j
  BY <1>7 DEF Inside
<1>9. ASSUME e < n PROVE Where(buf, e + 1) = "none"
  <2>1. Wire!At(buf, e) = "quote" /\ ~h[e]
    BY <1>5, <1>9
  <2>2. e \in j..e /\ e \in 0..(n - 1)
    BY <1>1, <1>5, <1>9
  <2>3. Where(buf, e) = "value"
    BY <1>7, <2>1, <2>2
  <2> QED BY <2>1, <2>2, <2>3, WhereMoves
<1> QED BY <1>5, <1>8, <1>9

(***************************************************************************)
(* THE CURSOR.  A byte is secret if the reference is inside a value before *)
(* and behind it.  The cursor stands where the reference is outside any    *)
(* key, or at the end, and what it holds is the secret part before there.  *)
(***************************************************************************)
Secret(buf, o) == Where(buf, o) \in Inside /\ Where(buf, o + 1) \in Inside

CursorState == [next : Nat, start : Nat, end : Nat, have : BOOLEAN]

Holds(r, o) == r.have /\ o \in r.start..(r.end - 1)

CursorOK(buf, r) ==
  /\ r \in CursorState
  /\ r.next \in 0..Len(buf)
  /\ r.next = Len(buf) \/ Where(buf, r.next) = "none"
  /\ r.have => /\ r.start <= r.end /\ r.end <= r.next
               /\ \A o \in r.start..(r.end - 1) : Since(buf, o) = r.start

(* What is secret from lo to where the cursor stands is what it holds. *)
Covers(buf, r, lo) == \A o \in lo..(r.next - 1) : Secret(buf, o) <=> Holds(r, o)

LEMMA NextFinds ==
  ASSUME NEW buf \in Seq(Wire!WireByte), NEW r, CursorOK(buf, r), ~r.have,
         NEW s, s = Wire!redactor_next(buf, r)
  PROVE  /\ CursorOK(buf, s) /\ Covers(buf, s, r.next)
         /\ s.next >= r.next
         /\ s.have => s.next > r.next /\ s.start >= r.next
         /\ ~s.have => s.next = Len(buf)
<1> DEFINE n == Len(buf)
           p == r.next
           found == {i \in p..(n - 1) : Wire!Matches(buf, i)}
<1>1. n \in Nat /\ p \in Nat /\ p \in 0..n /\ (p = n \/ Where(buf, p) = "none") /\ r \in CursorState
  BY DEF CursorOK
<1>n. n = Len(buf) /\ p = r.next
  OBVIOUS
<1>2. CASE found = {}
  <2>1. s = [r EXCEPT !.have = FALSE, !.next = Len(buf)]
    BY <1>2 DEF Wire!redactor_next
  <2>2. s \in CursorState /\ ~s.have /\ s.next = n
    BY <1>1, <2>1 DEF CursorState
  <2>3. ASSUME NEW o \in p..(n - 1) PROVE ~Secret(buf, o)
    <3>1. Where(buf, p) = "none"
      BY <1>1
    <3>2. \A i \in p..(n - 5) : ~Wire!Matches(buf, i)
      <4>1. \A i \in p..(n - 5) : i \in p..(n - 1)
        BY <1>1
      <4> QED BY <1>2, <4>1
    <3>3. n \in p..Len(buf)
      BY <1>1
    <3>4. Behind(buf, p, o)
      <4>1. o \in p..n
        BY <1>1
      <4>2. PICK m \in p..Len(buf) : m = n
        BY <3>3
      <4>3. \A k \in p..m : Behind(buf, p, k)
        BY <1>1, <3>1, <3>2, <4>2, NothingFound
      <4> QED BY <4>1, <4>2, <4>3
    <3> QED BY <3>4 DEF Behind, Secret, Outside, Inside
  <2> HIDE DEF n, p
  <2>4. CursorOK(buf, s)
    BY <1>1, <1>n, <2>2 DEF CursorOK
  <2>5. Covers(buf, s, p)
    BY <2>2, <2>3 DEF Covers, Holds
  <2> QED BY <1>1, <1>n, <2>2, <2>4, <2>5
<1>3. CASE found # {}
  <2> DEFINE i == CHOOSE x \in found : \A y \in found : x <= y
             q == Wire!QuoteFor(buf, i)
             a == q + 1
             e == Wire!value_end(buf, a)
  <2>1. i \in found /\ \A y \in found : i <= y
    <3>1. found \in SUBSET Nat
      BY <1>1
    <3>2. \E x \in found : \A y \in found : x <= y
      <4> HIDE DEF found
      <4> QED BY <1>3, <3>1, LeastNat
    <3> QED BY <3>2
  <2>2. s = [start |-> a, end |-> e, have |-> TRUE, next |-> IF e < n THEN e + 1 ELSE n]
    BY <1>3 DEF Wire!redactor_next
  <2>3. i \in p..(n - 1) /\ Wire!Matches(buf, i) /\ Where(buf, p) = "none"
    BY <1>1, <2>1
  <2>4. \A j \in p..(i - 1) : ~Wire!Matches(buf, j)
    <3> SUFFICES ASSUME NEW j \in p..(i - 1), Wire!Matches(buf, j) PROVE FALSE
      OBVIOUS
    <3>1. j \in p..(n - 1) /\ ~(i <= j)
      BY <1>1, <2>3
    <3> QED BY <2>1, <3>1
  <2> HIDE DEF i
  <2>5. /\ q \in (i + 4)..(n - 1)
        /\ \A k \in p..q : Where(buf, k) \in Outside
        /\ Where(buf, q + 1) = "value" /\ Since(buf, q + 1) = q + 1
    <3>1. PICK x \in 0..Len(buf) : x = p
      BY <1>1
    <3>2. PICK j \in x..(Len(buf) - 1) : j = i
      BY <2>3, <3>1
    <3>3. Where(buf, x) = "none" /\ Wire!Matches(buf, j) /\ q = Wire!QuoteFor(buf, j)
      BY <2>3, <3>1, <3>2
    <3>4. \A y \in x..(j - 1) : ~Wire!Matches(buf, y)
      BY <2>4, <3>1, <3>2
    <3> HIDE DEF p, q, n
    <3>5. /\ q \in (j + 4)..(Len(buf) - 1)
          /\ \A k \in x..q : Where(buf, k) \in Outside
          /\ Where(buf, q + 1) = "value" /\ Since(buf, q + 1) = q + 1
      BY <3>3, <3>4, FirstMatch
    <3> QED BY <3>1, <3>2, <3>5 DEF n
  <2> HIDE DEF q, found
  <2>6. a \in 1..n /\ a \in Nat /\ a > p
    BY <1>1, <2>3, <2>5
  <2>7. /\ e \in a..n
        /\ \A k \in a..e : Where(buf, k) \in Inside /\ Since(buf, k) = a
        /\ e < n => Where(buf, e + 1) = "none"
    <3>1. PICK x \in 1..Len(buf) : x = a
      BY <2>6
    <3>2. Where(buf, x) = "value" /\ Since(buf, x) = x /\ e = Wire!value_end(buf, x)
      BY <2>5, <3>1
    <3> HIDE DEF a, e, n
    <3>3. /\ e \in x..Len(buf)
          /\ \A k \in x..e : Where(buf, k) \in Inside /\ Since(buf, k) = x
          /\ e < Len(buf) => Where(buf, e + 1) = "none"
      BY <3>2, ValueEnds
    <3> QED BY <3>1, <3>3 DEF n
  <2>a. \A k \in p..(a - 1) : Where(buf, k) \in Outside
    BY <1>1, <2>5, <2>6
  <2> HIDE DEF a, e
  <2>8. e \in Nat /\ e <= n /\ a <= e
    BY <1>1, <2>6, <2>7
  <2> DEFINE m == IF e < n THEN e + 1 ELSE n
  <2>9. m \in 0..n /\ m \in Nat /\ e <= m /\ m > p /\ m <= e + 1 /\ (m = n \/ (m = e + 1 /\ e < n))
    BY <1>1, <2>6, <2>8
  <2>m. s = [start |-> a, end |-> e, have |-> TRUE, next |-> m]
    BY <2>2
  <2> HIDE DEF n, p, m
  <2>10. s.start = a /\ s.end = e /\ s.next = m /\ s.have /\ s \in CursorState
    BY <2>6, <2>8, <2>9, <2>m DEF CursorState
  <2>11. CursorOK(buf, s)
    <3>1. s.next \in 0..Len(buf) /\ (s.next = Len(buf) \/ Where(buf, s.next) = "none")
      BY <1>n, <2>7, <2>9, <2>10
    <3>2. \A o \in a..(e - 1) : Since(buf, o) = a
      <4>1. \A o \in a..(e - 1) : o \in a..e
        BY <2>6, <2>8
      <4> QED BY <2>7, <4>1
    <3> QED BY <2>8, <2>9, <2>10, <3>1, <3>2 DEF CursorOK
  <2>12. ASSUME NEW o \in p..(m - 1) PROVE Secret(buf, o) <=> o \in a..(e - 1)
    <3>1. CASE o < a
      <4>1. o \in p..(a - 1) /\ o \notin a..(e - 1)
        BY <1>1, <2>6, <2>8, <2>9, <3>1
      <4>2. Where(buf, o) \in Outside
        BY <2>a, <4>1
      <4> QED BY <4>1, <4>2 DEF Secret, Outside, Inside
    <3>2. CASE o >= a /\ o < e
      <4>1. o \in a..e /\ o + 1 \in a..e /\ o \in a..(e - 1)
        BY <1>1, <2>6, <2>8, <2>9, <3>2
      <4> QED BY <2>7, <4>1 DEF Secret
    <3>3. CASE o >= e
      <4>1. o = e /\ e < n /\ o \notin a..(e - 1)
        BY <1>1, <2>6, <2>8, <2>9, <3>3
      <4>2. Where(buf, o + 1) = "none"
        BY <2>7, <4>1
      <4> QED BY <4>1, <4>2 DEF Secret, Inside
    <3> QED BY <1>1, <2>6, <2>8, <2>9, <3>1, <3>2, <3>3
  <2>13. Covers(buf, s, p)
    BY <2>10, <2>12 DEF Covers, Holds
  <2>14. s.next >= r.next /\ s.next > r.next /\ s.start >= r.next
    BY <1>1, <1>n, <2>6, <2>9, <2>10
  <2> QED BY <1>n, <2>10, <2>11, <2>13, <2>14
<1> QED BY <1>2, <1>3

(***************************************************************************)
(* THE LOOP over one chunk [off, end): what is masked so far and what the  *)
(* cursor holds is what is secret before where the cursor stands.          *)
(***************************************************************************)
Noted(buf, o, masked) == <<o, Since(buf, o)>> \in masked

PassState == [r : CursorState, masked : SUBSET (Nat \X Nat), done : BOOLEAN]

PassOK(buf, off, end, p) ==
  /\ p \in PassState
  /\ CursorOK(buf, p.r)
  /\ \A m \in p.masked : \E o \in off..(end - 1) : m = <<o, Since(buf, o)>> /\ Secret(buf, o)
  /\ \A o \in off..(p.r.next - 1) : Secret(buf, o) <=> Holds(p.r, o) \/ Noted(buf, o, p.masked)
  /\ p.done => \A o \in off..(end - 1) : Secret(buf, o) => Noted(buf, o, p.masked)

(* A pass that does not return leaves a value behind. *)
Advances(p, p2) ==
  p2.done \/ (~p2.r.have /\ p2.r.next >= p.r.next /\ (~p.r.have => p2.r.next > p.r.next))

LEMMA CursorParts ==
  ASSUME NEW buf, NEW r, CursorOK(buf, r)
  PROVE  r.next \in Nat /\ r.start \in Nat /\ r.end \in Nat /\ r.have \in BOOLEAN
  BY DEF CursorOK, CursorState

(* Letting go of the value the cursor holds. *)
LEMMA CursorDrops ==
  ASSUME NEW buf, NEW r, CursorOK(buf, r), NEW v \in BOOLEAN, v => r.have,
         NEW s, s = [r EXCEPT !.have = v]
  PROVE  /\ CursorOK(buf, s)
         /\ s.next = r.next /\ s.start = r.start /\ s.end = r.end /\ s.have = v
<1>1. s \in CursorState /\ s.next = r.next /\ s.start = r.start /\ s.end = r.end /\ s.have = v
  BY DEF CursorOK, CursorState
<1> QED BY <1>1 DEF CursorOK

(* The cursor a pass works with. *)
LEMMA PassCursor ==
  ASSUME NEW buf \in Seq(Wire!WireByte), NEW off \in Nat, NEW end \in Nat, NEW p,
         PassOK(buf, off, end, p),
         NEW r, r = IF p.r.have THEN p.r ELSE Wire!redactor_next(buf, p.r)
  PROVE  /\ CursorOK(buf, r)
         /\ \A o \in off..(r.next - 1) : Secret(buf, o) <=> Holds(r, o) \/ Noted(buf, o, p.masked)
         /\ r.next >= p.r.next
         /\ r.have /\ ~p.r.have => r.next > p.r.next
         /\ ~r.have => r.next = Len(buf)
<1>1. CursorOK(buf, p.r) /\ p.r.next \in Nat
  BY CursorParts DEF PassOK
<1>2. \A o \in off..(p.r.next - 1) : Secret(buf, o) <=> Holds(p.r, o) \/ Noted(buf, o, p.masked)
  BY DEF PassOK
<1>3. CASE p.r.have
  <2>1. r = p.r
    BY <1>3
  <2> QED BY <1>1, <1>2, <1>3, <2>1
<1>4. CASE ~p.r.have
  <2>1. PICK t : t = p.r
    OBVIOUS
  <2>2. CursorOK(buf, t) /\ ~t.have /\ r = Wire!redactor_next(buf, t)
    BY <1>1, <1>4, <2>1
  <2>3. /\ CursorOK(buf, r) /\ Covers(buf, r, t.next)
        /\ r.next >= t.next
        /\ r.have => r.next > t.next /\ r.start >= t.next
        /\ ~r.have => r.next = Len(buf)
    BY <2>2, NextFinds
  <2>4. r.next \in Nat /\ r.start \in Nat /\ t.next \in Nat
    BY <2>2, <2>3, CursorParts
  <2>5. ASSUME NEW o \in off..(r.next - 1)
        PROVE  Secret(buf, o) <=> Holds(r, o) \/ Noted(buf, o, p.masked)
    <3>1. CASE o < t.next
      <4>1. o \in off..(p.r.next - 1)
        BY <2>1, <2>4, <3>1
      <4>2. ~Holds(p.r, o)
        BY <1>4 DEF Holds
      <4>3. ~Holds(r, o)
        <5> SUFFICES ASSUME r.have, o \in r.start..(r.end - 1) PROVE FALSE
          BY DEF Holds
        <5>1. r.start >= t.next /\ o >= r.start
          BY <2>3
        <5> QED BY <2>4, <3>1, <5>1
      <4> QED BY <1>2, <4>1, <4>2, <4>3
    <3>2. CASE o >= t.next
      <4>1. o \in t.next..(r.next - 1)
        BY <2>4, <3>2
      <4>2. Secret(buf, o) <=> Holds(r, o)
        BY <2>3, <4>1 DEF Covers
      <4>3. Noted(buf, o, p.masked) => Secret(buf, o)
        <5> SUFFICES ASSUME Noted(buf, o, p.masked) PROVE Secret(buf, o)
          OBVIOUS
        <5>1. PICK x \in off..(end - 1) : <<o, Since(buf, o)>> = <<x, Since(buf, x)>> /\ Secret(buf, x)
          BY DEF PassOK, Noted
        <5>2. x = o
          BY <5>1
        <5> QED BY <5>1, <5>2
      <4> QED BY <4>2, <4>3
    <3> QED BY <2>4, <3>1, <3>2
  <2> QED BY <2>1, <2>3, <2>5, <1>4
<1> QED BY <1>3, <1>4

LEMMA PassStep ==
  ASSUME NEW buf \in Seq(Wire!WireByte), NEW off \in Nat, NEW end \in Nat,
         off < end, end <= Len(buf), NEW p, PassOK(buf, off, end, p),
         NEW p2, p2 = Wire!redactor_pass(buf, p, off, end)
  PROVE  PassOK(buf, off, end, p2) /\ (~p.done => Advances(p, p2))
<1> DEFINE r == IF p.r.have THEN p.r ELSE Wire!redactor_next(buf, p.r)
           a == IF r.start > off THEN r.start ELSE off
           b == IF r.end < end THEN r.end ELSE end
<1>1. p2 = IF p.done THEN p
           ELSE IF ~r.have THEN [p EXCEPT !.r = r, !.done = TRUE]
           ELSE IF r.end <= off THEN [p EXCEPT !.r = [r EXCEPT !.have = FALSE]]
           ELSE IF r.start >= end THEN [p EXCEPT !.r = r, !.done = TRUE]
           ELSE [r      |-> [r EXCEPT !.have = Wire!straddles(r, end)],
                 masked |-> p.masked \cup {<<k, r.start>> : k \in a..(b - 1)},
                 done   |-> Wire!straddles(r, end)]
  BY DEF Wire!redactor_pass
<1>2. /\ CursorOK(buf, r)
      /\ \A o \in off..(r.next - 1) : Secret(buf, o) <=> Holds(r, o) \/ Noted(buf, o, p.masked)
      /\ r.next >= p.r.next
      /\ r.have /\ ~p.r.have => r.next > p.r.next
      /\ ~r.have => r.next = Len(buf)
  BY PassCursor
<1> HIDE DEF r
<1>3. /\ r.next \in Nat /\ r.start \in Nat /\ r.end \in Nat /\ r.have \in BOOLEAN
      /\ r.have => r.start <= r.end /\ r.end <= r.next
      /\ r \in CursorState
  BY <1>2, CursorParts DEF CursorOK
<1>4. /\ p \in PassState /\ p.masked \in SUBSET (Nat \X Nat) /\ Len(buf) \in Nat
      /\ \A m \in p.masked : \E o \in off..(end - 1) : m = <<o, Since(buf, o)>> /\ Secret(buf, o)
  BY DEF PassOK, PassState
<1>5. CASE p.done
  BY <1>1, <1>5
<1>6. CASE ~p.done /\ ~r.have
  <2>1. p2 = [p EXCEPT !.r = r, !.done = TRUE]
    BY <1>1, <1>6
  <2>2. p2 \in PassState /\ p2.r = r /\ p2.done /\ p2.masked = p.masked
    BY <1>3, <1>4, <2>1 DEF PassState
  <2>3. ASSUME NEW o \in off..(end - 1), Secret(buf, o) PROVE Noted(buf, o, p.masked)
    <3>1. o \in off..(r.next - 1)
      BY <1>2, <1>4, <1>6
    <3> QED BY <1>2, <1>6, <2>3, <3>1 DEF Holds
  <2> QED BY <1>2, <1>4, <2>2, <2>3 DEF PassOK, Advances
<1>7. CASE ~p.done /\ r.have /\ r.end <= off
  <2> DEFINE s == [r EXCEPT !.have = FALSE]
  <2>1. p2 = [p EXCEPT !.r = s]
    BY <1>1, <1>7
  <2>2. CursorOK(buf, s) /\ s.next = r.next /\ ~s.have /\ s \in CursorState
    <3>1. PICK v \in BOOLEAN : v = FALSE
      OBVIOUS
    <3>2. s = [r EXCEPT !.have = v] /\ (v => r.have)
      BY <3>1
    <3> HIDE DEF s
    <3>3. CursorOK(buf, s) /\ s.next = r.next /\ s.have = v
      BY <1>2, <3>2, CursorDrops
    <3> QED BY <3>1, <3>3 DEF CursorOK
  <2> HIDE DEF s
  <2>3. p2 \in PassState /\ p2.r = s /\ ~p2.done /\ p2.masked = p.masked
    BY <1>4, <1>7, <2>1, <2>2 DEF PassState
  <2>4. ASSUME NEW o \in off..(s.next - 1)
        PROVE  Secret(buf, o) <=> Holds(s, o) \/ Noted(buf, o, p.masked)
    <3>1. o \in off..(r.next - 1)
      BY <2>2
    <3>2. ~Holds(s, o)
      BY <2>2 DEF Holds
    <3>3. o \notin r.start..(r.end - 1)
      BY <1>3, <1>7
    <3>4. ~Holds(r, o)
      BY <3>3 DEF Holds
    <3> QED BY <1>2, <3>1, <3>2, <3>4
  <2> QED BY <1>2, <1>4, <1>7, <2>2, <2>3, <2>4 DEF PassOK, Advances
<1>8. CASE ~p.done /\ r.have /\ ~(r.end <= off) /\ r.start >= end
  <2>1. p2 = [p EXCEPT !.r = r, !.done = TRUE]
    BY <1>1, <1>8
  <2>2. p2 \in PassState /\ p2.r = r /\ p2.done /\ p2.masked = p.masked
    BY <1>3, <1>4, <2>1 DEF PassState
  <2>3. ASSUME NEW o \in off..(end - 1), Secret(buf, o) PROVE Noted(buf, o, p.masked)
    <3>1. o \in off..(r.next - 1) /\ o \notin r.start..(r.end - 1)
      BY <1>3, <1>8
    <3>2. ~Holds(r, o)
      BY <3>1 DEF Holds
    <3> QED BY <1>2, <2>3, <3>1, <3>2
  <2> QED BY <1>2, <1>4, <2>2, <2>3 DEF PassOK, Advances
<1>9. CASE ~p.done /\ r.have /\ ~(r.end <= off) /\ ~(r.start >= end)
  <2> DEFINE v == Wire!straddles(r, end)
             s == [r EXCEPT !.have = v]
             new == {<<k, r.start>> : k \in a..(b - 1)}
             masked == p.masked \cup new
  <2>1. p2 = [r |-> s, masked |-> masked, done |-> v]
    BY <1>1, <1>9
  <2>2. v \in BOOLEAN /\ (v <=> r.end > end)
    BY DEF Wire!straddles
  <2> HIDE DEF v
  <2>3. CursorOK(buf, s) /\ s.next = r.next /\ s.start = r.start /\ s.end = r.end /\ s.have = v
        /\ s \in CursorState
    <3>1. (v => r.have) /\ s = [r EXCEPT !.have = v]
      BY <1>9
    <3> HIDE DEF s
    <3>2. CursorOK(buf, s) /\ s.next = r.next /\ s.start = r.start /\ s.end = r.end /\ s.have = v
      BY <1>2, <2>2, <3>1, CursorDrops
    <3> QED BY <3>2 DEF CursorOK
  <2> HIDE DEF s
  <2>4. a \in Nat /\ b \in Nat /\ a >= off /\ a >= r.start /\ (a = off \/ a = r.start)
        /\ b <= end /\ b <= r.end /\ (b = end \/ b = r.end) /\ r.end <= r.next
    BY <1>3, <1>9
  <2> HIDE DEF a, b
  <2>5. ASSUME NEW k \in a..(b - 1)
        PROVE  /\ k \in off..(end - 1) /\ k \in off..(r.next - 1) /\ k \in r.start..(r.end - 1)
               /\ Since(buf, k) = r.start /\ Secret(buf, k)
    <3>1. k \in off..(end - 1) /\ k \in off..(r.next - 1) /\ k \in r.start..(r.end - 1)
      BY <1>3, <2>4
    <3>2. Since(buf, k) = r.start
      BY <1>2, <1>9, <3>1 DEF CursorOK
    <3>3. Holds(r, k)
      BY <1>9, <3>1 DEF Holds
    <3> QED BY <1>2, <3>1, <3>2, <3>3
  <2>6. new \in SUBSET (Nat \X Nat)
    BY <1>3, <2>4
  <2>7. p2 \in PassState /\ p2.r = s /\ p2.done = v /\ p2.masked = masked
    <3>1. masked \in SUBSET (Nat \X Nat)
      BY <1>4, <2>6
    <3> HIDE DEF masked
    <3> QED BY <2>1, <2>2, <2>3, <3>1 DEF PassState
  <2>8. ASSUME NEW m \in masked
        PROVE  \E o \in off..(end - 1) : m = <<o, Since(buf, o)>> /\ Secret(buf, o)
    <3>1. CASE m \in p.masked
      BY <1>4, <3>1
    <3>2. CASE m \in new
      <4>1. PICK k \in a..(b - 1) : m = <<k, r.start>>
        BY <3>2
      <4>2. k \in off..(end - 1) /\ Since(buf, k) = r.start /\ Secret(buf, k)
        BY <2>5
      <4> QED BY <4>1, <4>2
    <3> QED BY <3>1, <3>2
  <2>9. ASSUME NEW o, Noted(buf, o, p.masked) PROVE Noted(buf, o, masked)
    BY <2>9 DEF Noted
  <2>10. ASSUME NEW o \in a..(b - 1) PROVE Noted(buf, o, masked)
    <3>1. <<o, r.start>> \in new /\ Since(buf, o) = r.start
      BY <2>5
    <3> QED BY <3>1 DEF Noted
  <2>11. ASSUME NEW o \in off..(s.next - 1)
         PROVE  Secret(buf, o) <=> Holds(s, o) \/ Noted(buf, o, masked)
    <3>1. o \in off..(r.next - 1)
      BY <2>3
    <3>2. Secret(buf, o) <=> Holds(r, o) \/ Noted(buf, o, p.masked)
      BY <1>2, <3>1
    <3>3. ASSUME Secret(buf, o) PROVE Holds(s, o) \/ Noted(buf, o, masked)
      <4>1. CASE Noted(buf, o, p.masked)
        BY <2>9, <4>1
      <4>2. CASE Holds(r, o)
        <5>1. o \in r.start..(r.end - 1)
          BY <4>2 DEF Holds
        <5>2. CASE v
          <6>1. Holds(s, o)
            BY <2>3, <5>1, <5>2 DEF Holds
          <6> QED BY <6>1
        <5>3. CASE ~v
          <6>1. ~(r.end > end)
            BY <2>2, <5>3
          <6>2. o \in a..(b - 1)
            BY <1>3, <2>4, <3>1, <5>1, <6>1
          <6> QED BY <2>10, <6>2
        <5> QED BY <5>2, <5>3
      <4> QED BY <3>2, <3>3, <4>1, <4>2
    <3>4. ASSUME Holds(s, o) PROVE Secret(buf, o)
      <4>1. Holds(r, o)
        BY <1>9, <2>3, <3>4 DEF Holds
      <4> QED BY <3>2, <4>1
    <3>5. ASSUME Noted(buf, o, masked) PROVE Secret(buf, o)
      <4> HIDE DEF masked
      <4>1. PICK x \in off..(end - 1) : <<o, Since(buf, o)>> = <<x, Since(buf, x)>> /\ Secret(buf, x)
        BY <2>8, <3>5 DEF Noted
      <4>2. x = o
        BY <4>1
      <4> QED BY <4>1, <4>2
    <3> QED BY <3>3, <3>4, <3>5
  <2>12. ASSUME v, NEW o \in off..(end - 1), Secret(buf, o) PROVE Noted(buf, o, masked)
    <3>1. r.end > end /\ o \in off..(r.next - 1)
      BY <1>3, <2>2, <2>4, <2>12
    <3>2. Holds(r, o) \/ Noted(buf, o, p.masked)
      BY <1>2, <2>12, <3>1
    <3>3. CASE Holds(r, o)
      <4>1. o \in r.start..(r.end - 1)
        BY <3>3 DEF Holds
      <4>2. o \in a..(b - 1)
        BY <1>3, <2>4, <3>1, <4>1
      <4> QED BY <2>10, <4>2
    <3>4. CASE Noted(buf, o, p.masked)
      BY <2>9, <3>4
    <3> QED BY <3>2, <3>3, <3>4
  <2> HIDE DEF masked, new
  <2>13. PassOK(buf, off, end, p2)
    BY <2>3, <2>7, <2>8, <2>11, <2>12 DEF PassOK
  <2>14. Advances(p, p2)
    BY <1>2, <1>9, <2>2, <2>3, <2>7 DEF Advances
  <2> QED BY <2>13, <2>14
<1> QED BY <1>5, <1>6, <1>7, <1>8, <1>9

PassEntry(buf, r, off, end, g, k) ==
  IF k = 0 THEN [r |-> r, masked |-> {}, done |-> FALSE]
  ELSE Wire!redactor_pass(buf, g[k - 1], off, end)

(* redactor_apply masks the secret part of the chunk, and the cursor it    *)
(* leaves covers what follows.                                             *)
LEMMA ApplyMasks ==
  ASSUME NEW buf \in Seq(Wire!WireByte), NEW off \in Nat, NEW n \in Nat,
         n > 0, off + n <= Len(buf), NEW r, CursorOK(buf, r), Covers(buf, r, off),
         NEW cut, cut = Wire!redactor_apply(buf, r, off, n)
  PROVE  /\ CursorOK(buf, cut.r) /\ Covers(buf, cut.r, off + n)
         /\ \A m \in cut.masked :
              \E o \in off..(off + n - 1) : m = <<o, Since(buf, o)>> /\ Secret(buf, o)
         /\ \A o \in off..(off + n - 1) : Secret(buf, o) => Noted(buf, o, cut.masked)
<1> DEFINE N == Len(buf)
           end == off + n
           M == N + 1
           first == [r |-> r, masked |-> {}, done |-> FALSE]
           V == {p \in PassState : PassOK(buf, off, end, p)}
           F == [k \in 1..M |-> [p \in V |-> Wire!redactor_pass(buf, p, off, end)]]
<1>1. N \in Nat /\ M \in Nat /\ M = N + 1 /\ end \in Nat /\ off < end /\ end <= N /\ N = Len(buf)
      /\ end = off + n
  OBVIOUS
<1>2. first \in V
  <2>1. first \in PassState /\ first.r = r /\ first.masked = {} /\ ~first.done
    BY DEF PassState, CursorOK
  <2>2. ASSUME NEW o \in off..(r.next - 1)
        PROVE  Secret(buf, o) <=> Holds(r, o) \/ Noted(buf, o, {})
    <3>1. Secret(buf, o) <=> Holds(r, o)
      BY DEF Covers
    <3>2. ~Noted(buf, o, {})
      BY DEF Noted
    <3> QED BY <3>1, <3>2
  <2> HIDE DEF first
  <2>3. PassOK(buf, off, end, first)
    BY <2>1, <2>2 DEF PassOK
  <2> QED BY <2>1, <2>3
<1>f. first.r = r /\ ~first.done
  OBVIOUS
<1> HIDE DEF end, N, M
<1>3. ASSUME NEW p \in V
      PROVE  /\ Wire!redactor_pass(buf, p, off, end) \in V
             /\ ~p.done => Advances(p, Wire!redactor_pass(buf, p, off, end))
  <2>1. PICK x : x = Wire!redactor_pass(buf, p, off, end)
    OBVIOUS
  <2>2. PassOK(buf, off, end, p)
    OBVIOUS
  <2>3. PassOK(buf, off, end, x) /\ (~p.done => Advances(p, x))
    BY <1>1, <2>1, <2>2, PassStep
  <2>4. x \in V
    BY <2>3 DEF PassOK
  <2> QED BY <2>1, <2>3, <2>4
<1>v. \A p \in V : PassOK(buf, off, end, p)
  OBVIOUS
<1> HIDE DEF V
<1>4. /\ F \in [1..M -> [V -> V]]
      /\ \A k \in 1..M, p \in V : F[k][p] = Wire!redactor_pass(buf, p, off, end)
  BY <1>3
<1> HIDE DEF F, first
<1>5. PICK g \in [0..M -> V] : Iterates(g, first, F, M)
  <2>1. M \in Nat
    BY <1>1
  <2>2. F \in [1..M -> [V -> V]]
    BY <1>4
  <2> QED BY <1>2, <2>1, <2>2, LoopExists
<1>6. ASSUME NEW k \in 0..M PROVE g[k] = PassEntry(buf, r, off, end, g, k)
  <2>1. CASE k = 0
    BY <1>5, <2>1 DEF PassEntry, Iterates, first
  <2>2. CASE k # 0
    <3>1. k \in 1..M /\ k - 1 \in 0..M
      BY <1>1, <2>2
    <3>2. g[k - 1] \in V
      BY <1>5, <3>1
    <3> QED BY <1>4, <1>5, <2>2, <3>1, <3>2 DEF PassEntry, Iterates
  <2> QED BY <2>1, <2>2
<1>7. g = [k \in 0..M |-> PassEntry(buf, r, off, end, g, k)]
  BY <1>5, <1>6
<1> DEFINE pass[k \in 0..(Len(buf) + 1)] ==
             IF k = 0 THEN [r |-> r, masked |-> {}, done |-> FALSE]
             ELSE Wire!redactor_pass(buf, pass[k - 1], off, off + n)
<1>8. cut = pass[Len(buf) + 1]
  BY Zenon DEF Wire!redactor_apply
<1>9. pass = [k \in 0..M |-> PassEntry(buf, r, off, end, pass, k)]
  BY <1>7, Zenon DEF PassEntry, M, N, end
<1> HIDE DEF pass
<1>10. pass[0] = first /\ \A k \in 1..M : pass[k] = Wire!redactor_pass(buf, pass[k - 1], off, end)
  <2>1. 0 \in 0..M /\ \A k \in 1..M : k \in 0..M /\ k # 0
    BY <1>1
  <2>2. \A k \in 0..M : pass[k] = PassEntry(buf, r, off, end, pass, k)
    BY <1>9
  <2> QED BY <2>1, <2>2 DEF PassEntry, first
<1> DEFINE T == {k \in Nat : k <= M =>
                   /\ pass[k] \in V
                   /\ k > 0 => pass[k].done \/ (~pass[k].r.have /\ pass[k].r.next >= k - 1)}
<1>11. 0 \in T
  BY <1>2, <1>10
<1>12. ASSUME NEW k \in T PROVE k + 1 \in T
  <2> SUFFICES ASSUME k + 1 <= M
      PROVE /\ pass[k + 1] \in V
            /\ pass[k + 1].done \/ (~pass[k + 1].r.have /\ pass[k + 1].r.next >= (k + 1) - 1)
    OBVIOUS
  <2>1. k \in Nat /\ k + 1 \in 1..M /\ (k + 1) - 1 = k /\ k <= M
    BY <1>1
  <2>2. pass[k] \in V /\ (k > 0 => pass[k].done \/ (~pass[k].r.have /\ pass[k].r.next >= k - 1))
    BY <2>1
  <2>3. pass[k + 1] = Wire!redactor_pass(buf, pass[k], off, end)
    BY <1>10, <2>1
  <2> DEFINE x == pass[k]
             y == pass[k + 1]
  <2>4. y \in V /\ (~x.done => Advances(x, y))
    BY <1>3, <2>2, <2>3
  <2>5. x.r.next \in Nat /\ y.r.next \in Nat
    BY <1>v, <2>2, <2>4, CursorParts DEF PassOK
  <2>6. x.done => y.done
    <3>1. x.done => y = x
      BY <2>3 DEF Wire!redactor_pass
    <3> HIDE DEF x, y
    <3> QED BY <3>1
  <2> HIDE DEF x, y
  <2>7. y.done \/ (~y.r.have /\ y.r.next >= (k + 1) - 1)
    <3>1. CASE x.done
      BY <2>6, <3>1
    <3>2. CASE ~x.done
      <4>1. y.done \/ (~y.r.have /\ y.r.next >= x.r.next /\ (~x.r.have => y.r.next > x.r.next))
        BY <2>4, <3>2 DEF Advances
      <4>2. CASE k = 0
        <5>1. y.r.next >= (k + 1) - 1
          BY <2>5, <4>2
        <5> QED BY <4>1, <5>1
      <4>3. CASE k > 0
        <5>1. ~x.r.have /\ x.r.next >= k - 1
          BY <2>2, <3>2, <4>3 DEF x
        <5>2. y.r.next > x.r.next => y.r.next >= (k + 1) - 1
          BY <2>1, <2>5, <5>1
        <5> QED BY <4>1, <5>1, <5>2
      <4> QED BY <2>1, <4>2, <4>3
    <3> QED BY <3>1, <3>2
  <2> QED BY <2>4, <2>7 DEF x, y
<1> HIDE DEF T
<1>13. T = Nat
  <2>1. T \in SUBSET Nat
    BY DEF T
  <2> QED BY <1>11, <1>12, <2>1, SetInduction
<1>14. cut \in V /\ (cut.done \/ (~cut.r.have /\ cut.r.next >= N))
  <2>1. M \in T /\ M > 0 /\ M - 1 = N /\ M <= M /\ M \in Nat
    BY <1>1, <1>13
  <2>2. pass[M] \in V /\ (pass[M].done \/ (~pass[M].r.have /\ pass[M].r.next >= N))
    BY <2>1 DEF T
  <2>3. cut = pass[M]
    BY <1>1, <1>8
  <2> QED BY <2>2, <2>3
<1>15. PassOK(buf, off, end, cut)
  BY <1>14, <1>v
<1>16. /\ CursorOK(buf, cut.r)
       /\ \A m \in cut.masked :
            \E o \in off..(end - 1) : m = <<o, Since(buf, o)>> /\ Secret(buf, o)
       /\ \A o \in off..(cut.r.next - 1) :
            Secret(buf, o) <=> Holds(cut.r, o) \/ Noted(buf, o, cut.masked)
       /\ cut.done => \A o \in off..(end - 1) : Secret(buf, o) => Noted(buf, o, cut.masked)
  BY <1>15 DEF PassOK
<1>17. cut.r.next \in Nat /\ cut.r.next <= N
  BY <1>1, <1>16, CursorParts DEF CursorOK
<1>18. ASSUME NEW o \in off..(end - 1), Secret(buf, o) PROVE Noted(buf, o, cut.masked)
  <2>1. CASE cut.done
    BY <1>16, <1>18, <2>1
  <2>2. CASE ~cut.done
    <3>1. ~cut.r.have /\ o \in off..(cut.r.next - 1)
      BY <1>1, <1>14, <1>17, <2>2
    <3>2. ~Holds(cut.r, o)
      BY <3>1 DEF Holds
    <3> QED BY <1>16, <1>18, <3>1, <3>2
  <2> QED BY <2>1, <2>2
<1>19. Covers(buf, cut.r, end)
  <2> SUFFICES ASSUME NEW o \in end..(cut.r.next - 1) PROVE Secret(buf, o) <=> Holds(cut.r, o)
    BY DEF Covers
  <2>1. o \in off..(cut.r.next - 1) /\ o \notin off..(end - 1)
    BY <1>1, <1>17
  <2>2. ~Noted(buf, o, cut.masked)
    <3> SUFFICES ASSUME <<o, Since(buf, o)>> \in cut.masked PROVE FALSE
      BY DEF Noted
    <3>1. PICK x \in off..(end - 1) : <<o, Since(buf, o)>> = <<x, Since(buf, x)>>
      BY <1>16
    <3>2. x = o
      BY <3>1
    <3> QED BY <2>1, <3>2
  <2> QED BY <1>16, <2>1, <2>2
<1> QED BY <1>16, <1>18, <1>19 DEF end

MaskByte == {"mask 1", "mask 2", "mask 3"}

Shade(x) == Wire!Mask[(x % Len(Wire!Mask)) + 1]

LEMMA ShadeShows == ASSUME NEW x \in Int PROVE Shade(x) \in MaskByte /\ Shade(x) \notin Wire!WireByte
<1>1. x % 3 \in {0, 1, 2}
  OBVIOUS
<1>2. Len(Wire!Mask) = 3 /\ Wire!Mask[1] = "mask 1" /\ Wire!Mask[2] = "mask 2" /\ Wire!Mask[3] = "mask 3"
  BY DEF Wire!Mask
<1>3. Shade(x) \in MaskByte
  <2>1. Shade(x) = Wire!Mask[(x % 3) + 1]
    BY <1>2 DEF Shade
  <2>2. (x % 3) + 1 = 1 \/ (x % 3) + 1 = 2 \/ (x % 3) + 1 = 3
    BY <1>1
  <2> QED BY <1>2, <2>1, <2>2 DEF MaskByte
<1> QED BY <1>3 DEF MaskByte, Wire!WireByte

(* What the reference shows at an offset. *)
ShownByte(buf, o) == IF Secret(buf, o) THEN Shade(o - Since(buf, o)) ELSE Wire!At(buf, o)

AnyByte == Wire!WireByte \cup MaskByte

LEMMA RedactedIs ==
  ASSUME NEW buf \in Seq(Wire!WireByte)
  PROVE  /\ Wire!Redacted(buf) \in Seq(AnyByte) /\ Len(Wire!Redacted(buf)) = Len(buf)
         /\ \A k \in 1..Len(buf) : Wire!Redacted(buf)[k] = ShownByte(buf, k - 1)
         /\ \A k \in 1..Len(buf) : Wire!Redacted(buf)[k] # buf[k] <=> Secret(buf, k - 1)
<1> DEFINE n == Len(buf)
           R == Wire!Redacted(buf)
<1>1. R = [k \in 1..n |->
             IF Wire!InValue(Wire!Scan(buf)[k - 1]) /\ Wire!InValue(Wire!Scan(buf)[k])
             THEN Shade(k - 1 - Since(buf, k - 1)) ELSE buf[k]]
  BY Zenon DEF Wire!Redacted, Shade, Since
<1> HIDE DEF R
<1>2. ASSUME NEW k \in 1..n
      PROVE /\ R[k] = ShownByte(buf, k - 1) /\ R[k] \in AnyByte
            /\ R[k] # buf[k] <=> Secret(buf, k - 1)
  <2> DEFINE o == k - 1
  <2>1. o \in 0..n /\ o + 1 = k /\ k \in 0..n /\ o \in Int
    OBVIOUS
  <2>2. R[k] = IF Wire!InValue(Wire!Scan(buf)[o]) /\ Wire!InValue(Wire!Scan(buf)[k])
               THEN Shade(o - Since(buf, o)) ELSE buf[k]
    BY <1>1
  <2>3. buf[k] \in Wire!WireByte /\ Wire!At(buf, o) = buf[k]
    BY DEF Wire!At
  <2> HIDE DEF o
  <2>4. (Wire!InValue(Wire!Scan(buf)[o]) /\ Wire!InValue(Wire!Scan(buf)[k])) <=> Secret(buf, o)
    BY <2>1, WhereOK DEF Secret
  <2>5. Since(buf, o) \in Nat
    BY <2>1, WhereOK
  <2>6. PICK x \in Int : x = o - Since(buf, o)
    BY <2>1, <2>5
  <2>7. Shade(x) \in MaskByte /\ Shade(x) \notin Wire!WireByte
    BY ShadeShows
  <2>8. R[k] = IF Secret(buf, o) THEN Shade(x) ELSE buf[k]
    BY <2>2, <2>4, <2>6
  <2>9. R[k] = ShownByte(buf, o)
    BY <2>3, <2>6, <2>8 DEF ShownByte
  <2>10. R[k] \in AnyByte
    BY <2>3, <2>7, <2>8 DEF AnyByte
  <2>11. R[k] # buf[k] <=> Secret(buf, o)
    BY <2>3, <2>7, <2>8
  <2> QED BY <2>9, <2>10, <2>11 DEF o
<1>3. R \in [1..n -> AnyByte]
  BY <1>1, <1>2
<1>4. n \in Nat /\ R \in Seq(AnyByte) /\ Len(R) = n
  BY <1>3
<1> QED BY <1>2, <1>4 DEF R

(* d is the n entries of S from offset off on. *)
PieceOf(d, S, off, n) == d \in Seq(AnyByte) /\ Len(d) = n /\ \A k \in 1..n : d[k] = S[off + k]

(* S and B differ in those entries. *)
DifferIn(S, B, off, n) == \E k \in 1..n : S[off + k] # B[off + k]

(* Exactly the secret offsets of the chunk are masked. *)
MaskedIn(buf, off, n, masked) ==
  /\ \A m \in masked :
       \E o \in off..(off + n - 1) : m = <<o, Since(buf, o)>> /\ Secret(buf, o)
  /\ \A o \in off..(off + n - 1) : Secret(buf, o) => Noted(buf, o, masked)

(* The bytes a chunk is given are the reference's. *)
LEMMA ChunkBytes ==
  ASSUME NEW buf \in Seq(Wire!WireByte), NEW off \in Nat, NEW n \in Nat, off + n <= Len(buf),
         NEW masked, MaskedIn(buf, off, n, masked),
         NEW d, d = Wire!ChunkData(buf, off, n, masked)
  PROVE  /\ PieceOf(d, Wire!Redacted(buf), off, n)
         /\ masked # {} <=> DifferIn(Wire!Redacted(buf), buf, off, n)
<1>a. /\ \A m \in masked :
           \E o \in off..(off + n - 1) : m = <<o, Since(buf, o)>> /\ Secret(buf, o)
      /\ \A o \in off..(off + n - 1) : Secret(buf, o) => Noted(buf, o, masked)
  BY DEF MaskedIn
<1> DEFINE Here(o) == {m \in masked : m[1] = o}
           OnWire(o) == IF Here(o) = {} THEN Wire!At(buf, o)
                      ELSE Shade((CHOOSE x \in Here(o) : TRUE)[1] - (CHOOSE x \in Here(o) : TRUE)[2])
<1>1. d = [k \in 1..n |-> OnWire(off + k - 1)]
  BY Zenon DEF Wire!ChunkData, Shade
<1>2. ASSUME NEW o \in off..(off + n - 1) PROVE OnWire(o) = ShownByte(buf, o)
  <2>1. CASE Secret(buf, o)
    <3>1. <<o, Since(buf, o)>> \in Here(o)
      BY <1>a, <2>1 DEF Noted
    <3>2. \A m \in Here(o) : m = <<o, Since(buf, o)>>
      <4> SUFFICES ASSUME NEW m \in masked, m[1] = o PROVE m = <<o, Since(buf, o)>>
        OBVIOUS
      <4>1. PICK x \in off..(off + n - 1) : m = <<x, Since(buf, x)>>
        BY <1>a
      <4>2. x = o
        BY <4>1
      <4> QED BY <4>1, <4>2
    <3> HIDE DEF Here
    <3>3. PICK m : m = CHOOSE x \in Here(o) : TRUE
      OBVIOUS
    <3>4. m \in Here(o) /\ Here(o) # {}
      BY <3>1, <3>3
    <3>5. m = <<o, Since(buf, o)>>
      BY <3>2, <3>4
    <3>6. m[1] = o /\ m[2] = Since(buf, o)
      BY <3>5
    <3>7. OnWire(o) = Shade(m[1] - m[2])
      BY <3>3, <3>4
    <3> QED BY <2>1, <3>6, <3>7 DEF ShownByte
  <2>2. CASE ~Secret(buf, o)
    <3>1. Here(o) = {}
      <4> SUFFICES ASSUME NEW m \in masked, m[1] = o PROVE FALSE
        OBVIOUS
      <4>1. PICK x \in off..(off + n - 1) : m = <<x, Since(buf, x)>> /\ Secret(buf, x)
        BY <1>a
      <4>2. x = o
        BY <4>1
      <4> QED BY <2>2, <4>1, <4>2
    <3> QED BY <2>2, <3>1 DEF ShownByte
  <2> QED BY <2>1, <2>2
<1> HIDE DEF OnWire, Here
<1>3. ASSUME NEW k \in 1..n
      PROVE  /\ d[k] = Wire!Redacted(buf)[off + k]
             /\ Wire!Redacted(buf)[off + k] \in AnyByte
             /\ Wire!Redacted(buf)[off + k] # buf[off + k] <=> Secret(buf, off + k - 1)
  <2>1. PICK o \in off..(off + n - 1) : o = off + k - 1
    OBVIOUS
  <2>2. PICK j \in 1..Len(buf) : j = off + k
    OBVIOUS
  <2>3. j - 1 = o
    BY <2>1, <2>2
  <2>4. d[k] = OnWire(o)
    BY <1>1, <2>1
  <2>5. Wire!Redacted(buf)[j] = ShownByte(buf, j - 1) /\ Wire!Redacted(buf)[j] \in AnyByte
        /\ (Wire!Redacted(buf)[j] # buf[j] <=> Secret(buf, j - 1))
    BY RedactedIs
  <2> QED BY <1>2, <2>1, <2>2, <2>3, <2>4, <2>5
<1>4. d \in [1..n -> AnyByte]
  BY <1>1, <1>3
<1>5. d \in Seq(AnyByte) /\ Len(d) = n
  BY <1>4
<1>6. ASSUME masked # {} PROVE \E k \in 1..n : Wire!Redacted(buf)[off + k] # buf[off + k]
  <2>1. PICK o \in off..(off + n - 1) : Secret(buf, o)
    BY <1>6, <1>a
  <2>2. PICK k \in 1..n : k = o - off + 1
    OBVIOUS
  <2>3. off + k - 1 = o
    BY <2>2
  <2> QED BY <1>3, <2>1, <2>3
<1>7. ASSUME NEW k \in 1..n, Wire!Redacted(buf)[off + k] # buf[off + k] PROVE masked # {}
  <2>1. PICK o \in off..(off + n - 1) : o = off + k - 1
    OBVIOUS
  <2>2. Secret(buf, o)
    BY <1>3, <1>7, <2>1
  <2> QED BY <1>a, <2>1, <2>2 DEF Noted
<1> QED BY <1>3, <1>5, <1>6, <1>7 DEF PieceOf, DifferIn

(* Of a connection whose identifiers are recorded, or of a line, nothing is masked. *)
LEMMA PlainBytes ==
  ASSUME NEW buf \in Seq(Wire!WireByte), NEW off \in Nat, NEW n \in Nat, off + n <= Len(buf),
         NEW d, d = Wire!ChunkData(buf, off, n, {})
  PROVE  PieceOf(d, buf, off, n)
<1>1. d = [k \in 1..n |-> Wire!At(buf, off + k - 1)]
  BY DEF Wire!ChunkData
<1>2. ASSUME NEW k \in 1..n PROVE d[k] = buf[off + k] /\ buf[off + k] \in AnyByte
  <2>1. PICK j \in 1..Len(buf) : j = off + k /\ off + k - 1 + 1 = j
    OBVIOUS
  <2> QED BY <1>1, <2>1 DEF Wire!At, AnyByte
<1>3. d \in [1..n -> AnyByte]
  BY <1>1, <1>2
<1> QED BY <1>2, <1>3 DEF PieceOf

(* Prefixes and slices of what was recorded. *)
LEMMA PrefixGrows ==
  ASSUME NEW S \in Seq(AnyByte), NEW off \in Nat, NEW n \in Nat, off + n <= Len(S),
         NEW d, PieceOf(d, S, off, n)
  PROVE  SubSeq(S, 1, off) \o d = SubSeq(S, 1, off + n)
<1> DEFINE X == AnyByte
<1>d. d \in Seq(X) /\ Len(d) = n /\ \A k \in 1..n : d[k] = S[off + k]
  BY DEF PieceOf
<1> HIDE DEF X
<1>s. S \in Seq(X)
  BY DEF X
<1> DEFINE p == SubSeq(S, 1, off)
           q == SubSeq(S, 1, off + n)
<1>1. p \in Seq(X) /\ Len(p) = off /\ \A k \in 1..off : p[k] = S[k]
  BY <1>s
<1>2. q \in Seq(X) /\ Len(q) = off + n /\ \A k \in 1..(off + n) : q[k] = S[k]
  BY <1>s
<1> HIDE DEF p, q
<1> DEFINE c == p \o d
<1>3. c \in Seq(X) /\ Len(c) = Len(p) + Len(d)
      /\ \A k \in 1..(Len(p) + Len(d)) : c[k] = IF k <= Len(p) THEN p[k] ELSE d[k - Len(p)]
  BY <1>1, <1>d, ConcatProperties
<1> HIDE DEF c
<1>4. ASSUME NEW k \in 1..(off + n) PROVE c[k] = q[k]
  <2>1. c[k] = IF k <= off THEN p[k] ELSE d[k - off]
    BY <1>1, <1>3, <1>d
  <2>2. CASE k <= off
    BY <1>1, <1>2, <2>1, <2>2
  <2>3. CASE k > off
    <3>1. PICK j \in 1..n : j = k - off /\ off + j = k
      BY <2>3
    <3> QED BY <1>2, <1>d, <2>1, <2>3, <3>1
  <2> QED BY <2>2, <2>3
<1>5. Len(c) = off + n
  BY <1>1, <1>3, <1>d
<1>6. c = q
  BY <1>2, <1>3, <1>4, <1>5, SeqEqual
<1> QED BY <1>6 DEF p, q, c

LEMMA SliceIs ==
  ASSUME NEW X, NEW w \in Seq(X), NEW off \in Nat, NEW n \in Nat, off + n <= Len(w)
  PROVE  /\ SubSeq(w, off + 1, off + n) \in Seq(X) /\ Len(SubSeq(w, off + 1, off + n)) = n
         /\ \A k \in 1..n : SubSeq(w, off + 1, off + n)[k] = w[off + k]
OBVIOUS

UpTo(S, m) == SubSeq(S, 1, m)

WireSlice(S, off, n) == SubSeq(S, off + 1, off + n)

LEMMA SliceDiffers ==
  ASSUME NEW X, NEW S \in Seq(X), NEW B \in Seq(X), NEW off \in Nat, NEW n \in Nat,
         off + n <= Len(S), Len(S) = Len(B), NEW w, w = UpTo(S, off + n)
  PROVE  WireSlice(w, off, n) # WireSlice(B, off, n) <=> DifferIn(S, B, off, n)
<1> USE DEF UpTo, WireSlice
<1> DEFINE u == SubSeq(w, off + 1, off + n)
           v == SubSeq(B, off + 1, off + n)
<1>1. w \in Seq(X) /\ Len(w) = off + n /\ \A k \in 1..(off + n) : w[k] = S[k]
  OBVIOUS
<1>2. u \in Seq(X) /\ Len(u) = n /\ \A k \in 1..n : u[k] = w[off + k]
  <2>1. w \in Seq(X) /\ off + n <= Len(w)
    BY <1>1
  <2> QED BY <2>1, SliceIs
<1>3. v \in Seq(X) /\ Len(v) = n /\ \A k \in 1..n : v[k] = B[off + k]
  OBVIOUS
<1>4. \A k \in 1..n : u[k] = S[off + k]
  <2> SUFFICES ASSUME NEW k \in 1..n PROVE u[k] = S[off + k]
    OBVIOUS
  <2>1. off + k \in 1..(off + n)
    OBVIOUS
  <2> QED BY <1>1, <1>2, <2>1
<1> HIDE DEF u, v
<1>5. (\A k \in 1..n : u[k] = v[k]) => u = v
  BY <1>2, <1>3
<1>6. u # v <=> \E k \in 1..n : S[off + k] # B[off + k]
  BY <1>3, <1>4, <1>5
<1> QED BY <1>6 DEF u, v, DifferIn

(* The newest chunk of the ring is the one just pushed, but for its mark. *)
LEMMA NewestPushed ==
  ASSUME NEW rest \in Seq(WireChunk), NEW c \in WireChunk, NEW m,
         m = Append(rest, c) \/ m = Wire!MarkFront(rest, c)
  PROVE  m[Len(m)].off = c.off /\ m[Len(m)].redacted = c.redacted
<1>1. CASE m = Append(rest, c)
  <2>1. m[Len(m)] = c
    BY <1>1
  <2> QED BY <2>1
<1>2. CASE m = Wire!MarkFront(rest, c) /\ rest = <<>>
  <2> DEFINE d == [c EXCEPT !.lost = TRUE]
  <2>1. m = <<d>>
    BY <1>2 DEF Wire!MarkFront
  <2>2. d.off = c.off /\ d.redacted = c.redacted
    BY DEF WireChunk
  <2> HIDE DEF d
  <2>3. m[Len(m)] = d
    BY <2>1
  <2> QED BY <2>2, <2>3
<1>3. CASE m = Wire!MarkFront(rest, c) /\ rest # <<>>
  <2> DEFINE d == [rest[1] EXCEPT !.lost = TRUE]
             e == <<d>> \o Tail(rest)
  <2>1. m = Append(e, c)
    BY <1>3 DEF Wire!MarkFront
  <2>2. rest[1] \in WireChunk /\ Tail(rest) \in Seq(WireChunk)
    BY <1>3
  <2>3. d \in WireChunk
    BY <2>2 DEF WireChunk
  <2> HIDE DEF d
  <2>4. e \in Seq(WireChunk)
    BY <2>2, <2>3
  <2> HIDE DEF e
  <2>5. m[Len(m)] = c
    BY <2>1, <2>4
  <2> QED BY <2>5
<1> QED BY <1>1, <1>2, <1>3

Recorded == IF job.redact THEN Wire!Redacted(job.buf) ELSE job.buf

MaskInv ==
  /\ job.buf \in Seq(Wire!WireByte)
  /\ job.redact => CursorOK(job.buf, job.r) /\ Covers(job.buf, job.r, job.off)
  /\ written = SubSeq(Recorded, 1, job.off)
  /\ job.off > 0 /\ wire # <<>> =>
       wire[Len(wire)].redacted
         = (job.withheld \/ SubSeq(written, wire[Len(wire)].off + 1, job.off)
                              # SubSeq(job.buf, wire[Len(wire)].off + 1, job.off))

LEMMA MaskInvGives == MaskInv => MaskedAcrossChunks
BY DEF MaskInv, Recorded, MaskedAcrossChunks, Wire!MaskedAcrossChunks

LEMMA NewCursorOK ==
  ASSUME NEW buf \in Seq(Wire!WireByte)
  PROVE  CursorOK(buf, Wire!NewCursor) /\ Covers(buf, Wire!NewCursor, 0)
<1> DEFINE r == Wire!NewCursor
<1>1. r \in CursorState /\ r.next = 0 /\ ~r.have
  BY DEF Wire!NewCursor, CursorState
<1> HIDE DEF r
<1>2. CursorOK(buf, r)
  BY <1>1, WhereOK DEF CursorOK
<1>3. Covers(buf, r, 0)
  BY <1>1 DEF Covers
<1> QED BY <1>2, <1>3 DEF r

LEMMA RecordedNone ==
  ASSUME NEW b \in Seq(Wire!WireByte)
  PROVE  <<>> = SubSeq(b, 1, 0) /\ <<>> = SubSeq(Wire!Redacted(b), 1, 0)
<1>1. Wire!Redacted(b) \in Seq(AnyByte)
  BY RedactedIs
<1> QED BY <1>1, SubSeqEmpty

LEMMA MaskPushed ==
  ASSUME WireInv, MaskInv, Wire!PushChunk PROVE MaskInv'
<1> DEFINE len  == Len(job.buf)
           n    == Wire!Least(len - job.off, ChunkMax)
           cut  == Wire!redactor_apply(job.buf, job.r, job.off, n)
           masked == IF job.redact THEN cut.masked ELSE {}
           flag == job.withheld \/ (job.redact /\ Wire!took_out(cut))
           goes == Wire!more(job.off + n, len)
           c    == [sequence |-> wire_sequence, off |-> job.off, redacted |-> flag,
                    continues |-> goes, lost |-> FALSE]
           base == IF Wire!WireRoom THEN wire ELSE Tail(wire)
           d    == Wire!ChunkData(job.buf, job.off, n, masked)
<1>1. /\ job.off < len
      /\ Wire!wire_ring_push(c)
      /\ written' = written \o d
      /\ job' = [job EXCEPT !.off = job.off + n, !.r = IF job.redact THEN cut.r ELSE job.r]
  BY DEF Wire!PushChunk
<1>2. /\ job.off \in Nat /\ len \in Nat /\ ChunkMax \in Nat \ {0}
      /\ job = [buf |-> job.buf, off |-> job.off, redact |-> job.redact,
                withheld |-> job.withheld, r |-> job.r]
      /\ job.redact \in BOOLEAN /\ job.withheld \in BOOLEAN
  BY WireAssumption DEF WireInv, WireTypes, JobOK
<1>3. n \in Nat /\ n > 0 /\ job.off + n <= len
  BY <1>1, <1>2 DEF Wire!Least
<1>4. flag \in BOOLEAN /\ goes \in BOOLEAN
  BY DEF Wire!more
<1>5. Wire!took_out(cut) <=> cut.masked # {}
  BY DEF Wire!took_out
<1>6. PICK x \in Nat : x = job.off + n
  BY <1>2, <1>3
<1> HIDE DEF n, cut, goes, d
<1>7. /\ job'.buf = job.buf /\ job'.redact = job.redact /\ job'.withheld = job.withheld
      /\ job'.off = x /\ job'.r = IF job.redact THEN cut.r ELSE job.r
  BY <1>1, <1>2, <1>6
(* The chunk that is now the newest. *)
<1>8. wire'[Len(wire')].off = job.off /\ wire'[Len(wire')].redacted = flag
  <2>1. /\ wire \in Seq(WireChunk) /\ Len(wire) \in Nat /\ wire_ring \in Nat \ {0}
        /\ wire_sequence \in WireCount
    BY DEF WireInv, WireTypes
  <2>2. c \in WireChunk
    BY <1>2, <1>4, <2>1 DEF WireChunk
  <2>3. c.off = job.off /\ c.redacted = flag
    OBVIOUS
  <2> HIDE DEF c, flag
  <2>4. ~Wire!WireRoom => wire # <<>>
    BY <2>1 DEF Wire!WireRoom
  <2>5. base \in Seq(WireChunk)
    BY <2>1, <2>4
  <2>6. wire' = Append(base, c) \/ wire' = Wire!MarkFront(base, c)
    BY <1>1 DEF Wire!wire_ring_push
  <2> HIDE DEF base
  <2> QED BY <2>2, <2>3, <2>5, <2>6, NewestPushed
<1> HIDE DEF c, base
<1>9. /\ job.buf \in Seq(Wire!WireByte) /\ job.buf \in Seq(AnyByte)
      /\ Recorded \in Seq(AnyByte) /\ Len(Recorded) = len
  <2>1. job.buf \in Seq(Wire!WireByte)
    BY DEF MaskInv
  <2>2. Wire!Redacted(job.buf) \in Seq(AnyByte) /\ Len(Wire!Redacted(job.buf)) = len
    BY <2>1, RedactedIs
  <2>3. job.buf \in Seq(AnyByte)
    BY <2>1 DEF AnyByte
  <2> QED BY <2>1, <2>2, <2>3 DEF Recorded
<1>b. PICK b \in Seq(Wire!WireByte) : b = job.buf
  BY <1>9
<1>f. PICK f \in Nat : f = job.off
  BY <1>2
<1>l. n \in Nat /\ n > 0 /\ f + n <= Len(b)
  BY <1>3, <1>b, <1>f
(* What redactor_apply did to it, if it ran. *)
<1>10. job.redact => /\ CursorOK(b, cut.r) /\ Covers(b, cut.r, x)
                     /\ MaskedIn(b, f, n, cut.masked)
  <2> HAVE job.redact
  <2>1. PICK r : r = job.r
    OBVIOUS
  <2>2. CursorOK(b, r) /\ Covers(b, r, f)
    BY <1>b, <1>f, <2>1 DEF MaskInv
  <2>3. cut = Wire!redactor_apply(b, r, f, n)
    BY <1>b, <1>f, <2>1 DEF cut
  <2>4. /\ CursorOK(b, cut.r) /\ Covers(b, cut.r, f + n)
        /\ \A m \in cut.masked :
             \E o \in f..(f + n - 1) : m = <<o, Since(b, o)>> /\ Secret(b, o)
        /\ \A o \in f..(f + n - 1) : Secret(b, o) => Noted(b, o, cut.masked)
    BY <1>l, <2>2, <2>3, ApplyMasks
  <2> QED BY <1>6, <1>f, <2>4 DEF MaskedIn
<1>11. /\ PieceOf(d, Recorded, f, n)
       /\ job.redact => (cut.masked # {} <=> DifferIn(Recorded, b, f, n))
  <2>1. CASE job.redact
    <3>1. PICK masks : masks = cut.masked
      OBVIOUS
    <3>2. d = Wire!ChunkData(b, f, n, masks)
      BY <1>b, <1>f, <2>1, <3>1 DEF d
    <3>3. MaskedIn(b, f, n, masks)
      BY <1>10, <2>1, <3>1
    <3>4. PieceOf(d, Wire!Redacted(b), f, n) /\ (masks # {} <=> DifferIn(Wire!Redacted(b), b, f, n))
      BY <1>l, <3>2, <3>3, ChunkBytes
    <3>5. Recorded = Wire!Redacted(b)
      BY <1>b, <2>1 DEF Recorded
    <3> QED BY <3>1, <3>4, <3>5
  <2>2. CASE ~job.redact
    <3>1. d = Wire!ChunkData(b, f, n, {})
      BY <1>b, <1>f, <2>2 DEF d
    <3>2. PieceOf(d, b, f, n)
      BY <1>l, <3>1, PlainBytes
    <3>3. Recorded = b
      BY <1>b, <2>2 DEF Recorded
    <3> QED BY <2>2, <3>2, <3>3
  <2> QED BY <2>1, <2>2
<1>12. Recorded' = Recorded
  BY <1>7 DEF Recorded
<1>s. PICK S \in Seq(AnyByte) : S = Recorded /\ Len(S) = Len(b)
  BY <1>9, <1>b
<1>13. written' = SubSeq(Recorded, 1, x)
  <2>1. written = SubSeq(S, 1, f)
    BY <1>f, <1>s DEF MaskInv
  <2>2. f + n <= Len(S) /\ PieceOf(d, S, f, n)
    BY <1>l, <1>s, <1>11
  <2>3. SubSeq(S, 1, f) \o d = SubSeq(S, 1, f + n)
    BY <1>l, <2>2, PrefixGrows
  <2> QED BY <1>1, <1>6, <1>f, <1>s, <2>1, <2>3
<1>14. flag = (job.withheld \/ SubSeq(written', job.off + 1, x) # SubSeq(job.buf, job.off + 1, x))
  <2>1. PICK w : w = written'
    OBVIOUS
  <2>2. PICK t \in Seq(AnyByte) : t = b
    BY <1>9, <1>b
  <2>3. f + n <= Len(S) /\ Len(S) = Len(t) /\ w = UpTo(S, f + n)
    BY <1>6, <1>13, <1>f, <1>l, <1>s, <2>1, <2>2 DEF UpTo
  <2>4. WireSlice(w, f, n) # WireSlice(t, f, n) <=> DifferIn(S, t, f, n)
    BY <1>l, <2>3, SliceDiffers
  <2>5. ~job.redact => ~DifferIn(S, b, f, n)
    BY <1>b, <1>s DEF Recorded, DifferIn
  <2>6. DifferIn(S, b, f, n) <=> job.redact /\ Wire!took_out(cut)
    BY <1>5, <1>11, <1>s, <2>5
  <2>7. SubSeq(written', job.off + 1, x) # SubSeq(job.buf, job.off + 1, x)
          <=> job.redact /\ Wire!took_out(cut)
    BY <1>6, <1>b, <1>f, <2>1, <2>2, <2>4, <2>6 DEF WireSlice
  <2> QED BY <2>7
<1> HIDE DEF flag
<1>15. job.redact => CursorOK(job.buf, job'.r) /\ Covers(job.buf, job'.r, x)
  BY <1>7, <1>10, <1>b
<1> HIDE DEF Recorded
<1> QED BY <1>7, <1>8, <1>9, <1>12, <1>13, <1>14, <1>15 DEF MaskInv

LEMMA MaskBegins ==
  ASSUME NEW b \in Objects \cup Lines, NEW redact, NEW withheld,
         Wire!wire_push_bytes(b, redact, withheld)
  PROVE  MaskInv'
<1>1. /\ job' = [buf |-> b, off |-> 0, redact |-> redact, withheld |-> withheld,
                 r |-> Wire!NewCursor]
      /\ written' = <<>>
  BY DEF Wire!wire_push_bytes
<1>2. b \in Seq(Wire!WireByte)
  BY WireAssumption
<1>3. job'.buf = b /\ job'.off = 0 /\ job'.r = Wire!NewCursor
  BY <1>1
<1>4. CursorOK(b, Wire!NewCursor) /\ Covers(b, Wire!NewCursor, 0)
  BY <1>2, NewCursorOK
<1>5. <<>> = SubSeq(Recorded', 1, 0)
  BY <1>2, <1>3, RecordedNone DEF Recorded
<1> QED BY <1>1, <1>2, <1>3, <1>4, <1>5 DEF MaskInv

(* No call runs: nothing is recorded of one. *)
LEMMA MaskIdle ==
  /\ job = Wire!NoJob /\ written = <<>> => MaskInv
  /\ job' = Wire!NoJob /\ written' = <<>> => MaskInv'
<1>1. PICK b \in Seq(Wire!WireByte) : b = <<>>
  <2>1. <<>> \in Seq(Wire!WireByte)
    OBVIOUS
  <2> QED BY <2>1
<1>2. CursorOK(b, Wire!NewCursor) /\ Covers(b, Wire!NewCursor, 0) /\ <<>> = SubSeq(b, 1, 0)
  BY NewCursorOK, RecordedNone
<1>3. ASSUME job = Wire!NoJob, written = <<>> PROVE MaskInv
  <2>1. job.buf = b /\ job.off = 0 /\ ~job.redact
    BY <1>1, <1>3 DEF Wire!NoJob
  <2>2. Recorded = b
    BY <2>1 DEF Recorded
  <2> QED BY <1>2, <1>3, <2>1, <2>2 DEF MaskInv
<1>4. ASSUME job' = Wire!NoJob, written' = <<>> PROVE MaskInv'
  <2>1. job'.buf = b /\ job'.off = 0 /\ ~job'.redact
    BY <1>1, <1>4 DEF Wire!NoJob
  <2>2. Recorded' = b
    BY <2>1 DEF Recorded
  <2> QED BY <1>2, <1>4, <2>1, <2>2 DEF MaskInv
<1> QED BY <1>3, <1>4

(***************************************************************************)
(* What is recorded is what was there with every DeviceID value masked and *)
(* nothing else, for buffers of any length cut into chunks of any size,    *)
(* and a chunk says REDACTED exactly when something was taken out of it:   *)
(* the cursor redactor_apply keeps between chunks does over a message in   *)
(* pieces what one reading of the whole would.                             *)
(***************************************************************************)
THEOREM IdentifiersMasked == Wire!Spec => []MaskedAcrossChunks
<1>1. Wire!Init => MaskInv
  BY MaskIdle DEF Wire!Init
<1>2. ASSUME WireInv, MaskInv, [Wire!Next]_(Wire!vars) PROVE MaskInv'
  <2>1. ASSUME NEW buf \in Objects, Wire!WireClient(buf) PROVE MaskInv'
    BY <2>1, MaskBegins DEF Wire!WireClient
  <2>2. ASSUME NEW buf \in Lines, Wire!WireReply(buf) PROVE MaskInv'
    BY <2>2, MaskBegins DEF Wire!WireReply
  <2>3. ASSUME NEW buf \in Lines, NEW sensitive \in BOOLEAN, Wire!WireMeta(buf, sensitive)
        PROVE  MaskInv'
    BY <2>3, MaskBegins DEF Wire!WireMeta
  <2>4. CASE Wire!PushChunk
    BY <1>2, <2>4, MaskPushed
  <2>5. CASE Wire!PushReturns
    BY <2>5, MaskIdle DEF Wire!PushReturns
  <2>6. CASE Wire!PollWire
    <3>1. job' = Wire!NoJob /\ job' = job /\ written' = written
      BY <2>6 DEF Wire!PollWire
    <3>2. job'.off = 0
      BY <3>1 DEF Wire!NoJob
    <3>3. Recorded' = Recorded
      BY <3>1 DEF Recorded
    <3> QED BY <1>2, <3>1, <3>2, <3>3 DEF MaskInv
  <2>7. CASE Wire!PollEvents \/ UNCHANGED Wire!vars
    <3>1. UNCHANGED <<wire, job, written>>
      BY <2>7 DEF Wire!PollEvents, Wire!vars, Wire!ringVars
    <3> QED BY <1>2, <3>1 DEF MaskInv, Recorded
  <2> QED BY <1>2, <2>1, <2>2, <2>3, <2>4, <2>5, <2>6, <2>7 DEF Wire!Next
<1> QED BY <1>1, <1>2, WireInvHolds, MaskInvGives, PTL DEF Wire!Spec
=============================================================================
