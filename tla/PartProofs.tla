----------------------------- MODULE PartProofs -----------------------------
(***************************************************************************)
(* Lemmas about the operators the servers and transports are built from:   *)
(* the write queue's and the event queue's, for every ring size, and the   *)
(* framer's, for every buffer; before them, induction over naturals and    *)
(* sequences, and the loops it is used for.                                *)
(*                                                                         *)
(* First-order provers cannot instantiate the library's induction theorems *)
(* (a predicate is their parameter), so induction is stated here about     *)
(* SETS of naturals and of sequences; it rests on the well-foundedness of  *)
(* < on the naturals.                                                      *)
(***************************************************************************)
EXTENDS Framer, EventQueue, WriteQueue, WellFoundedInduction, SequenceTheorems, TLAPS

(* A non-empty set of naturals has a least element. *)
LEMMA LeastNat ==
  ASSUME NEW T \in SUBSET Nat, T # {}
  PROVE  \E n \in T : \A m \in T : n <= m
<1> DEFINE Less == {p \in Nat \X Nat : p[1] < p[2]}
<1>1. IsWellFoundedOn(Less, Nat)
  BY NatLessThanWellFounded, Zenon DEF OpToRel
<1>2. PICK n \in T : \A m \in T : ~(<<m, n>> \in Less)
  BY <1>1, WFMin
<1>3. ASSUME NEW m \in T, m < n PROVE FALSE
  <2>1. <<m, n>> \in Nat \X Nat /\ <<m, n>>[1] < <<m, n>>[2]
    BY <1>3
  <2>2. <<m, n>> \in Less
    BY <2>1, Zenon
  <2> QED BY <1>2, <2>2
<1> QED BY <1>3

(* A set that holds 0 and, with every number, the next one holds them all. *)
LEMMA SetInduction ==
  ASSUME NEW T \in SUBSET Nat, 0 \in T, \A n \in T : n + 1 \in T
  PROVE  T = Nat
<1> SUFFICES ASSUME Nat \ T # {} PROVE FALSE
  OBVIOUS
<1>1. PICK n \in Nat \ T : \A m \in Nat \ T : n <= m
  BY LeastNat
<1>2. n # 0 /\ n - 1 \in Nat /\ ~(n <= n - 1)
  BY <1>1
<1>3. n - 1 \in T
  BY <1>1, <1>2
<1> QED BY <1>1, <1>2, <1>3

(* Sequences are built by appending. *)
LEMMA SeqInduction ==
  ASSUME NEW S, NEW T \in SUBSET Seq(S), <<>> \in T,
         \A w \in T, x \in S : Append(w, x) \in T
  PROVE  T = Seq(S)
<1> DEFINE L == {n \in Nat : \A w \in Seq(S) : Len(w) = n => w \in T}
<1>1. 0 \in L
  <2>1. \A w \in Seq(S) : Len(w) = 0 => w = <<>>
    BY EmptySeq
  <2> QED BY <2>1
<1>2. ASSUME NEW n \in L PROVE n + 1 \in L
  <2> SUFFICES ASSUME NEW w \in Seq(S), Len(w) = n + 1 PROVE w \in T
    OBVIOUS
  <2>1. n \in Nat /\ \A u \in Seq(S) : Len(u) = n => u \in T
    BY <1>2
  <2> HIDE DEF L
  <2>2. w # <<>>
    BY <2>1
  <2>3. PICK v \in Seq(S), x \in S : w = Append(v, x)
    BY <2>2, SequenceEmptyOrAppend
  <2>4. Len(v) = n
    BY <2>1, <2>3
  <2> QED BY <2>1, <2>3, <2>4
<1> HIDE DEF L
<1>3. L \in SUBSET Nat
  BY DEF L
<1>4. L = Nat
  BY <1>1, <1>2, <1>3, SetInduction
<1>5. ASSUME NEW w \in Seq(S) PROVE w \in T
  <2>1. Len(w) \in L
    BY <1>4
  <2> QED BY <2>1 DEF L
<1> QED BY <1>5

(* g tells what a loop of m passes holds after each: F[k] is its k-th. *)
Iterates(g, v0, F, m) == g[0] = v0 /\ \A k \in 1..m : g[k] = F[k][g[k - 1]]

(* Every loop of so many passes computes something. *)
LEMMA LoopExists ==
  ASSUME NEW V, NEW v0 \in V, NEW m \in Nat, NEW F \in [1..m -> [V -> V]]
  PROVE  \E g \in [0..m -> V] : Iterates(g, v0, F, m)
<1> DEFINE Upto(n) == \E g \in [0..n -> V] : Iterates(g, v0, F, n)
           T == {n \in Nat : n <= m => Upto(n)}
<1> HIDE DEF Upto
<1>1. 0 \in T
  <2> DEFINE g == [k \in 0..0 |-> v0]
  <2>1. g \in [0..0 -> V] /\ Iterates(g, v0, F, 0)
    BY DEF Iterates
  <2> QED BY <2>1 DEF Upto
<1>2. ASSUME NEW n \in T PROVE n + 1 \in T
  <2> SUFFICES ASSUME n + 1 <= m PROVE Upto(n + 1)
    OBVIOUS
  <2>1. PICK g \in [0..n -> V] : Iterates(g, v0, F, n)
    BY <1>2 DEF Upto
  <2> DEFINE last == F[n + 1][g[n]]
             h == [k \in 0..(n + 1) |-> IF k <= n THEN g[k] ELSE last]
  <2>2. n \in Nat /\ n + 1 \in 1..m /\ g[n] \in V
    BY <1>2, <2>1
  <2>3. last \in V
    BY <2>2
  <2> HIDE DEF last
  <2>4. h \in [0..(n + 1) -> V] /\ h[0] = v0
    BY <2>1, <2>2, <2>3 DEF Iterates
  <2>5. ASSUME NEW k \in 1..(n + 1) PROVE h[k] = F[k][h[k - 1]]
    <3>1. CASE k <= n
      <4>1. h[k] = g[k] /\ h[k - 1] = g[k - 1] /\ k \in 1..n
        BY <2>2, <3>1
      <4> HIDE DEF h
      <4> QED BY <2>1, <4>1 DEF Iterates
    <3>2. CASE k = n + 1
      <4>1. h[k] = last /\ h[k - 1] = g[n]
        BY <2>2, <3>2
      <4> HIDE DEF h
      <4> QED BY <3>2, <4>1 DEF last
    <3> QED BY <2>2, <3>1, <3>2
  <2> HIDE DEF h
  <2>6. Iterates(h, v0, F, n + 1)
    BY <2>4, <2>5 DEF Iterates
  <2> QED BY <2>4, <2>6 DEF Upto
<1>3. T = Nat
  BY <1>1, <1>2, SetInduction
<1>4. Upto(m)
  BY <1>3
<1> QED BY <1>4 DEF Upto
-----------------------------------------------------------------------------
(* The provers know the remainder of a number they see divided. *)
LEMMA Remainder ==
  ASSUME NEW M \in Nat \ {0}, NEW q \in Nat, NEW r \in 0..(M - 1)
  PROVE  (M * q + r) % M = r
OBVIOUS

LEMMA Division ==
  ASSUME NEW M \in Nat \ {0}, NEW x \in Nat
  PROVE  \E q \in Nat, r \in 0..(M - 1) : x = M * q + r
<1> DEFINE Divided(n) == \E q \in Nat, r \in 0..(M - 1) : n = M * q + r
           T == {n \in Nat : Divided(n)}
<1>1. Divided(0)
  <2>1. 0 \in Nat /\ 0 \in 0..(M - 1) /\ 0 = M * 0 + 0
    OBVIOUS
  <2> QED BY <2>1
<1>2. ASSUME NEW n \in Nat, Divided(n) PROVE Divided(n + 1)
  <2>1. PICK q \in Nat, r \in 0..(M - 1) : n = M * q + r
    BY <1>2
  <2>2. CASE r + 1 < M
    <3>1. r + 1 \in 0..(M - 1) /\ n + 1 = M * q + (r + 1)
      BY <2>1, <2>2
    <3> QED BY <3>1
  <2>3. CASE r + 1 = M
    <3>1. 0 \in 0..(M - 1) /\ q + 1 \in Nat /\ n + 1 = M * (q + 1) + 0
      BY <2>1, <2>3
    <3> QED BY <3>1, Zenon
  <2>4. r + 1 < M \/ r + 1 = M
    OBVIOUS
  <2> QED BY <2>2, <2>3, <2>4
<1> HIDE DEF Divided
<1>3. T = Nat
  <2>1. T \in SUBSET Nat /\ 0 \in T /\ \A n \in T : n + 1 \in T
    BY <1>1, <1>2
  <2> HIDE DEF T
  <2> QED BY <2>1, SetInduction
<1>4. Divided(x)
  BY <1>3
<1> QED BY <1>4 DEF Divided

(* Wrapping before adding is wrapping after. *)
LEMMA WrapSum ==
  ASSUME NEW M \in Nat \ {0}, NEW x \in Nat, NEW y \in Nat
  PROVE  x % M \in 0..(M - 1) /\ ((x % M) + y) % M = (x + y) % M
<1>1. PICK q \in Nat, r \in 0..(M - 1) : x = M * q + r
  BY Division
<1>2. x % M = r
  BY <1>1, Remainder
<1>3. PICK q2 \in Nat, r2 \in 0..(M - 1) : r + y = M * q2 + r2
  <2>1. r + y \in Nat
    OBVIOUS
  <2> QED BY <2>1, Division
<1>4. (r + y) % M = r2
  BY <1>3, Remainder
<1>5. x + y = M * (q + q2) + r2 /\ q + q2 \in Nat
  BY <1>1, <1>3
<1>6. (x + y) % M = r2
  BY <1>5, Remainder
<1> QED BY <1>2, <1>4, <1>6

(* One turn round a circular array. *)
LEMMA WrapOnce ==
  ASSUME NEW M \in Nat \ {0}, NEW h \in 0..(M - 1), NEW i \in 0..M
  PROVE  (h + i) % M = IF h + i < M THEN h + i ELSE h + i - M
<1>1. CASE h + i < M
  <2>1. h + i \in 0..(M - 1) /\ h + i = M * 0 + (h + i)
    BY <1>1
  <2> QED BY <1>1, <2>1, Remainder
<1>2. CASE ~(h + i < M)
  <2>1. h + i - M \in 0..(M - 1) /\ h + i = M * 1 + (h + i - M)
    BY <1>2
  <2> QED BY <1>2, <2>1, Remainder
<1> QED BY <1>1, <1>2
-----------------------------------------------------------------------------
(* A function on 1..n is a sequence of length n. *)
LEMMA FunIsSeq ==
  ASSUME NEW S, NEW n \in Nat, NEW s \in [1..n -> S]
  PROVE  s \in Seq(S) /\ Len(s) = n
<1>1. s \in Seq(S)
  BY SeqDef
<1>2. DOMAIN s = 1..Len(s) /\ Len(s) \in Nat
  BY <1>1, LenProperties
<1> QED BY <1>1, <1>2
-----------------------------------------------------------------------------
(* The table the loop of kept_writes fills. *)
KeptTable(w, C) ==
  LET kept[n \in 0..Len(w)] ==
        IF n = 0 THEN <<>>
        ELSE IF w[n].conn \in C THEN Append(kept[n - 1], w[n]) ELSE kept[n - 1]
  IN  kept

(* Pass k of the loop, over the table as far as it is filled. *)
KeptPass(w, C, g, k) ==
  IF k = 0 THEN <<>>
  ELSE IF w[k].conn \in C THEN Append(g[k - 1], w[k]) ELSE g[k - 1]

LEMMA KeptIsLast ==
  ASSUME NEW w, NEW C PROVE kept_writes(w, C) = KeptTable(w, C)[Len(w)]
BY DEF kept_writes, KeptTable

(* The table's entries are sequences, each made from the one before. *)
LEMMA KeptRecurrence ==
  ASSUME NEW S, NEW w \in Seq(S), NEW C
  PROVE  LET h == KeptTable(w, C)
         IN  /\ h \in [0..Len(w) -> Seq(S)]
             /\ \A k \in 0..Len(w) : h[k] = KeptPass(w, C, h, k)
<1> DEFINE Step(k, v) == IF w[k].conn \in C THEN Append(v, w[k]) ELSE v
           F == [k \in 1..Len(w) |-> [v \in Seq(S) |-> Step(k, v)]]
<1>1. \A k \in 1..Len(w), v \in Seq(S) : Step(k, v) \in Seq(S)
  OBVIOUS
<1> HIDE DEF Step
<1>2. F \in [1..Len(w) -> [Seq(S) -> Seq(S)]]
  BY <1>1
<1>3. <<>> \in Seq(S) /\ Len(w) \in Nat
  OBVIOUS
<1>4. \A k \in 1..Len(w), v \in Seq(S) : F[k][v] = Step(k, v)
  OBVIOUS
<1> HIDE DEF F
<1>5. PICK g \in [0..Len(w) -> Seq(S)] : Iterates(g, <<>>, F, Len(w))
  BY <1>2, <1>3, LoopExists
<1>6. ASSUME NEW k \in 0..Len(w) PROVE g[k] = KeptPass(w, C, g, k)
  <2>1. CASE k = 0
    BY <1>5, <2>1 DEF KeptPass, Iterates
  <2>2. CASE k # 0
    <3>1. k \in 1..Len(w) /\ g[k - 1] \in Seq(S)
      BY <1>5, <2>2
    <3>2. g[k] = Step(k, g[k - 1])
      BY <1>4, <1>5, <3>1 DEF Iterates
    <3> QED BY <2>2, <3>2 DEF KeptPass, Step
  <2> QED BY <2>1, <2>2
<1>7. g = [k \in 0..Len(w) |-> KeptPass(w, C, g, k)]
  BY <1>5, <1>6
<1> DEFINE h == KeptTable(w, C)
<1>8. h = [k \in 0..Len(w) |-> KeptPass(w, C, h, k)]
  BY <1>7, Zenon DEF KeptTable, KeptPass
<1> HIDE DEF h
<1>9. \A k \in 0..Len(w) : h[k] = KeptPass(w, C, h, k)
  BY <1>8
<1> DEFINE T == {k \in Nat : k <= Len(w) => h[k] = g[k]}
<1>10. 0 \in T
  BY <1>6, <1>9 DEF KeptPass
<1>11. ASSUME NEW n \in T PROVE n + 1 \in T
  <2> SUFFICES ASSUME n + 1 <= Len(w) PROVE h[n + 1] = g[n + 1]
    OBVIOUS
  <2>1. h[n] = g[n] /\ n + 1 \in 0..Len(w) /\ (n + 1) - 1 = n /\ n + 1 # 0
    BY <1>11
  <2> QED BY <1>6, <1>9, <2>1 DEF KeptPass
<1> HIDE DEF T
<1>12. T = Nat
  <2>1. T \in SUBSET Nat
    BY DEF T
  <2> QED BY <1>10, <1>11, <2>1, SetInduction
<1>13. \A k \in 0..Len(w) : h[k] = g[k]
  BY <1>12 DEF T
<1>14. h \in [0..Len(w) -> Seq(S)]
  BY <1>5, <1>8, <1>13
<1> QED BY <1>9, <1>14 DEF h

(* The loop over no entries, and over one entry more. *)
LEMMA KeptEmpty == ASSUME NEW C PROVE kept_writes(<<>>, C) = <<>>
<1>1. <<>> \in Seq({}) /\ Len(<<>>) = 0
  OBVIOUS
<1>2. \A k \in 0..Len(<<>>) : KeptTable(<<>>, C)[k] = KeptPass(<<>>, C, KeptTable(<<>>, C), k)
  BY <1>1, KeptRecurrence, Zenon
<1>3. KeptTable(<<>>, C)[0] = <<>>
  BY <1>1, <1>2 DEF KeptPass
<1> QED BY <1>1, <1>3, KeptIsLast

LEMMA KeptAppend ==
  ASSUME NEW S, NEW w \in Seq(S), NEW x \in S, NEW C
  PROVE  /\ kept_writes(w, C) \in Seq(S)
         /\ kept_writes(Append(w, x), C) =
              IF x.conn \in C THEN Append(kept_writes(w, C), x) ELSE kept_writes(w, C)
<1> DEFINE v == Append(w, x)
           n == Len(w)
           h == KeptTable(w, C)
           g == KeptTable(v, C)
<1>1. /\ v \in Seq(S) /\ Len(v) = n + 1 /\ n \in Nat
      /\ v[n + 1] = x /\ \A k \in 1..n : v[k] = w[k]
  OBVIOUS
<1> HIDE DEF v
<1>2. /\ h \in [0..n -> Seq(S)]
      /\ \A k \in 0..n : h[k] = KeptPass(w, C, h, k)
  BY KeptRecurrence
<1>3. \A k \in 0..(n + 1) : g[k] = KeptPass(v, C, g, k)
  BY <1>1, KeptRecurrence
<1>4. kept_writes(w, C) = h[n] /\ kept_writes(v, C) = g[n + 1]
  BY <1>1, KeptIsLast
<1> HIDE DEF h, g
<1> DEFINE T == {k \in Nat : k <= n => g[k] = h[k]}
<1>5. 0 \in T
  BY <1>1, <1>2, <1>3 DEF KeptPass
<1>6. ASSUME NEW k \in T PROVE k + 1 \in T
  <2> SUFFICES ASSUME k + 1 <= n PROVE g[k + 1] = h[k + 1]
    OBVIOUS
  <2>1. g[k] = h[k] /\ k + 1 \in 0..n /\ k + 1 \in 1..(n + 1) /\ (k + 1) - 1 = k
    BY <1>1, <1>6
  <2>2. v[k + 1] = w[k + 1]
    BY <1>1, <2>1
  <2>3. /\ g[k + 1] = KeptPass(v, C, g, k + 1) /\ h[k + 1] = KeptPass(w, C, h, k + 1)
    BY <1>2, <1>3, <2>1
  <2>4. k + 1 # 0
    BY <1>6
  <2> QED BY <2>1, <2>2, <2>3, <2>4 DEF KeptPass
<1> HIDE DEF T
<1>7. T = Nat
  <2>1. T \in SUBSET Nat
    BY DEF T
  <2> QED BY <1>5, <1>6, <2>1, SetInduction
<1>8. g[n] = h[n]
  BY <1>1, <1>7 DEF T
<1>9. g[n + 1] = IF x.conn \in C THEN Append(g[n], x) ELSE g[n]
  BY <1>1, <1>3 DEF KeptPass
<1> QED BY <1>1, <1>2, <1>4, <1>8, <1>9 DEF v

(* What is kept are entries of the queue addressed to C, no more of them   *)
(* than there were.                                                        *)
LEMMA KeptEntries ==
  ASSUME NEW S, NEW w \in Seq(S), NEW C
  PROVE  LET r == kept_writes(w, C)
         IN  /\ r \in Seq(S)
             /\ Len(r) <= Len(w)
             /\ \A k \in 1..Len(r) : \E j \in 1..Len(w) : r[k] = w[j] /\ w[j].conn \in C
<1> DEFINE Good(v) == LET r == kept_writes(v, C)
                      IN  /\ r \in Seq(S)
                          /\ Len(r) <= Len(v)
                          /\ \A k \in 1..Len(r) :
                               \E j \in 1..Len(v) : r[k] = v[j] /\ v[j].conn \in C
           T == {v \in Seq(S) : Good(v)}
<1>1. <<>> \in T
  <2> DEFINE e == <<>>
  <2>1. e \in Seq(S) /\ Len(e) = 0 /\ kept_writes(e, C) = e
    BY KeptEmpty
  <2> HIDE DEF e
  <2>2. Len(kept_writes(e, C)) = 0 /\ kept_writes(e, C) \in Seq(S)
    BY <2>1
  <2>3. Good(e)
    BY <2>1, <2>2
  <2> HIDE DEF Good
  <2> QED BY <2>1, <2>3 DEF e
<1>2. ASSUME NEW v \in T, NEW x \in S PROVE Append(v, x) \in T
  <2> DEFINE u == Append(v, x)
             r == kept_writes(v, C)
             q == kept_writes(u, C)
  <2>1. v \in Seq(S) /\ Good(v)
    OBVIOUS
  <2>2. /\ u \in Seq(S) /\ Len(u) = Len(v) + 1 /\ u[Len(v) + 1] = x
        /\ \A j \in 1..Len(v) : u[j] = v[j] /\ j \in 1..Len(u)
    BY <2>1
  <2>3. q = IF x.conn \in C THEN Append(r, x) ELSE r
    BY <2>1, KeptAppend
  <2>4. r \in Seq(S)
    BY <2>1
  <2> SUFFICES Good(u)
    BY <2>2
  <2>5. CASE x.conn \notin C
    BY <2>1, <2>2, <2>3, <2>5
  <2>6. CASE x.conn \in C
    <3>1. /\ q = Append(r, x) /\ Len(q) = Len(r) + 1 /\ q[Len(r) + 1] = x
          /\ \A k \in 1..Len(r) : q[k] = r[k]
      BY <2>3, <2>4, <2>6
    <3>2. q \in Seq(S) /\ Len(q) <= Len(u)
      BY <2>1, <2>2, <2>4, <3>1
    <3>3. ASSUME NEW k \in 1..Len(q) PROVE \E j \in 1..Len(u) : q[k] = u[j] /\ u[j].conn \in C
      <4>1. CASE k = Len(r) + 1
        <5>1. Len(v) + 1 \in 1..Len(u)
          BY <2>1, <2>2
        <5> QED BY <2>2, <2>6, <3>1, <4>1, <5>1
      <4>2. CASE k # Len(r) + 1
        <5>1. k \in 1..Len(r)
          BY <2>4, <3>1, <4>2
        <5>2. PICK j \in 1..Len(v) : r[k] = v[j] /\ v[j].conn \in C
          BY <2>1, <5>1
        <5> QED BY <2>2, <3>1, <5>1, <5>2
      <4> QED BY <4>1, <4>2
    <3> QED BY <3>2, <3>3
  <2> QED BY <2>5, <2>6
<1> HIDE DEF Good
<1>3. T = Seq(S)
  BY <1>1, <1>2, SeqInduction
<1>4. Good(w)
  BY <1>3
<1> QED BY <1>4 DEF Good

(* Only the connections that some entry names matter. *)
LEMMA KeptAgree ==
  ASSUME NEW S, NEW w \in Seq(S), NEW C, NEW D,
         \A k \in 1..Len(w) : w[k].conn \in C <=> w[k].conn \in D
  PROVE  kept_writes(w, C) = kept_writes(w, D)
<1> DEFINE Agree(v) == \A k \in 1..Len(v) : v[k].conn \in C <=> v[k].conn \in D
           T == {v \in Seq(S) : Agree(v) => kept_writes(v, C) = kept_writes(v, D)}
<1>1. <<>> \in T
  BY KeptEmpty
<1>2. ASSUME NEW v \in T, NEW x \in S PROVE Append(v, x) \in T
  <2> DEFINE u == Append(v, x)
  <2>1. /\ v \in Seq(S) /\ u \in Seq(S) /\ Len(u) = Len(v) + 1 /\ u[Len(v) + 1] = x
        /\ \A j \in 1..Len(v) : u[j] = v[j] /\ j \in 1..Len(u)
    OBVIOUS
  <2> HIDE DEF u
  <2> SUFFICES ASSUME Agree(u) PROVE kept_writes(u, C) = kept_writes(u, D)
    BY <2>1 DEF u
  <2>2. Agree(v)
    BY <2>1
  <2>3. x.conn \in C <=> x.conn \in D
    <3>1. Len(v) + 1 \in 1..Len(u)
      BY <2>1
    <3> QED BY <2>1, <3>1
  <2>4. kept_writes(v, C) = kept_writes(v, D)
    BY <2>2
  <2> HIDE DEF T
  <2>5. kept_writes(u, C) = IF x.conn \in C THEN Append(kept_writes(v, C), x) ELSE kept_writes(v, C)
    BY <2>1, KeptAppend DEF u
  <2>6. kept_writes(u, D) = IF x.conn \in D THEN Append(kept_writes(v, D), x) ELSE kept_writes(v, D)
    BY <2>1, KeptAppend DEF u
  <2> QED BY <2>3, <2>4, <2>5, <2>6
<1> HIDE DEF Agree
<1>3. T = Seq(S)
  BY <1>1, <1>2, SeqInduction
<1> QED BY <1>3 DEF Agree

(* Keeping twice is keeping what is in both sets. *)
LEMMA KeptTwice ==
  ASSUME NEW S, NEW w \in Seq(S), NEW C, NEW D
  PROVE  kept_writes(kept_writes(w, D), C) = kept_writes(w, C \cap D)
<1> DEFINE T == {v \in Seq(S) : kept_writes(kept_writes(v, D), C) = kept_writes(v, C \cap D)}
<1>1. <<>> \in T
  BY KeptEmpty
<1>2. ASSUME NEW v \in T, NEW x \in S PROVE Append(v, x) \in T
  <2> DEFINE u == Append(v, x)
             r == kept_writes(v, D)
  <2>1. v \in Seq(S) /\ u \in Seq(S) /\ kept_writes(r, C) = kept_writes(v, C \cap D)
    OBVIOUS
  <2> HIDE DEF T
  <2>2. r \in Seq(S) /\ kept_writes(u, D) = IF x.conn \in D THEN Append(r, x) ELSE r
    BY <2>1, KeptAppend
  <2>3. kept_writes(u, C \cap D) =
          IF x.conn \in C \cap D THEN Append(kept_writes(r, C), x) ELSE kept_writes(r, C)
    BY <2>1, KeptAppend
  <2>4. kept_writes(Append(r, x), C) =
          IF x.conn \in C THEN Append(kept_writes(r, C), x) ELSE kept_writes(r, C)
    BY <2>2, KeptAppend
  <2>5. kept_writes(kept_writes(u, D), C) = kept_writes(u, C \cap D)
    BY <2>2, <2>3, <2>4
  <2> QED BY <2>1, <2>5 DEF T
<1>3. T = Seq(S)
  BY <1>1, <1>2, SeqInduction
<1> QED BY <1>3

(* The order in which three sequences are joined does not matter.  Named,  *)
(* so that a proof applies it once, where it is needed.                    *)
Joined(x, y, z) == (x \o y) \o z = x \o (y \o z)

LEMMA JoinedAll ==
  ASSUME NEW S, NEW x \in Seq(S), NEW y \in Seq(S), NEW z \in Seq(S)
  PROVE  Joined(x, y, z)
BY ConcatAssociative DEF Joined

(* What is kept of two rings one behind the other. *)
LEMMA KeptConcat ==
  ASSUME NEW S, NEW a \in Seq(S), NEW b \in Seq(S), NEW C
  PROVE  kept_writes(a \o b, C) = kept_writes(a, C) \o kept_writes(b, C)
<1> DEFINE T == {v \in Seq(S) : kept_writes(a \o v, C) = kept_writes(a, C) \o kept_writes(v, C)}
<1>0. kept_writes(a, C) \in Seq(S)
  BY KeptEntries
<1>1. <<>> \in T
  <2>1. a \o <<>> = a /\ kept_writes(a, C) \o <<>> = kept_writes(a, C) /\ <<>> \in Seq(S)
    BY <1>0, ConcatEmptySeq
  <2> QED BY <2>1, KeptEmpty
<1>2. ASSUME NEW v \in T, NEW x \in S PROVE Append(v, x) \in T
  <2> DEFINE k == kept_writes(a, C)
             m == kept_writes(v, C)
             u == a \o v
  <2>1. v \in Seq(S) /\ kept_writes(u, C) = k \o m
    BY <1>2
  <2> HIDE DEF T
  <2>2. k \in Seq(S) /\ m \in Seq(S) /\ u \in Seq(S)
    BY <2>1, KeptEntries, ConcatProperties
  <2>3. a \o Append(v, x) = Append(u, x) /\ k \o Append(m, x) = Append(k \o m, x)
        /\ Append(v, x) \in Seq(S)
    <3>1. <<x>> \in Seq(S)
      OBVIOUS
    <3>2. Append(v, x) = v \o <<x>> /\ Append(m, x) = m \o <<x>> /\ Append(u, x) = u \o <<x>>
      BY <2>1, <2>2, AppendIsConcat
    <3>3. k \o m \in Seq(S)
      BY <2>2, ConcatProperties
    <3> HIDE DEF k, m
    <3>4. Append(k \o m, x) = (k \o m) \o <<x>>
      BY <3>3, AppendIsConcat
    <3> DEFINE y == <<x>>
    <3> HIDE DEF y
    <3>7. y \in Seq(S) /\ v \in Seq(S) /\ a \in Seq(S)
      BY <2>1, <3>1 DEF y
    <3>5. (a \o v) \o <<x>> = a \o (v \o <<x>>) /\ (k \o m) \o <<x>> = k \o (m \o <<x>>)
      <4>1. (a \o v) \o y = a \o (v \o y)
        <5>1. Joined(a, v, y)
          BY <3>7, JoinedAll
        <5> QED BY <5>1 DEF Joined
      <4>2. (k \o m) \o y = k \o (m \o y)
        <5>1. Joined(k, m, y)
          BY <2>2, <3>7, JoinedAll
        <5> QED BY <5>1 DEF Joined
      <4> QED BY <4>1, <4>2 DEF y
    <3>6. Append(v, x) \in Seq(S)
      BY <2>1, AppendProperties
    <3> QED BY <3>2, <3>4, <3>5, <3>6
  <2>4. kept_writes(Append(v, x), C) = IF x.conn \in C THEN Append(m, x) ELSE m
    BY <2>1, KeptAppend
  <2> HIDE DEF k, m, u
  <2>5. kept_writes(Append(u, x), C) = IF x.conn \in C THEN Append(k \o m, x) ELSE k \o m
    <3>1. kept_writes(Append(u, x), C) =
            IF x.conn \in C THEN Append(kept_writes(u, C), x) ELSE kept_writes(u, C)
      BY <2>2, KeptAppend
    <3> QED BY <2>1, <3>1
  <2>6. kept_writes(a \o Append(v, x), C) = k \o kept_writes(Append(v, x), C)
    BY <2>3, <2>4, <2>5
  <2> QED BY <2>3, <2>6 DEF k, T
<1> HIDE DEF T
<1>3. T \in SUBSET Seq(S)
  BY DEF T
<1>4. T = Seq(S)
  BY <1>1, <1>2, <1>3, SeqInduction
<1> QED BY <1>4 DEF T

(* Keeping what no entry is addressed to keeps nothing, keeping what all   *)
(* are addressed to keeps everything.                                      *)
LEMMA KeptNone ==
  ASSUME NEW S, NEW w \in Seq(S), NEW C, \A k \in 1..Len(w) : w[k].conn \notin C
  PROVE  kept_writes(w, C) = <<>>
<1>1. /\ kept_writes(w, C) \in Seq(S)
      /\ \A k \in 1..Len(kept_writes(w, C)) :
           \E j \in 1..Len(w) : kept_writes(w, C)[k] = w[j] /\ w[j].conn \in C
  BY KeptEntries
<1> DEFINE r == kept_writes(w, C)
<1> HIDE DEF r
<1>2. r \in Seq(S) /\ \A k \in 1..Len(r) : FALSE
  BY <1>1 DEF r
<1>3. r = <<>>
  BY <1>2
<1> QED BY <1>3 DEF r

LEMMA KeptAll ==
  ASSUME NEW S, NEW w \in Seq(S), NEW C, \A k \in 1..Len(w) : w[k].conn \in C
  PROVE  kept_writes(w, C) = w
<1> DEFINE Named(v) == \A k \in 1..Len(v) : v[k].conn \in C
           T == {v \in Seq(S) : Named(v) => kept_writes(v, C) = v}
<1>1. <<>> \in T
  BY KeptEmpty
<1>2. ASSUME NEW v \in T, NEW x \in S PROVE Append(v, x) \in T
  <2> DEFINE u == Append(v, x)
  <2>1. /\ v \in Seq(S) /\ u \in Seq(S) /\ Len(u) = Len(v) + 1 /\ u[Len(v) + 1] = x
        /\ \A j \in 1..Len(v) : u[j] = v[j] /\ j \in 1..Len(u)
    OBVIOUS
  <2> HIDE DEF u
  <2> SUFFICES ASSUME Named(u) PROVE kept_writes(u, C) = u
    BY <2>1 DEF u
  <2>2. Named(v)
    BY <2>1
  <2>3. x.conn \in C
    <3>1. Len(v) + 1 \in 1..Len(u)
      BY <2>1
    <3> QED BY <2>1, <3>1
  <2>4. kept_writes(v, C) = v
    BY <2>2
  <2> HIDE DEF T
  <2>5. kept_writes(u, C) = IF x.conn \in C THEN Append(kept_writes(v, C), x) ELSE kept_writes(v, C)
    BY <2>1, KeptAppend DEF u
  <2> QED BY <2>3, <2>4, <2>5 DEF u
<1> HIDE DEF Named
<1>3. T = Seq(S)
  BY <1>1, <1>2, SeqInduction
<1> QED BY <1>3 DEF Named
-----------------------------------------------------------------------------
(* drop_writes_for keeps requests of the queue, no more of them than there *)
(* were, and none of connection c.                                         *)
LEMMA DropWritesFor ==
  ASSUME NEW S, NEW w \in Seq(S), NEW c
  PROVE  LET r == drop_writes_for(w, c)
         IN  /\ r \in Seq(S)
             /\ Len(r) <= Len(w)
             /\ \A k \in 1..Len(r) : \E j \in 1..Len(w) : r[k] = w[j] /\ w[j].conn # c
<1> DEFINE C == Addressees(w) \ {c}
<1> HIDE DEF C
<1>1. LET r == kept_writes(w, C)
      IN  /\ r \in Seq(S)
          /\ Len(r) <= Len(w)
          /\ \A k \in 1..Len(r) : \E j \in 1..Len(w) : r[k] = w[j] /\ w[j].conn \in C
  BY KeptEntries
<1>2. c \notin C
  BY DEF C
<1> QED BY <1>1, <1>2 DEF drop_writes_for, C

(* It takes nothing from any other connection, and leaves c nothing. *)
LEMMA DropKeepsOthers ==
  ASSUME NEW S, NEW w \in Seq(S), NEW c, NEW d
  PROVE  WritesFor(drop_writes_for(w, d), c) = IF c = d THEN <<>> ELSE WritesFor(w, c)
<1> DEFINE D == Addressees(w) \ {d}
<1>1. WritesFor(drop_writes_for(w, d), c) = kept_writes(w, {c} \cap D)
  BY KeptTwice DEF WritesFor, drop_writes_for
<1>2. \A k \in 1..Len(w) : w[k].conn \in D <=> w[k].conn # d
  BY DEF Addressees
<1> HIDE DEF D
<1>3. CASE c = d
  <2>1. \A k \in 1..Len(w) : w[k].conn \notin {c} \cap D
    BY <1>2, <1>3
  <2> QED BY <1>1, <1>3, <2>1, KeptNone
<1>4. CASE c # d
  <2>1. \A k \in 1..Len(w) : w[k].conn \in {c} \cap D <=> w[k].conn \in {c}
    BY <1>2, <1>4
  <2>2. kept_writes(w, {c} \cap D) = kept_writes(w, {c})
    BY <2>1, KeptAgree
  <2> QED BY <1>1, <1>4, <2>2 DEF WritesFor
<1> QED BY <1>3, <1>4

(* poll_writes takes one entry and keeps the others in their order. *)
LEMMA RemoveEntryKeeps ==
  ASSUME NEW S, NEW w \in Seq(S), NEW i \in 1..Len(w)
  PROVE  LET r == RemoveEntry(w, i)
         IN  /\ r \in Seq(S)
             /\ Len(r) = Len(w) - 1
             /\ \A k \in 1..Len(r) : r[k] = IF k < i THEN w[k] ELSE w[k + 1]
             /\ \A k \in 1..Len(r) : \E j \in 1..Len(w) : r[k] = w[j]
<1> DEFINE a == SubSeq(w, 1, i - 1)
           b == SubSeq(w, i + 1, Len(w))
           r == a \o b
<1>1. a \in Seq(S) /\ Len(a) = i - 1 /\ \A k \in 1..Len(a) : a[k] = w[k]
  OBVIOUS
<1>2. b \in Seq(S) /\ Len(b) = Len(w) - i /\ \A k \in 1..Len(b) : b[k] = w[k + i]
  OBVIOUS
<1> HIDE DEF a, b
<1>3. r \in Seq(S) /\ Len(r) = Len(w) - 1
  <2>1. r \in Seq(S)
    BY <1>1, <1>2
  <2>2. Len(r) = Len(a) + Len(b)
    BY <1>1, <1>2, ConcatProperties
  <2>3. Len(r) = Len(w) - 1
    BY <1>1, <1>2, <2>2
  <2> QED BY <2>1, <2>3
<1>4. ASSUME NEW k \in 1..Len(r)
      PROVE  r[k] = (IF k < i THEN w[k] ELSE w[k + 1]) /\ \E j \in 1..Len(w) : r[k] = w[j]
  <2>1. CASE k <= i - 1
    <3>1. r[k] = w[k] /\ k \in 1..Len(w) /\ k < i
      BY <1>1, <1>2, <1>3, <2>1
    <3> QED BY <3>1
  <2>2. CASE k > i - 1
    <3>1. r[k] = b[k - (i - 1)] /\ k - (i - 1) \in 1..Len(b)
      BY <1>1, <1>2, <1>3, <2>2
    <3>2. r[k] = w[k + 1] /\ k + 1 \in 1..Len(w) /\ ~(k < i)
      BY <1>2, <1>3, <2>2, <3>1
    <3> QED BY <3>2
  <2> QED BY <2>1, <2>2, <1>3
<1> QED BY <1>3, <1>4 DEF RemoveEntry, a, b

(* Taking an entry out of a queue that got one more at its end. *)
LEMMA RemoveAppend ==
  ASSUME NEW S, NEW w \in Seq(S), NEW x \in S, NEW i \in 1..(Len(w) + 1)
  PROVE  RemoveEntry(Append(w, x), i) =
           IF i = Len(w) + 1 THEN w ELSE Append(RemoveEntry(w, i), x)
<1> DEFINE u == Append(w, x)
           r == RemoveEntry(u, i)
<1>1. /\ u \in Seq(S) /\ Len(u) = Len(w) + 1 /\ u[Len(w) + 1] = x
      /\ \A k \in 1..Len(w) : u[k] = w[k]
  OBVIOUS
<1> HIDE DEF u
<1>2. /\ r \in Seq(S) /\ Len(r) = Len(w)
      /\ \A k \in 1..Len(r) : r[k] = IF k < i THEN u[k] ELSE u[k + 1]
  <2>1. i \in 1..Len(u)
    BY <1>1
  <2> QED BY <1>1, <2>1, RemoveEntryKeeps
<1> HIDE DEF r
<1>3. CASE i = Len(w) + 1
  <2>1. \A k \in 1..Len(r) : r[k] = w[k]
    BY <1>1, <1>2, <1>3
  <2>2. r = w
    BY <1>2, <2>1, SeqEqual
  <2> QED BY <1>3, <2>2 DEF r, u
<1>4. CASE i # Len(w) + 1
  <2> DEFINE q == RemoveEntry(w, i)
             p == Append(q, x)
  <2>1. i \in 1..Len(w)
    BY <1>4
  <2>2. /\ q \in Seq(S) /\ Len(q) = Len(w) - 1
        /\ \A k \in 1..Len(q) : q[k] = IF k < i THEN w[k] ELSE w[k + 1]
    BY <2>1, RemoveEntryKeeps
  <2> HIDE DEF q
  <2>3. /\ p \in Seq(S) /\ Len(p) = Len(w) /\ p[Len(w)] = x
        /\ \A k \in 1..Len(q) : p[k] = q[k]
    BY <2>1, <2>2
  <2> HIDE DEF p
  <2>4. ASSUME NEW k \in 1..Len(r) PROVE r[k] = p[k]
    <3>1. CASE k = Len(w)
      BY <1>1, <1>2, <2>1, <2>3, <3>1
    <3>2. CASE k # Len(w)
      <4>1. k \in 1..Len(q) /\ k \in 1..Len(w) /\ k + 1 \in 1..Len(w)
        BY <1>2, <2>2, <3>2
      <4> QED BY <1>1, <1>2, <2>2, <2>3, <4>1
    <3> QED BY <3>1, <3>2
  <2>5. r = p
    BY <1>2, <2>3, <2>4, SeqEqual
  <2> QED BY <1>4, <2>5 DEF r, u, p, q
<1> QED BY <1>3, <1>4

(* When the entry taken is the first of its connection, that connection    *)
(* loses its first entry and no other loses anything.                      *)
LEMMA RemoveFirstOf ==
  ASSUME NEW S, NEW w \in Seq(S), NEW i \in 1..Len(w), NEW c,
         \A j \in 1..(i - 1) : w[j].conn # w[i].conn
  PROVE  IF w[i].conn = c
         THEN WritesFor(w, c) # <<>> /\ WritesFor(RemoveEntry(w, i), c) = Tail(WritesFor(w, c))
         ELSE WritesFor(RemoveEntry(w, i), c) = WritesFor(w, c)
<1> DEFINE First(v, n) == \A j \in 1..(n - 1) : v[j].conn # v[n].conn
           Good(v, n) ==
             IF v[n].conn = c
             THEN WritesFor(v, c) # <<>> /\ WritesFor(RemoveEntry(v, n), c) = Tail(WritesFor(v, c))
             ELSE WritesFor(RemoveEntry(v, n), c) = WritesFor(v, c)
           T == {v \in Seq(S) : \A n \in 1..Len(v) : First(v, n) => Good(v, n)}
<1>1. <<>> \in T
  <2>1. <<>> \in Seq(S) /\ Len(<<>>) = 0
    OBVIOUS
  <2> QED BY <2>1
<1>2. ASSUME NEW v \in T, NEW x \in S PROVE Append(v, x) \in T
  <2> DEFINE u == Append(v, x)
  <2>1. /\ v \in Seq(S) /\ u \in Seq(S) /\ Len(u) = Len(v) + 1 /\ u[Len(v) + 1] = x
        /\ \A j \in 1..Len(v) : u[j] = v[j]
    OBVIOUS
  <2>2. /\ WritesFor(v, c) \in Seq(S)
        /\ WritesFor(u, c) = IF x.conn = c THEN Append(WritesFor(v, c), x) ELSE WritesFor(v, c)
    <3>1. x.conn \in {c} <=> x.conn = c
      OBVIOUS
    <3> QED BY <2>1, <3>1, KeptAppend, SMTT(30) DEF WritesFor
  <2> SUFFICES ASSUME NEW n \in 1..Len(u), First(u, n) PROVE Good(u, n)
    BY <2>1
  <2>3. n \in 1..(Len(v) + 1)
    BY <2>1
  <2>4. RemoveEntry(u, n) = IF n = Len(v) + 1 THEN v ELSE Append(RemoveEntry(v, n), x)
    BY <2>1, <2>3, RemoveAppend
  <2> HIDE DEF u
  <2>5. CASE n = Len(v) + 1
    <3>1. u[n] = x /\ RemoveEntry(u, n) = v
      BY <2>1, <2>4, <2>5
    <3>2. CASE x.conn # c
      BY <2>2, <3>1, <3>2
    <3>3. CASE x.conn = c
      <4>1. \A j \in 1..Len(v) : v[j].conn \notin {c}
        <5>1. \A j \in 1..Len(v) : j \in 1..(n - 1) /\ u[j] = v[j]
          BY <2>1, <2>5
        <5> QED BY <3>1, <3>3, <5>1
      <4>2. WritesFor(v, c) = <<>>
        BY <2>1, <4>1, KeptNone DEF WritesFor
      <4>3. WritesFor(u, c) = Append(<<>>, x)
        BY <2>2, <3>3, <4>2
      <4>4. Append(<<>>, x) # <<>> /\ Tail(Append(<<>>, x)) = <<>>
        OBVIOUS
      <4> QED BY <3>1, <3>3, <4>2, <4>3, <4>4
    <3> QED BY <3>2, <3>3
  <2>6. CASE n # Len(v) + 1
    <3>1. n \in 1..Len(v) /\ u[n] = v[n] /\ RemoveEntry(u, n) = Append(RemoveEntry(v, n), x)
      BY <2>1, <2>3, <2>4, <2>6
    <3>2. First(v, n)
      <4>1. \A j \in 1..(n - 1) : j \in 1..Len(v)
        BY <2>1, <3>1
      <4> QED BY <2>1, <3>1, <4>1
    <3>3. Good(v, n)
      BY <3>1, <3>2
    <3>4. RemoveEntry(v, n) \in Seq(S)
      BY <2>1, <3>1, RemoveEntryKeeps
    <3> DEFINE r == RemoveEntry(v, n)
    <3>5. WritesFor(Append(r, x), c) = IF x.conn = c THEN Append(WritesFor(r, c), x) ELSE WritesFor(r, c)
      <4>1. x.conn \in {c} <=> x.conn = c
        OBVIOUS
      <4> QED BY <3>4, <4>1, KeptAppend DEF WritesFor
    <3> HIDE DEF First, T
    <3>6. CASE v[n].conn # c
      BY <2>2, <3>1, <3>3, <3>5, <3>6
    <3>7. CASE v[n].conn = c
      <4>1. WritesFor(v, c) # <<>> /\ WritesFor(r, c) = Tail(WritesFor(v, c))
        BY <3>3, <3>7
      <4>2. Tail(Append(WritesFor(v, c), x)) = Append(Tail(WritesFor(v, c)), x)
            /\ Append(WritesFor(v, c), x) # <<>>
        BY <2>2, <4>1, HeadTailAppend, AppendProperties
      <4> QED BY <2>2, <3>1, <3>5, <3>7, <4>1, <4>2
    <3> QED BY <3>6, <3>7
  <2> QED BY <2>5, <2>6
<1> HIDE DEF First, Good
<1>3. T = Seq(S)
  BY <1>1, <1>2, SeqInduction
<1>4. First(w, i)
  BY DEF First
<1>5. Good(w, i)
  BY <1>3, <1>4
<1> QED BY <1>5 DEF Good
-----------------------------------------------------------------------------
(* The reset framer is in a state it can be in. *)
LEMMA ResetOK == framer_reset \in FramerState /\ FramerOK(framer_reset)
<1>1. /\ framer_reset.depth = 0
      /\ framer_reset.in_string = FALSE
      /\ framer_reset.escape = FALSE
  BY DEF framer_reset
<1>2. framer_reset \in FramerState
  BY DEF framer_reset, FramerState
<1>3. ~framer_reset.in_string /\ ~framer_reset.escape
  BY <1>1, Zenon
<1> QED BY <1>2, <1>3 DEF FramerOK

(* Feeding one byte keeps the framer in a state it can be in. *)
LEMMA FeedOK ==
  ASSUME NEW f, FramerOK(f), NEW b \in Byte
  PROVE  FramerOK(feed_state(f, b))
<1> DEFINE g == feed_state(f, b)
<1>1. f.depth \in Nat /\ f.in_string \in BOOLEAN /\ f.escape \in BOOLEAN
  BY DEF FramerOK, FramerState
<1>2. g.depth \in Nat /\ g.in_string \in BOOLEAN /\ g.escape \in BOOLEAN
  <2>1. g.depth \in Nat
    BY <1>1 DEF feed_state
  <2>2. g.in_string \in BOOLEAN
    BY <1>1, Zenon DEF feed_state, next_escape
  <2>3. g.escape \in BOOLEAN
    BY <1>1, Zenon DEF feed_state, next_escape
  <2> QED BY <2>1, <2>2, <2>3
<1>3. g \in FramerState
  <2>1. g = [depth |-> g.depth, in_string |-> g.in_string, escape |-> g.escape]
    BY DEF feed_state
  <2> HIDE DEF g
  <2> QED BY <1>2, <2>1 DEF FramerState
<1>4. g.in_string => g.depth > 0
  <2>1. CASE f.in_string
    BY <1>1, <2>1 DEF FramerOK, in_message, feed_state
  <2>2. CASE ~f.in_string
    BY <1>1, <2>2 DEF FramerOK, in_message, feed_state
  <2> QED BY <2>1, <2>2
<1>5. g.escape => g.in_string
  BY <1>1 DEF FramerOK, feed_state, next_escape
<1> QED BY <1>3, <1>4, <1>5 DEF FramerOK, in_message

(* A framer outside every object and literal is the reset one. *)
LEMMA Cleared ==
  ASSUME NEW f \in FramerState, f.depth = 0, ~f.in_string, ~f.escape
  PROVE  f = framer_reset
<1>1. f.in_string = FALSE /\ f.escape = FALSE
  BY Zenon DEF FramerState
<1> QED BY <1>1, SMT DEF FramerState, framer_reset

(* A byte has one of the five effects of gs_frame_step; one that ends an   *)
(* object, or that cannot begin one, leaves the framer as reset left it.   *)
LEMMA FeedStep ==
  ASSUME NEW f, FramerOK(f), NEW b \in Byte
  PROVE  /\ feed_step(f, b) \in FrameStep
         /\ feed_step(f, b) \in {"CLOSE", "GARBAGE"} => feed_state(f, b) = framer_reset
<1>1. f.depth \in Nat /\ f.in_string \in BOOLEAN /\ f.escape \in BOOLEAN
  BY DEF FramerOK, FramerState
<1>2. feed_state(f, b) \in FramerState
  BY FeedOK DEF FramerOK
<1>3. feed_step(f, b) \in FrameStep
  BY <1>1 DEF feed_step, FrameStep
<1>4. CASE f.depth = 0
  <2>1. ~f.in_string /\ ~f.escape
    BY <1>4 DEF FramerOK, in_message
  <2>2. CASE feed_step(f, b) = "GARBAGE"
    <3>1. b # "open"
      BY <1>4, <2>2 DEF feed_step
    <3>2. feed_state(f, b) = framer_reset
      <4>1. feed_state(f, b).depth = 0
        BY <1>4, <3>1 DEF feed_state
      <4>2. ~feed_state(f, b).in_string /\ ~feed_state(f, b).escape
        <5>1. ~(f.depth > 0)
          BY <1>4
        <5> QED BY <2>1, <5>1, Zenon DEF feed_state, next_escape
      <4> QED BY <1>2, <4>1, <4>2, Cleared
    <3> QED BY <1>3, <3>2
  <2>3. feed_step(f, b) # "CLOSE"
    BY <1>4 DEF feed_step
  <2> QED BY <1>3, <2>2, <2>3
<1>5. CASE f.depth # 0
  <2>1. CASE feed_step(f, b) = "CLOSE"
    <3>1. b = "close" /\ f.depth = 1 /\ ~f.in_string
      BY <1>1, <1>5, <2>1 DEF feed_step
    <3>2. ~f.escape
      BY <3>1 DEF FramerOK
    <3>3. feed_state(f, b) = framer_reset
      <4>1. feed_state(f, b).depth = 0
        BY <1>1, <3>1 DEF feed_state
      <4>2. ~feed_state(f, b).in_string /\ ~feed_state(f, b).escape
        BY <3>1, <3>2 DEF feed_state, next_escape
      <4> QED BY <1>2, <4>1, <4>2, Cleared
    <3> QED BY <1>3, <3>3
  <2>2. feed_step(f, b) # "GARBAGE"
    BY <1>1, <1>5 DEF feed_step
  <2> QED BY <1>3, <2>1, <2>2
<1> QED BY <1>4, <1>5
(* Whitespace between objects changes nothing. *)
LEMMA ResetSkips ==
  /\ feed_step(framer_reset, "ws") = "SKIP"
  /\ feed_state(framer_reset, "ws") = framer_reset
<1> DEFINE f == framer_reset
           g == feed_state(f, "ws")
<1>1. f.depth = 0 /\ ~(f.depth > 0) /\ "ws" \in Byte /\ FramerOK(f)
  BY ResetOK DEF framer_reset, Byte
<1>2. f.in_string = FALSE /\ f.escape = FALSE
  BY DEF framer_reset
<1> HIDE DEF f
<1>3. feed_step(f, "ws") = "SKIP"
  BY <1>1 DEF feed_step
<1>4. g \in FramerState
  BY <1>1, FeedOK DEF FramerOK
<1>5. g.depth = 0
  BY <1>1 DEF feed_state
<1>6. ~g.in_string /\ ~g.escape
  BY <1>1, <1>2, Zenon DEF feed_state, next_escape
<1>7. g = framer_reset
  BY <1>4, <1>5, <1>6, Cleared
<1> QED BY <1>3, <1>7 DEF f

(* The states the machine can reach. *)
Reachable == {f \in FramerState : FramerOK(f)}

(* Entry k of the table the search fills, from the entry before. *)
ScanPass(buf, g, k) == IF k = 0 THEN framer_reset ELSE feed_state(g[k - 1], buf[k])

(* frame_scan is the framer run over the buffer, byte after byte. *)
LEMMA ScanRecurrence ==
  ASSUME NEW buf \in Seq(Byte)
  PROVE  LET h == frame_scan(buf)
         IN  /\ h \in [0..Len(buf) -> Reachable]
             /\ h[0] = framer_reset
             /\ \A k \in 1..Len(buf) : h[k] = feed_state(h[k - 1], buf[k])
<1> DEFINE n == Len(buf)
           F == [k \in 1..n |-> [f \in Reachable |-> feed_state(f, buf[k])]]
<1>1. \A k \in 1..n, f \in Reachable : feed_state(f, buf[k]) \in Reachable
  BY FeedOK DEF Reachable, FramerOK
<1>2. framer_reset \in Reachable /\ n \in Nat
  BY ResetOK DEF Reachable
<1>3. /\ F \in [1..n -> [Reachable -> Reachable]]
      /\ \A k \in 1..n, f \in Reachable : F[k][f] = feed_state(f, buf[k])
  BY <1>1
<1> HIDE DEF F, n
<1>4. PICK g \in [0..n -> Reachable] : Iterates(g, framer_reset, F, n)
  BY <1>2, <1>3, LoopExists
<1>5. ASSUME NEW k \in 0..n PROVE g[k] = ScanPass(buf, g, k)
  <2>1. CASE k = 0
    BY <1>4, <2>1 DEF ScanPass, Iterates
  <2>2. CASE k # 0
    <3>1. k \in 1..n /\ g[k - 1] \in Reachable
      BY <1>2, <1>4, <2>2
    <3> QED BY <1>3, <1>4, <2>2, <3>1 DEF ScanPass, Iterates
  <2> QED BY <2>1, <2>2
<1>6. g = [k \in 0..n |-> ScanPass(buf, g, k)]
  BY <1>4, <1>5
<1> DEFINE h == frame_scan(buf)
<1>7. h = [k \in 0..n |-> ScanPass(buf, h, k)]
  BY <1>6, Zenon DEF frame_scan, ScanPass, n
<1> HIDE DEF h
<1>8. h[0] = framer_reset /\ \A k \in 1..n : h[k] = feed_state(h[k - 1], buf[k])
  BY <1>2, <1>7 DEF ScanPass
<1> DEFINE T == {k \in Nat : k <= n => h[k] \in Reachable}
<1>9. 0 \in T
  BY <1>2, <1>8
<1>10. ASSUME NEW k \in T PROVE k + 1 \in T
  <2> SUFFICES ASSUME k + 1 <= n PROVE h[k + 1] \in Reachable
    OBVIOUS
  <2>1. h[k] \in Reachable /\ k + 1 \in 1..n /\ (k + 1) - 1 = k
    BY <1>2, <1>10
  <2> QED BY <1>1, <1>8, <2>1 DEF n
<1> HIDE DEF T
<1>11. T = Nat
  <2>1. T \in SUBSET Nat
    BY DEF T
  <2> QED BY <1>9, <1>10, <2>1, SetInduction
<1>12. \A k \in 0..n : h[k] \in Reachable
  BY <1>2, <1>11 DEF T
<1>13. h \in [0..n -> Reachable]
  BY <1>7, <1>12
<1> QED BY <1>8, <1>13 DEF h, n

(* One byte more leaves the table of the bytes before as it was. *)
LEMMA ScanAppend ==
  ASSUME NEW b \in Seq(Byte), NEW x \in Byte
  PROVE  /\ \A k \in 0..Len(b) : frame_scan(Append(b, x))[k] = frame_scan(b)[k]
         /\ frame_scan(Append(b, x))[Len(b) + 1] = feed_state(frame_scan(b)[Len(b)], x)
<1> DEFINE v == Append(b, x)
           n == Len(b)
           g == frame_scan(v)
           h == frame_scan(b)
<1>1. /\ v \in Seq(Byte) /\ Len(v) = n + 1 /\ n \in Nat
      /\ v[n + 1] = x /\ \A k \in 1..n : v[k] = b[k]
  OBVIOUS
<1> HIDE DEF v
<1>2. g[0] = framer_reset /\ \A k \in 1..(n + 1) : g[k] = feed_state(g[k - 1], v[k])
  BY <1>1, ScanRecurrence
<1>3. h[0] = framer_reset /\ \A k \in 1..n : h[k] = feed_state(h[k - 1], b[k])
  BY ScanRecurrence
<1> HIDE DEF g, h, n
<1> DEFINE T == {k \in Nat : k <= n => g[k] = h[k]}
<1>4. 0 \in T
  BY <1>2, <1>3
<1>5. ASSUME NEW k \in T PROVE k + 1 \in T
  <2> SUFFICES ASSUME k + 1 <= n PROVE g[k + 1] = h[k + 1]
    OBVIOUS
  <2>1. g[k] = h[k] /\ k + 1 \in 1..n /\ k + 1 \in 1..(n + 1) /\ (k + 1) - 1 = k
    BY <1>1, <1>5
  <2> QED BY <1>1, <1>2, <1>3, <2>1
<1> HIDE DEF T
<1>6. T = Nat
  <2>1. T \in SUBSET Nat
    BY DEF T
  <2> QED BY <1>4, <1>5, <2>1, SetInduction
<1>7. \A k \in 0..n : g[k] = h[k]
  BY <1>1, <1>6 DEF T
<1>8. g[n + 1] = feed_state(h[n], x)
  <2>1. n + 1 \in 1..(n + 1) /\ (n + 1) - 1 = n /\ n \in 0..n
    BY <1>1
  <2> QED BY <1>1, <1>2, <1>7, <2>1
<1> QED BY <1>7, <1>8 DEF g, h, v, n

(* What byte i of a buffer does to the framer the bytes before it leave. *)
StepAt(buf, i) == feed_step(frame_scan(buf)[i - 1], buf[i])

(* The bytes of b leave the framer in f and close no object, nor does any  *)
(* of them stand where none can; one opened an object if f is inside one.  *)
Scanned(b, f) ==
  /\ b \in Seq(Byte)
  /\ f = frame_scan(b)[Len(b)]
  /\ \A i \in 1..Len(b) : StepAt(b, i) \notin {"CLOSE", "GARBAGE"}
  /\ in_message(f) <=> \E i \in 1..Len(b) : StepAt(b, i) = "OPEN"

LEMMA ScannedEmpty == Scanned(<<>>, framer_reset)
<1> DEFINE e == <<>>
<1>1. e \in Seq(Byte) /\ Len(e) = 0
  OBVIOUS
<1> HIDE DEF e
<1>2. frame_scan(e)[0] = framer_reset
  BY <1>1, ScanRecurrence
<1>3. ~in_message(framer_reset)
  BY DEF in_message, framer_reset
<1>4. Scanned(e, framer_reset)
  BY <1>1, <1>2, <1>3 DEF Scanned
<1> QED BY <1>4 DEF e

LEMMA ScannedReachable == ASSUME NEW b, NEW f, Scanned(b, f) PROVE FramerOK(f)
<1>1. b \in Seq(Byte) /\ f = frame_scan(b)[Len(b)] /\ Len(b) \in 0..Len(b)
  BY DEF Scanned
<1>2. frame_scan(b) \in [0..Len(b) -> Reachable]
  BY <1>1, ScanRecurrence
<1> QED BY <1>1, <1>2 DEF Reachable

(* The steps of a buffer are those of its prefix, and that of its last. *)
LEMMA StepAppend ==
  ASSUME NEW b \in Seq(Byte), NEW x \in Byte
  PROVE  /\ \A i \in 1..Len(b) : StepAt(Append(b, x), i) = StepAt(b, i)
         /\ StepAt(Append(b, x), Len(b) + 1) = feed_step(frame_scan(b)[Len(b)], x)
<1> DEFINE v == Append(b, x)
<1>1. /\ \A k \in 0..Len(b) : frame_scan(v)[k] = frame_scan(b)[k]
  BY ScanAppend
<1>2. v[Len(b) + 1] = x /\ \A k \in 1..Len(b) : v[k] = b[k]
  OBVIOUS
<1> HIDE DEF v
<1>3. ASSUME NEW i \in 1..Len(b) PROVE StepAt(v, i) = StepAt(b, i)
  <2>1. i - 1 \in 0..Len(b)
    OBVIOUS
  <2> QED BY <1>1, <1>2, <2>1 DEF StepAt
<1>4. StepAt(v, Len(b) + 1) = feed_step(frame_scan(b)[Len(b)], x)
  <2>1. (Len(b) + 1) - 1 = Len(b) /\ Len(b) \in 0..Len(b)
    OBVIOUS
  <2> QED BY <1>1, <1>2, <2>1 DEF StepAt
<1> QED BY <1>3, <1>4 DEF v

(* Whether the framer is inside an object after a byte. *)
LEMMA FeedInside ==
  ASSUME NEW f, FramerOK(f), NEW b \in Byte, feed_step(f, b) \notin {"CLOSE", "GARBAGE"}
  PROVE  in_message(feed_state(f, b)) <=> in_message(f) \/ feed_step(f, b) = "OPEN"
<1>1. f.depth \in Nat /\ f.in_string \in BOOLEAN
  BY DEF FramerOK, FramerState
<1>2. ~in_message(f) => ~f.in_string
  BY DEF FramerOK
<1>3. CASE f.depth = 0
  BY <1>1, <1>2, <1>3 DEF feed_step, feed_state, in_message
<1>4. CASE f.depth > 0
  BY <1>1, <1>4 DEF feed_step, feed_state, in_message
<1> QED BY <1>1, <1>3, <1>4

(* One byte more that neither closes nor is refused. *)
LEMMA ScannedAppend ==
  ASSUME NEW b, NEW f, Scanned(b, f), NEW x \in Byte, feed_step(f, x) \notin {"CLOSE", "GARBAGE"}
  PROVE  Scanned(Append(b, x), feed_state(f, x))
<1> DEFINE v == Append(b, x)
           g == feed_state(f, x)
<1>1. /\ b \in Seq(Byte) /\ f = frame_scan(b)[Len(b)]
      /\ \A i \in 1..Len(b) : StepAt(b, i) \notin {"CLOSE", "GARBAGE"}
      /\ in_message(f) <=> \E i \in 1..Len(b) : StepAt(b, i) = "OPEN"
  BY DEF Scanned
<1>2. v \in Seq(Byte) /\ Len(v) = Len(b) + 1 /\ Len(b) \in Nat
  BY <1>1
<1>3. frame_scan(v)[Len(v)] = g
  BY <1>1, <1>2, ScanAppend
<1>4. /\ \A i \in 1..Len(b) : StepAt(v, i) = StepAt(b, i)
      /\ StepAt(v, Len(b) + 1) = feed_step(f, x)
  BY <1>1, StepAppend
<1>5. in_message(g) <=> in_message(f) \/ feed_step(f, x) = "OPEN"
  BY ScannedReachable, FeedInside
<1> HIDE DEF v, g
<1>6. \A i \in 1..Len(v) : i \in 1..Len(b) \/ i = Len(b) + 1
  BY <1>2
<1>7. \A i \in 1..Len(v) : StepAt(v, i) \notin {"CLOSE", "GARBAGE"}
  BY <1>1, <1>4, <1>6
<1>8. in_message(g) <=> \E i \in 1..Len(v) : StepAt(v, i) = "OPEN"
  <2>1. \A i \in 1..Len(b) : i \in 1..Len(v)
    BY <1>2
  <2>2. Len(b) + 1 \in 1..Len(v)
    BY <1>2
  <2> QED BY <1>1, <1>4, <1>5, <1>6, <2>1, <2>2
<1> QED BY <1>2, <1>3, <1>7, <1>8 DEF Scanned, v, g

(* gsp_frame_find over such a buffer waits for more, and points at the     *)
(* brace of an object that has begun.                                      *)
LEMMA FindPending ==
  ASSUME NEW b, NEW f, Scanned(b, f)
  PROVE  /\ gsp_frame_find(b).status = "PENDING"
         /\ in_message(f) <=> gsp_frame_find(b).start < Len(b)
<1> DEFINE stops == {i \in 1..Len(b) : StepAt(b, i) \in {"CLOSE", "GARBAGE"}}
           opens == {i \in 1..Len(b) : StepAt(b, i) = "OPEN" /\ \A j \in stops : i <= j}
           begin == IF opens = {} THEN Len(b) ELSE (CHOOSE i \in opens : TRUE) - 1
<1>1. b \in Seq(Byte) /\ stops = {}
  BY DEF Scanned
<1>2. gsp_frame_find(b) = [status |-> "PENDING", start |-> begin, end |-> Len(b)]
  BY <1>1, Zenon DEF gsp_frame_find, StepAt
<1>3. in_message(f) <=> opens # {}
  BY <1>1 DEF Scanned
<1>4. opens # {} => begin < Len(b)
  <2> SUFFICES ASSUME opens # {} PROVE begin < Len(b)
    OBVIOUS
  <2>1. (CHOOSE i \in opens : TRUE) \in opens
    BY Zenon
  <2>2. (CHOOSE i \in opens : TRUE) \in 1..Len(b)
    BY <2>1
  <2> QED BY <1>1, <2>2
<1>5. opens = {} => ~(begin < Len(b))
  BY <1>1
<1> HIDE DEF begin, opens
<1> QED BY <1>2, <1>3, <1>4, <1>5

(* ... and stops at the first byte that closes an object or is refused. *)
LEMMA FindBoundary ==
  ASSUME NEW b, NEW f, Scanned(b, f), NEW x \in Byte,
         feed_step(f, x) \in {"CLOSE", "GARBAGE"}
  PROVE  LET found == gsp_frame_find(Append(b, x))
         IN  /\ feed_step(f, x) = "CLOSE" => found.status = "OK" /\ found.end = Len(b) + 1
             /\ feed_step(f, x) = "GARBAGE" => found.status = "MALFORMED" /\ found.start = Len(b)
<1> DEFINE v == Append(b, x)
           n == Len(b) + 1
           stops == {i \in 1..Len(v) : StepAt(v, i) \in {"CLOSE", "GARBAGE"}}
           opens == {i \in 1..Len(v) : StepAt(v, i) = "OPEN" /\ \A j \in stops : i <= j}
           begin == IF opens = {} THEN Len(v) ELSE (CHOOSE i \in opens : TRUE) - 1
           last  == CHOOSE i \in stops : \A j \in stops : i <= j
<1>1. b \in Seq(Byte) /\ f = frame_scan(b)[Len(b)]
  BY DEF Scanned
<1>2. v \in Seq(Byte) /\ Len(v) = n /\ n \in Nat /\ n \in 1..n /\ n - 1 = Len(b)
  BY <1>1
<1>3. /\ \A i \in 1..Len(b) : StepAt(v, i) = StepAt(b, i)
      /\ StepAt(v, n) = feed_step(f, x)
  BY <1>1, StepAppend
<1> HIDE DEF v
<1>4. stops = {n}
  <2>1. n \in stops
    BY <1>2, <1>3
  <2>2. ASSUME NEW i \in stops, i # n PROVE FALSE
    <3>1. i \in 1..Len(b)
      BY <1>1, <1>2, <2>2
    <3> QED BY <1>3, <3>1 DEF Scanned
  <2> QED BY <2>1, <2>2
<1>5. last = n
  <2> HIDE DEF stops
  <2>1. \E i \in stops : \A j \in stops : i <= j
    BY <1>2, <1>4
  <2>2. last \in stops
    BY <2>1, Zenon
  <2> QED BY <1>4, <2>2
<1>6. gsp_frame_find(v) =
        IF StepAt(v, last) = "CLOSE"
        THEN [status |-> "OK", start |-> begin, end |-> last]
        ELSE [status |-> "MALFORMED", start |-> last - 1, end |-> Len(v)]
  <2>1. stops # {}
    BY <1>4
  <2> QED BY <2>1, Zenon DEF gsp_frame_find, StepAt
<1> HIDE DEF begin, last, n
<1> QED BY <1>2, <1>3, <1>5, <1>6 DEF v, n
-----------------------------------------------------------------------------
(* A wrapped counter is a counter. *)
LEMMA SuccType == ASSUME NEW n \in Counter PROVE Succ(n) \in Counter
BY EventAssumption DEF Counter, Succ

(* The ring create() leaves is in good order. *)
LEMMA EmptyOK == QueueOK(EmptyQueue)
<1>1. 0 \in Counter /\ "no" \in Warned
  BY EventAssumption DEF Counter, Warned
<1>2. EmptyQueue \in [items : Seq(Event), sequence : Counter, dropped : Counter,
                     drop_warned : Warned]
  BY <1>1 DEF EmptyQueue
<1>3. Len(EmptyQueue.items) = 0
  BY DEF EmptyQueue
<1> QED BY <1>2, <1>3, EventAssumption DEF QueueOK

(* ring_push_event keeps a queue in good order: a full ring makes room by  *)
(* dropping one entry before it takes one.                                 *)
LEMMA PushOK ==
  ASSUME NEW q, QueueOK(q), NEW ev \in Event
  PROVE  /\ QueueOK(ring_push_event(q, ev))
         /\ ring_push_event(q, ev).items # <<>>
<1>1. CASE Room(q)
  <2>1. /\ Append(q.items, ev) \in Seq(Event)
        /\ Len(Append(q.items, ev)) = Len(q.items) + 1
    BY DEF QueueOK
  <2> QED BY <1>1, <2>1, EventAssumption, SMTT(30) DEF QueueOK, ring_push_event, Room
<1>2. CASE ~Room(q)
  <2>1. q.items \in Seq(Event) /\ Len(q.items) = EventRing /\ q.items # <<>>
    BY <1>2, EventAssumption DEF QueueOK, Room
  <2>2. /\ Tail(q.items) \in Seq(Event)
        /\ Len(Tail(q.items)) = EventRing - 1
    BY <2>1, EventAssumption
  <2>3. /\ Append(Tail(q.items), ev) \in Seq(Event)
        /\ Len(Append(Tail(q.items), ev)) = EventRing
    BY <2>2, EventAssumption
  <2>4. Succ(q.dropped) \in Counter
    BY SuccType DEF QueueOK
  <2>5. (IF q.drop_warned = "no" THEN "owed" ELSE "said") \in Warned
    BY DEF Warned
  <2> DEFINE items   == Append(Tail(q.items), ev)
             dropped == Succ(q.dropped)
             warned  == IF q.drop_warned = "no" THEN "owed" ELSE "said"
             p == [q EXCEPT !.items = items, !.dropped = dropped, !.drop_warned = warned]
  <2>6. ring_push_event(q, ev) = p
    BY <1>2 DEF ring_push_event
  <2>7. items # <<>> /\ Len(items) <= EventRing
    BY <2>3, EventAssumption
  <2> HIDE DEF items, dropped, warned
  <2>8. items \in Seq(Event) /\ dropped \in Counter /\ warned \in Warned
    BY <2>3, <2>4, <2>5 DEF items, dropped, warned
  <2>9. QueueOK(p) /\ p.items = items
    BY <2>7, <2>8 DEF QueueOK
  <2> HIDE DEF p
  <2> QED BY <2>6, <2>7, <2>9
<1> QED BY <1>1, <1>2

(* Numbering an event changes the counter only. *)
LEMMA NumberedOK ==
  ASSUME NEW q, QueueOK(q) PROVE QueueOK(Numbered(q))
BY SuccType DEF QueueOK, Numbered

(* emit keeps a queue in good order, the warning it may add included. *)
LEMMA EmitOK ==
  ASSUME NEW q, QueueOK(q), NEW type \in EventTypes, NEW conn \in Nat, NEW detail \in Details
  PROVE  QueueOK(emit(q, type, conn, detail))
<1> DEFINE ev == [type |-> type, conn |-> conn, detail |-> detail,
                  sequence |-> q.sequence, value |-> 0]
           p  == ring_push_event(Numbered(q), ev)
           p2 == [p EXCEPT !.drop_warned = "said"]
<1>1. ev \in Event
  BY EventAssumption DEF Event, QueueOK, Counter
<1>2. QueueOK(p)
  BY <1>1, NumberedOK, PushOK
<1> HIDE DEF p, ev
<1>3. QueueOK(Numbered(p2))
  <2>1. QueueOK(p2)
    BY <1>2 DEF QueueOK, Warned
  <2> QED BY <2>1, NumberedOK
<1>4. DropWarning(p) \in Event
  BY <1>2 DEF DropWarning, Event, EventTypes, Details, QueueOK
<1>5. QueueOK(ring_push_event(Numbered(p2), DropWarning(p)))
  BY <1>3, <1>4, PushOK
<1>6. emit(q, type, conn, detail) =
        IF p.drop_warned = "owed" THEN ring_push_event(Numbered(p2), DropWarning(p)) ELSE p
  BY DEF emit, p, ev
<1> QED BY <1>2, <1>5, <1>6

(* Polling keeps a queue in good order. *)
LEMMA PollOK ==
  ASSUME NEW q, QueueOK(q) PROVE QueueOK(poll_event(q))
<1> DEFINE rest   == IF q.items = <<>> THEN <<>> ELSE Tail(q.items)
           warned == IF rest = <<>> THEN "no" ELSE q.drop_warned
<1>1. rest \in Seq(Event) /\ Len(rest) <= EventRing
  BY EventAssumption DEF QueueOK
<1>2. warned \in Warned
  BY DEF QueueOK, Warned
<1>3. poll_event(q) = [q EXCEPT !.items = rest, !.drop_warned = warned]
  BY DEF poll_event
<1> HIDE DEF rest, warned
<1> QED BY <1>1, <1>2, <1>3 DEF QueueOK
=============================================================================
