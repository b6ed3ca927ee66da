------------------------- MODULE FramerStreamProofs -------------------------
(* The framer's invariant, for streams of any length. *)
EXTENDS FramerStream, PartProofs, FiniteSetTheorems

(* Whatever the bytes of a stream are, the framer is only ever in states   *)
(* frame_pending and reset_rx understand.                                  *)
THEOREM FramerIsSound == Spec => []FramerInv
<1>1. Init => FramerInv
  BY DEF Init, FramerInv, FramerOK, FramerState, framer_reset, in_message, FrameStep, Boundary
<1>2. FramerInv /\ [Next]_vars => FramerInv'
  <2> SUFFICES ASSUME FramerInv, [Next]_vars PROVE FramerInv'
    OBVIOUS
  <2>1. ASSUME NEW b \in Byte, Feed(b) PROVE FramerInv'
    BY <2>1, FeedOK, FeedStep DEF FramerInv, Feed, Boundary
  <2>2. CASE Reset
    BY <2>2 DEF Reset, FramerInv, FramerOK, FramerState, framer_reset, in_message,
                FrameStep, Boundary
  <2>3. CASE UNCHANGED vars
    BY <2>3 DEF vars, FramerInv, Boundary
  <2> QED BY <2>1, <2>2, <2>3 DEF Next
<1> QED BY <1>1, <1>2, PTL DEF Spec

(***************************************************************************)
(* The bytes fed since the last boundary: all but the last of them left    *)
(* the framer somewhere without a boundary, and the last one made step.    *)
(***************************************************************************)
StreamInv ==
  /\ ~Boundary => Scanned(buf, framer)
  /\ Boundary => \E b \in Seq(Byte), f \in Reachable, x \in Byte :
                   buf = Append(b, x) /\ Scanned(b, f) /\ step = feed_step(f, x)

LEMMA FeedStream ==
  ASSUME FramerInv, StreamInv, NEW x \in Byte, Feed(x) PROVE StreamInv'
<1> DEFINE b == IF Boundary THEN <<>> ELSE buf
<1>1. buf' = Append(b, x) /\ framer' = feed_state(framer, x) /\ step' = feed_step(framer, x)
  <2>1. Append(<<>>, x) = <<x>>
    OBVIOUS
  <2> QED BY <2>1 DEF Feed
<1>2. Scanned(b, framer)
  BY ScannedEmpty DEF StreamInv, FramerInv
<1> HIDE DEF b
<1>3. CASE feed_step(framer, x) \in {"CLOSE", "GARBAGE"}
  <2>1. framer \in Reachable /\ b \in Seq(Byte)
    BY <1>2 DEF FramerInv, FramerOK, Reachable, Scanned
  <2> QED BY <1>1, <1>2, <1>3, <2>1 DEF StreamInv, Boundary
<1>4. CASE feed_step(framer, x) \notin {"CLOSE", "GARBAGE"}
  <2>1. Scanned(buf', framer')
    BY <1>1, <1>2, <1>4, ScannedAppend
  <2> QED BY <1>1, <1>4, <2>1 DEF StreamInv, Boundary
<1> QED BY <1>3, <1>4

(* The framer fed byte by byte and the stateless gsp_frame_find agree, on  *)
(* streams of any length and content.                                      *)
THEOREM FramerAgreesWithFind == Spec => []AgreesWithFind
<1>1. Init => StreamInv
  BY ScannedEmpty DEF Init, StreamInv, Boundary
<1>2. FramerInv /\ StreamInv /\ [Next]_vars => StreamInv'
  <2> SUFFICES ASSUME FramerInv, StreamInv, [Next]_vars PROVE StreamInv'
    OBVIOUS
  <2>1. CASE Reset
    BY <2>1, ScannedEmpty DEF Reset, StreamInv, Boundary
  <2>2. CASE UNCHANGED vars
    BY <2>2 DEF vars, StreamInv, Boundary
  <2> QED BY <2>1, <2>2, FeedStream DEF Next
<1>3. StreamInv => AgreesWithFind
  <2> SUFFICES ASSUME StreamInv PROVE AgreesWithFind
    OBVIOUS
  <2>1. CASE ~Boundary
    <3>1. Scanned(buf, framer)
      BY <2>1 DEF StreamInv
    <3>2. /\ gsp_frame_find(buf).status = "PENDING"
          /\ in_message(framer) <=> gsp_frame_find(buf).start < Len(buf)
      BY <3>1, FindPending
    <3> HIDE DEF gsp_frame_find
    <3> QED BY <2>1, <3>2 DEF AgreesWithFind, Boundary
  <2>2. CASE Boundary
    <3>1. PICK b \in Seq(Byte), f \in Reachable, x \in Byte :
            buf = Append(b, x) /\ Scanned(b, f) /\ step = feed_step(f, x)
      BY <2>2 DEF StreamInv
    <3> DEFINE found == gsp_frame_find(buf)
    <3>2. /\ step = "CLOSE" => found.status = "OK" /\ found.end = Len(b) + 1
          /\ step = "GARBAGE" => found.status = "MALFORMED" /\ found.start = Len(b)
      BY <2>2, <3>1, FindBoundary DEF Boundary
    <3>3. Len(buf) = Len(b) + 1 /\ Len(buf) - 1 = Len(b)
      BY <3>1
    <3> HIDE DEF found
    <3>4. /\ (step = "CLOSE" <=> found.status = "OK")
          /\ (step = "GARBAGE" <=> found.status = "MALFORMED")
          /\ (step = "CLOSE" => found.end = Len(buf))
          /\ (step = "GARBAGE" => found.start = Len(buf) - 1)
      BY <2>2, <3>2, <3>3 DEF Boundary
    <3> QED BY <2>2, <3>4 DEF AgreesWithFind, found
  <2> QED BY <2>1, <2>2
<1> QED BY <1>1, <1>2, <1>3, FramerIsSound, PTL DEF Spec
-----------------------------------------------------------------------------
(* THE REFERENCE.  Literals and braces of a sequence with one byte more.   *)

(* Entry k of the table Literal fills, from the entry before. *)
LiteralStep(s, v, k) ==
  IF v = 0 THEN IF s[k] = "quote" THEN k ELSE 0
  ELSE IF s[k] = "quote" /\ RunBefore(s, v, k) % 2 = 0 THEN 0
  ELSE v

LiteralPass(s, g, k) == IF k = 0 THEN 0 ELSE LiteralStep(s, g[k - 1], k)

LEMMA LiteralRecurrence ==
  ASSUME NEW s \in Seq(Byte)
  PROVE  LET h == Literal(s)
         IN  /\ h[0] = 0
             /\ \A k \in 1..Len(s) : h[k] = LiteralStep(s, h[k - 1], k)
             /\ \A k \in 0..Len(s) : h[k] \in 0..k
<1> DEFINE n == Len(s)
           F == [k \in 1..n |-> [v \in Nat |-> LiteralStep(s, v, k)]]
<1>1. \A k \in 1..n, v \in Nat : LiteralStep(s, v, k) \in Nat
  BY DEF LiteralStep
<1>2. 0 \in Nat /\ n \in Nat
  OBVIOUS
<1>3. /\ F \in [1..n -> [Nat -> Nat]]
      /\ \A k \in 1..n, v \in Nat : F[k][v] = LiteralStep(s, v, k)
  BY <1>1
<1> HIDE DEF F, n
<1>4. PICK g \in [0..n -> Nat] : Iterates(g, 0, F, n)
  BY <1>2, <1>3, LoopExists
<1>5. ASSUME NEW k \in 0..n PROVE g[k] = LiteralPass(s, g, k)
  <2>1. CASE k = 0
    BY <1>4, <2>1 DEF LiteralPass, Iterates
  <2>2. CASE k # 0
    <3>1. k \in 1..n /\ g[k - 1] \in Nat
      BY <1>2, <1>4, <2>2
    <3> QED BY <1>3, <1>4, <2>2, <3>1 DEF LiteralPass, Iterates
  <2> QED BY <2>1, <2>2
<1>6. g = [k \in 0..n |-> LiteralPass(s, g, k)]
  BY <1>4, <1>5
<1> DEFINE h == Literal(s)
<1>7. h = [k \in 0..n |-> LiteralPass(s, h, k)]
  BY <1>6, Zenon DEF Literal, LiteralPass, LiteralStep, n
<1> HIDE DEF h
<1>8. h[0] = 0 /\ \A k \in 1..n : h[k] = LiteralStep(s, h[k - 1], k)
  BY <1>2, <1>7 DEF LiteralPass
<1> DEFINE T == {k \in Nat : k <= n => h[k] \in 0..k}
<1>9. 0 \in T
  BY <1>2, <1>8
<1>10. ASSUME NEW k \in T PROVE k + 1 \in T
  <2> SUFFICES ASSUME k + 1 <= n PROVE h[k + 1] \in 0..(k + 1)
    OBVIOUS
  <2>1. h[k] \in 0..k /\ k + 1 \in 1..n /\ (k + 1) - 1 = k /\ k \in Nat
    BY <1>2, <1>10
  <2>2. h[k + 1] = LiteralStep(s, h[k], k + 1)
    BY <1>8, <2>1
  <2>3. LiteralStep(s, h[k], k + 1) \in {0, k + 1, h[k]}
    BY DEF LiteralStep
  <2> QED BY <2>1, <2>2, <2>3
<1> HIDE DEF T
<1>11. T = Nat
  <2>1. T \in SUBSET Nat
    BY DEF T
  <2> QED BY <1>9, <1>10, <2>1, SetInduction
<1>12. \A k \in 0..n : h[k] \in 0..k
  BY <1>2, <1>11 DEF T
<1> QED BY <1>8, <1>12 DEF h, n

(* The run before a position looks at the bytes before it only. *)
LEMMA RunKept ==
  ASSUME NEW s \in Seq(Byte), NEW x \in Byte, NEW v \in Nat, NEW i \in 1..(Len(s) + 1)
  PROVE  RunBefore(Append(s, x), v, i) = RunBefore(s, v, i)
<1> DEFINE t == Append(s, x)
<1>1. \A k \in 1..Len(s) : t[k] = s[k]
  OBVIOUS
<1>2. Len(s) \in Nat
  OBVIOUS
<1> HIDE DEF t
<1>3. ASSUME NEW k \in (v + 1)..(i - 1)
      PROVE  (\A m \in k..(i - 1) : t[m] = "backslash") <=> (\A m \in k..(i - 1) : s[m] = "backslash")
  <2>1. \A m \in k..(i - 1) : m \in 1..Len(s)
    BY <1>2
  <2> QED BY <1>1, <2>1
<1>4. {k \in (v + 1)..(i - 1) : \A m \in k..(i - 1) : t[m] = "backslash"}
        = {k \in (v + 1)..(i - 1) : \A m \in k..(i - 1) : s[m] = "backslash"}
  BY <1>3
<1> QED BY <1>4 DEF RunBefore, t

(* The run a byte leaves behind it. *)
LEMMA RunGrows ==
  ASSUME NEW s \in Seq(Byte), NEW x \in Byte, NEW v \in 0..Len(s)
  PROVE  /\ RunBefore(s, v, Len(s) + 1) \in Nat
         /\ RunBefore(Append(s, x), v, Len(s) + 2)
              = IF x = "backslash" THEN RunBefore(s, v, Len(s) + 1) + 1 ELSE 0
         /\ RunBefore(Append(s, x), Len(s) + 1, Len(s) + 2) = 0
<1> DEFINE t == Append(s, x)
           n == Len(s)
           A == {k \in (v + 1)..n : \A m \in k..n : s[m] = "backslash"}
           B == {k \in (v + 1)..(n + 1) : \A m \in k..(n + 1) : t[m] = "backslash"}
<1>1. t[n + 1] = x /\ \A k \in 1..n : t[k] = s[k]
  OBVIOUS
<1>2. n \in Nat /\ (n + 1) - 1 = n /\ (n + 2) - 1 = n + 1 /\ v \in 0..n
  OBVIOUS
<1>a. RunBefore(s, v, n + 1) = Cardinality(A) /\ RunBefore(t, v, n + 2) = Cardinality(B)
  BY <1>2 DEF RunBefore
<1> HIDE DEF t, n
<1>3. IsFiniteSet(A)
  <2>1. IsFiniteSet((v + 1)..n)
    BY <1>2, FS_Interval
  <2>2. A \in SUBSET ((v + 1)..n)
    OBVIOUS
  <2> HIDE DEF A
  <2> QED BY <2>1, <2>2, FS_Subset
<1>4. Cardinality(A) \in Nat
  <2> HIDE DEF A
  <2> QED BY <1>3, FS_CardinalityType
<1>5. ASSUME x # "backslash" PROVE RunBefore(t, v, n + 2) = 0
  <2>1. B = {}
    <3> SUFFICES ASSUME NEW k \in B PROVE FALSE
      OBVIOUS
    <3>1. n + 1 \in k..(n + 1)
      BY <1>2
    <3> QED BY <1>1, <1>5, <3>1
  <2> QED BY <1>5, <2>1, FS_EmptySet, <1>a
<1>6. ASSUME x = "backslash" PROVE RunBefore(t, v, n + 2) = RunBefore(s, v, n + 1) + 1
  <2>1. B = A \cup {n + 1}
    <3>1. ASSUME NEW k \in B PROVE k \in A \/ k = n + 1
      <4> SUFFICES ASSUME k # n + 1 PROVE k \in A
        OBVIOUS
      <4>1. k \in (v + 1)..n
        BY <1>2
      <4>2. ASSUME NEW m \in k..n PROVE s[m] = "backslash"
        <5>1. m \in k..(n + 1) /\ m \in 1..n
          BY <1>2
        <5> QED BY <1>1, <5>1
      <4> QED BY <4>1, <4>2
    <3>2. ASSUME NEW k \in A PROVE k \in B
      <4>1. k \in (v + 1)..(n + 1)
        BY <1>2
      <4>2. ASSUME NEW m \in k..(n + 1) PROVE t[m] = "backslash"
        <5>1. CASE m = n + 1
          BY <1>1, <1>6, <5>1
        <5>2. CASE m # n + 1
          <6>1. m \in k..n /\ m \in 1..n
            BY <1>2, <5>2
          <6> QED BY <1>1, <6>1
        <5> QED BY <5>1, <5>2
      <4> QED BY <4>1, <4>2
    <3>3. n + 1 \in B
      <4>1. n + 1 \in (v + 1)..(n + 1) /\ \A m \in (n + 1)..(n + 1) : m = n + 1
        BY <1>2
      <4> QED BY <1>1, <1>6, <4>1
    <3> HIDE DEF A, B
    <3> QED BY <3>1, <3>2, <3>3
  <2>2. n + 1 \notin A
    BY <1>2
  <2>3. Cardinality(A \cup {n + 1}) = Cardinality(A) + 1
    <3> HIDE DEF A
    <3> QED BY <1>3, <2>2, FS_AddElement
  <2> QED BY <1>6, <1>a, <2>1, <2>3
<1>7. RunBefore(t, n + 1, n + 2) = 0
  <2>1. (n + 1 + 1)..((n + 2) - 1) = {}
    BY <1>2
  <2>2. {k \in (n + 1 + 1)..((n + 2) - 1) : \A m \in k..((n + 2) - 1) : t[m] = "backslash"} = {}
    BY <2>1
  <2> QED BY <2>2, FS_EmptySet DEF RunBefore
<1> QED BY <1>4, <1>5, <1>6, <1>7, <1>a DEF t, n

LEMMA LiteralAppend ==
  ASSUME NEW s \in Seq(Byte), NEW x \in Byte
  PROVE  /\ \A k \in 0..Len(s) : Literal(Append(s, x))[k] = Literal(s)[k]
         /\ Literal(Append(s, x))[Len(s) + 1]
              = LiteralStep(Append(s, x), Literal(s)[Len(s)], Len(s) + 1)
<1> DEFINE t == Append(s, x)
           n == Len(s)
           h == Literal(s)
           g == Literal(t)
<1>1. t \in Seq(Byte) /\ Len(t) = n + 1 /\ n \in Nat /\ \A k \in 1..n : t[k] = s[k]
  OBVIOUS
<1>2. h[0] = 0 /\ (\A k \in 1..n : h[k] = LiteralStep(s, h[k - 1], k)) /\ \A k \in 0..n : h[k] \in 0..k
  BY LiteralRecurrence
<1>r. ASSUME NEW v \in Nat, NEW i \in 1..n PROVE RunBefore(t, v, i) = RunBefore(s, v, i)
  <2>1. i \in 1..(Len(s) + 1)
    OBVIOUS
  <2> QED BY <2>1, RunKept
<1> HIDE DEF t
<1>3. g[0] = 0 /\ \A k \in 1..(n + 1) : g[k] = LiteralStep(t, g[k - 1], k)
  BY <1>1, LiteralRecurrence
<1> HIDE DEF h, g, n
<1> DEFINE T == {k \in Nat : k <= n => g[k] = h[k]}
<1>4. 0 \in T
  BY <1>2, <1>3
<1>5. ASSUME NEW k \in T PROVE k + 1 \in T
  <2> SUFFICES ASSUME k + 1 <= n PROVE g[k + 1] = h[k + 1]
    OBVIOUS
  <2>1. g[k] = h[k] /\ k + 1 \in 1..n /\ k + 1 \in 1..(n + 1) /\ (k + 1) - 1 = k /\ k \in Nat
        /\ k \in 0..n
    BY <1>1, <1>5
  <2>2. h[k] \in Nat
    BY <1>2, <2>1
  <2>3. RunBefore(t, h[k], k + 1) = RunBefore(s, h[k], k + 1) /\ t[k + 1] = s[k + 1]
    BY <1>1, <1>r, <2>1, <2>2
  <2>4. g[k + 1] = LiteralStep(t, h[k], k + 1) /\ h[k + 1] = LiteralStep(s, h[k], k + 1)
    BY <1>2, <1>3, <2>1
  <2> QED BY <2>3, <2>4 DEF LiteralStep
<1> HIDE DEF T
<1>6. T = Nat
  <2>1. T \in SUBSET Nat
    BY DEF T
  <2> QED BY <1>4, <1>5, <2>1, SetInduction
<1>7. \A k \in 0..n : g[k] = h[k]
  BY <1>1, <1>6 DEF T
<1>8. g[n + 1] = LiteralStep(t, h[n], n + 1)
  <2>1. n + 1 \in 1..(n + 1) /\ (n + 1) - 1 = n /\ n \in 0..n
    BY <1>1
  <2> QED BY <1>3, <1>7, <2>1
<1> QED BY <1>7, <1>8 DEF t, n, h, g

LEMMA OccursAppend ==
  ASSUME NEW s \in Seq(Byte), NEW x \in Byte, NEW b
  PROVE  /\ Occurs(s, Literal(s), b) \in Nat
         /\ Occurs(Append(s, x), Literal(Append(s, x)), b)
              = Occurs(s, Literal(s), b) + IF x = b /\ Literal(s)[Len(s)] = 0 THEN 1 ELSE 0
<1> DEFINE t == Append(s, x)
           n == Len(s)
           h == Literal(s)
           g == Literal(t)
           A == {i \in 1..n : s[i] = b /\ h[i - 1] = 0}
           B == {i \in 1..(n + 1) : t[i] = b /\ g[i - 1] = 0}
<1>1. Len(t) = n + 1 /\ n \in Nat /\ t[n + 1] = x /\ \A k \in 1..n : t[k] = s[k]
  OBVIOUS
<1>2. \A k \in 0..n : g[k] = h[k]
  BY LiteralAppend
<1>a. Occurs(s, h, b) = Cardinality(A) /\ Occurs(t, g, b) = Cardinality(B)
  BY <1>1 DEF Occurs
<1> HIDE DEF t, n, h, g
<1>3. IsFiniteSet(A)
  <2>1. IsFiniteSet(1..n)
    BY <1>1, FS_Interval
  <2>2. A \in SUBSET (1..n)
    OBVIOUS
  <2> HIDE DEF A
  <2> QED BY <2>1, <2>2, FS_Subset
<1>4. Cardinality(A) \in Nat
  <2> HIDE DEF A
  <2> QED BY <1>3, FS_CardinalityType
<1>5. ASSUME NEW i \in 1..n PROVE i \in B <=> i \in A
  <2>1. i - 1 \in 0..n /\ i \in 1..(n + 1)
    BY <1>1
  <2> QED BY <1>1, <1>2, <2>1
<1>6. n + 1 \in B <=> x = b /\ h[n] = 0
  <2>1. n + 1 \in 1..(n + 1) /\ (n + 1) - 1 = n /\ n \in 0..n
    BY <1>1
  <2> QED BY <1>1, <1>2, <2>1
<1>7. n + 1 \notin A /\ A \subseteq 1..n /\ B \subseteq 1..(n + 1)
  BY <1>1
<1>8. \A i \in 1..(n + 1) : i \in 1..n \/ i = n + 1
  BY <1>1
<1> HIDE DEF A, B
<1>9. CASE x = b /\ h[n] = 0
  <2>1. B = A \cup {n + 1}
    BY <1>5, <1>6, <1>7, <1>8, <1>9
  <2>2. Cardinality(B) = Cardinality(A) + 1
    BY <1>3, <1>7, <2>1, FS_AddElement
  <2> QED BY <1>4, <1>9, <1>a, <2>2 DEF t, g, h, n
<1>10. CASE ~(x = b /\ h[n] = 0)
  <2>1. B = A
    BY <1>5, <1>6, <1>7, <1>8, <1>10
  <2> QED BY <1>4, <1>10, <1>a, <2>1 DEF t, g, h, n
<1> QED BY <1>9, <1>10

(* What is left of a sequence with one byte more once its white space is   *)
(* skipped.                                                                *)
LEMMA SkipEmpty == SkipSpace(<<>>) = <<>>
<1>1. {i \in 1..Len(<<>>) : <<>>[i] # "ws"} = {}
  OBVIOUS
<1> QED BY <1>1 DEF SkipSpace

LEMMA SkipAppend ==
  ASSUME NEW s \in Seq(Byte), NEW x \in Byte
  PROVE  /\ SkipSpace(s) \in Seq(Byte)
         /\ SkipSpace(s) # <<>> => SkipSpace(Append(s, x)) = Append(SkipSpace(s), x)
         /\ SkipSpace(s) = <<>> /\ x = "ws" => SkipSpace(Append(s, x)) = <<>>
         /\ SkipSpace(s) = <<>> /\ x # "ws" => SkipSpace(Append(s, x)) = Append(<<>>, x)
<1> DEFINE t == Append(s, x)
           n == Len(s)
           A == {i \in 1..n : s[i] # "ws"}
           B == {i \in 1..(n + 1) : t[i] # "ws"}
           first(C) == CHOOSE i \in C : \A j \in C : i <= j
<1>1. /\ t \in Seq(Byte) /\ Len(t) = n + 1 /\ n \in Nat /\ t[n + 1] = x
      /\ \A k \in 1..n : t[k] = s[k]
  OBVIOUS
<1>a. /\ SkipSpace(s) = IF A = {} THEN <<>> ELSE SubSeq(s, first(A), n)
      /\ SkipSpace(t) = IF B = {} THEN <<>> ELSE SubSeq(t, first(B), n + 1)
  BY <1>1 DEF SkipSpace
<1>t. t = Append(s, x)
  OBVIOUS
<1> HIDE DEF t
<1>2. A \in SUBSET (1..n) /\ B \in SUBSET (1..(n + 1)) /\ A \subseteq B
      /\ (n + 1 \in B <=> x # "ws") /\ \A i \in B : i \in A \/ i = n + 1
  <2>1. n + 1 \in 1..(n + 1) /\ 1..n \subseteq 1..(n + 1)
    BY <1>1
  <2>2. \A i \in 1..(n + 1) : i \in 1..n \/ i = n + 1
    BY <1>1
  <2> QED BY <1>1, <2>1, <2>2
<1> HIDE DEF A, B
<1>3. ASSUME NEW C \in SUBSET (1..(n + 1)), C # {}
      PROVE  first(C) \in C /\ \A j \in C : first(C) <= j
  <2>1. C \in SUBSET Nat
    BY <1>1
  <2>2. \E i \in C : \A j \in C : i <= j
    BY <1>3, <2>1, LeastNat
  <2> QED BY <2>2
<1>4. CASE A # {}
  <2> DEFINE a == first(A)
  <2>1. a \in A /\ \A j \in A : a <= j
    <3>1. A \in SUBSET (1..(n + 1))
      BY <1>1, <1>2
    <3> QED BY <1>3, <1>4, <3>1
  <2>2. first(B) \in B /\ \A j \in B : first(B) <= j
    BY <1>2, <1>3, <1>4
  <2>3. a \in 1..n /\ first(B) \in 1..(n + 1)
    BY <1>2, <2>1, <2>2
  <2>4. first(B) = a
    <3>1. first(B) <= a
      BY <1>2, <2>1, <2>2
    <3>2. first(B) \in A
      <4>1. PICK p \in 1..(n + 1) : p = first(B)
        BY <2>3
      <4>2. p # n + 1
        <5>1. p <= a /\ a \in 1..n /\ n \in Nat
          BY <1>1, <2>3, <3>1, <4>1
        <5> HIDE DEF a, n
        <5> QED BY <5>1
      <4> QED BY <1>2, <2>2, <4>1, <4>2
    <3>3. a <= first(B)
      BY <2>1, <3>2
    <3> HIDE DEF first
    <3> QED BY <1>1, <2>3, <3>1, <3>3
  <2>5. SkipSpace(s) = SubSeq(s, a, n) /\ SkipSpace(t) = SubSeq(t, a, n + 1)
    <3>1. B # {}
      BY <1>2, <1>4
    <3> QED BY <1>4, <1>a, <2>4, <3>1
  <2> HIDE DEF a, first
  <2> DEFINE c == SubSeq(s, a, n)
             d == SubSeq(t, a, n + 1)
             e == Append(c, x)
  <2>6. /\ c \in Seq(Byte) /\ Len(c) = n - a + 1 /\ \A i \in 1..n - a + 1 : c[i] = s[a + i - 1]
    <3>1. a \in Int /\ n \in Int /\ \A i \in a..n : s[i] \in Byte
      BY <1>1, <2>3
    <3>2. /\ c \in Seq(Byte) /\ Len(c) = (IF a <= n THEN n - a + 1 ELSE 0)
          /\ \A i \in 1..n - a + 1 : c[i] = s[a + i - 1]
      <4> HIDE DEF n
      <4> QED BY <3>1, SubSeqProperties
    <3> QED BY <2>3, <3>2
  <2>7. /\ d \in Seq(Byte) /\ Len(d) = n - a + 2 /\ \A i \in 1..n - a + 2 : d[i] = t[a + i - 1]
    <3>1. a \in Int /\ n + 1 \in Int /\ \A i \in a..(n + 1) : t[i] \in Byte
      BY <1>1, <2>3
    <3>2. PICK m \in Int : m = n + 1
      BY <1>1
    <3>3. \A i \in a..m : t[i] \in Byte
      BY <3>1, <3>2
    <3>4. /\ SubSeq(t, a, m) \in Seq(Byte)
          /\ Len(SubSeq(t, a, m)) = (IF a <= m THEN m - a + 1 ELSE 0)
          /\ \A i \in 1..m - a + 1 : SubSeq(t, a, m)[i] = t[a + i - 1]
      BY <3>1, <3>3, SubSeqProperties
    <3>5. m - a + 1 = n - a + 2 /\ a <= m
      BY <1>1, <2>3, <3>2
    <3> QED BY <3>2, <3>4, <3>5
  <2> HIDE DEF c, d
  <2>8. e \in Seq(Byte) /\ Len(e) = Len(c) + 1 /\ e[Len(c) + 1] = x /\ \A i \in 1..Len(c) : e[i] = c[i]
    <3>1. c \in Seq(Byte)
      BY <2>6
    <3> QED BY <3>1, AppendProperties
  <2> HIDE DEF e
  <2>9. Len(d) = Len(e)
    BY <1>1, <2>3, <2>6, <2>7, <2>8
  <2>10. ASSUME NEW i \in 1..Len(d) PROVE d[i] = e[i]
    <3>1. i \in 1..n - a + 2
      BY <2>7
    <3>2. CASE i = n - a + 2
      <4>1. a + i - 1 = n + 1 /\ i = Len(c) + 1
        BY <1>1, <2>3, <2>6, <3>2
      <4>2. d[i] = t[n + 1]
        BY <2>7, <3>1, <4>1
      <4>3. e[i] = x
        BY <2>8, <4>1
      <4> QED BY <1>1, <4>2, <4>3
    <3>3. CASE i # n - a + 2
      <4>1. i \in 1..n - a + 1 /\ i \in 1..Len(c) /\ a + i - 1 \in 1..n
        BY <1>1, <2>3, <2>6, <3>1, <3>3
      <4>2. d[i] = t[a + i - 1] /\ c[i] = s[a + i - 1] /\ e[i] = c[i]
        BY <2>6, <2>7, <2>8, <3>1, <4>1
      <4>3. t[a + i - 1] = s[a + i - 1]
        BY <1>1, <4>1
      <4> QED BY <4>2, <4>3
    <3> QED BY <3>2, <3>3
  <2>11. d = e
    <3>1. d \in Seq(Byte) /\ e \in Seq(Byte)
      BY <2>7, <2>8
    <3> QED BY <2>9, <2>10, <3>1, SeqEqual
  <2>12. c # <<>>
    BY <1>1, <2>3, <2>6
  <2> QED BY <1>t, <2>5, <2>6, <2>11, <2>12 DEF c, d, e
<1>5. CASE A = {}
  <2>1. SkipSpace(s) = <<>> /\ <<>> \in Seq(Byte)
    BY <1>5, <1>a
  <2>2. CASE x = "ws"
    <3>1. B = {}
      BY <1>2, <1>5, <2>2
    <3> QED BY <1>a, <1>t, <2>1, <2>2, <3>1
  <2>3. CASE x # "ws"
    <3>1. B = {n + 1}
      BY <1>2, <1>5, <2>3
    <3>2. first(B) \in B
      BY <1>2, <1>3, <3>1
    <3>3. first(B) = n + 1 /\ B # {}
      BY <3>1, <3>2
    <3> HIDE DEF first
    <3>4. SkipSpace(t) = SubSeq(t, n + 1, n + 1)
      BY <1>a, <3>3
    <3>5. SubSeq(t, n + 1, n + 1) = <<x>>
      <4>1. PICK m \in Int : m = n + 1
        BY <1>1
      <4>2. \A i \in m..m : t[i] \in Byte
        <5>1. \A i \in m..m : i = m
          OBVIOUS
        <5> QED BY <1>1, <4>1, <5>1
      <4>3. /\ SubSeq(t, m, m) \in Seq(Byte)
            /\ Len(SubSeq(t, m, m)) = (IF m <= m THEN m - m + 1 ELSE 0)
            /\ \A i \in 1..m - m + 1 : SubSeq(t, m, m)[i] = t[m + i - 1]
        BY <4>2, SubSeqProperties
      <4> DEFINE d == SubSeq(t, m, m)
      <4>4. d \in Seq(Byte) /\ Len(d) = 1 /\ d[1] = x
        <5>1. Len(d) = 1 /\ 1 \in 1..m - m + 1 /\ m + 1 - 1 = m
          BY <4>3
        <5> QED BY <1>1, <4>1, <4>3, <5>1
      <4> HIDE DEF d
      <4>5. <<x>> \in Seq(Byte) /\ Len(<<x>>) = 1 /\ <<x>>[1] = x
        OBVIOUS
      <4>6. \A i \in 1..Len(d) : d[i] = <<x>>[i]
        BY <4>4, <4>5
      <4>7. d = <<x>>
        BY <4>4, <4>5, <4>6, SeqEqual
      <4> QED BY <4>1, <4>7 DEF d
    <3>6. Append(<<>>, x) = <<x>>
      OBVIOUS
    <3> QED BY <1>1, <1>t, <2>1, <2>3, <3>4, <3>5, <3>6
  <2> QED BY <2>2, <2>3
<1> QED BY <1>4, <1>5

(***************************************************************************)
(* What the framer's state says of the object it is inside: s is the       *)
(* object so far, a literal is open exactly when in_string is set, a       *)
(* backslash waits exactly when an odd run ends s, and depth is what the   *)
(* closing braces outside literals still lack.                             *)
(***************************************************************************)
Tracks(s, f) ==
  LET began == Literal(s)
  IN  /\ s \in Seq(Byte) /\ s # <<>> /\ s[1] = "open"
      /\ f.depth > 0
      /\ f.in_string <=> began[Len(s)] # 0
      /\ f.in_string => (f.escape <=> RunBefore(s, began[Len(s)], Len(s) + 1) % 2 = 1)
      /\ f.depth + Occurs(s, began, "close") = Occurs(s, began, "open")

LEMMA Parity ==
  ASSUME NEW r \in Nat
  PROVE  /\ r % 2 = 0 \/ r % 2 = 1
         /\ (r + 1) % 2 = 1 <=> r % 2 = 0
         /\ 0 % 2 = 0
  OBVIOUS

(* An opening brace outside a message starts an object the framer tracks. *)
LEMMA TracksOpen ==
  ASSUME NEW f \in Reachable, f.depth = 0
  PROVE  Tracks(Append(<<>>, "open"), feed_state(f, "open"))
<1> DEFINE e == <<>>
           t == Append(e, "open")
<1>1. e \in Seq(Byte) /\ Len(e) = 0 /\ "open" \in Byte
  BY DEF Byte
<1>2. t \in Seq(Byte) /\ t # <<>> /\ t[1] = "open" /\ Len(t) = 1
  BY <1>1
<1>3. Literal(e)[0] = 0
  BY <1>1, LiteralRecurrence
<1>4. \A b : Occurs(e, Literal(e), b) = 0
  <2>1. \A b : {i \in 1..Len(e) : e[i] = b /\ Literal(e)[i - 1] = 0} = {}
    BY <1>1
  <2> QED BY <2>1, FS_EmptySet DEF Occurs
<1>5. Literal(t)[1] = 0
  <2>1. Literal(t)[Len(e) + 1] = LiteralStep(t, Literal(e)[Len(e)], Len(e) + 1)
    BY <1>1, LiteralAppend
  <2>2. Literal(t)[1] = LiteralStep(t, 0, 1)
    BY <1>1, <1>3, <2>1
  <2> QED BY <1>2, <2>2 DEF LiteralStep
<1>6. Occurs(t, Literal(t), "open") = 1 /\ Occurs(t, Literal(t), "close") = 0
  <2>1. \A b : Occurs(t, Literal(t), b)
                 = Occurs(e, Literal(e), b) + IF "open" = b /\ Literal(e)[Len(e)] = 0 THEN 1 ELSE 0
    BY <1>1, OccursAppend
  <2> QED BY <1>1, <1>3, <1>4, <2>1
<1>7. /\ feed_state(f, "open").depth = 1
      /\ ~feed_state(f, "open").in_string
  BY DEF Reachable, FramerOK, FramerState, in_message, feed_state
<1> HIDE DEF t, e
<1>8. Tracks(t, feed_state(f, "open"))
  BY <1>2, <1>5, <1>6, <1>7 DEF Tracks
<1> QED BY <1>8 DEF t, e

(* A byte inside a message keeps the framer on the object, or ends it. *)
LEMMA TracksFeed ==
  ASSUME NEW s, NEW f \in Reachable, Tracks(s, f), NEW x \in Byte
  PROVE  /\ feed_step(f, x) = "CLOSE" => IsObject(Append(s, x))
         /\ feed_step(f, x) # "CLOSE" => Tracks(Append(s, x), feed_state(f, x))
<1> DEFINE t == Append(s, x)
           n == Len(s)
           v == Literal(s)[n]
           w == Literal(t)[n + 1]
           r == RunBefore(s, v, n + 1)
           q == RunBefore(t, w, n + 2)
           o == Occurs(s, Literal(s), "open")
           c == Occurs(s, Literal(s), "close")
           o2 == Occurs(t, Literal(t), "open")
           c2 == Occurs(t, Literal(t), "close")
           g == feed_state(f, x)
<1>1. s \in Seq(Byte) /\ s # <<>> /\ s[1] = "open" /\ n \in Nat
  BY DEF Tracks
<1>2. t \in Seq(Byte) /\ t # <<>> /\ t[1] = "open" /\ Len(t) = n + 1 /\ t[n + 1] = x
  BY <1>1
<1>3. /\ f.depth \in Nat /\ f.depth > 0 /\ f.in_string \in BOOLEAN /\ f.escape \in BOOLEAN
      /\ f.in_string <=> v # 0
      /\ f.in_string => (f.escape <=> r % 2 = 1)
      /\ f.escape => f.in_string
      /\ f.depth + c = o
  BY DEF Tracks, Reachable, FramerOK, FramerState
<1>4. v \in 0..n
  <2>1. n \in 0..n
    BY <1>1
  <2> QED BY <1>1, <2>1, LiteralRecurrence
<1>5. r \in Nat
  BY <1>1, <1>4, RunGrows
<1>6. w = LiteralStep(t, v, n + 1)
  BY <1>1, LiteralAppend
<1>7. RunBefore(t, v, n + 1) = r
  <2>1. v \in Nat /\ n + 1 \in 1..(Len(s) + 1)
    BY <1>1, <1>4
  <2>2. PICK k \in 1..(Len(s) + 1) : k = n + 1
    BY <2>1
  <2>3. RunBefore(t, v, k) = RunBefore(s, v, k)
    BY <1>1, <2>1, RunKept
  <2> QED BY <2>2, <2>3
<1>8. w = IF v = 0 THEN IF x = "quote" THEN n + 1 ELSE 0
          ELSE IF x = "quote" /\ r % 2 = 0 THEN 0 ELSE v
  BY <1>2, <1>6, <1>7 DEF LiteralStep
<1>9. RunBefore(t, v, n + 2) = (IF x = "backslash" THEN r + 1 ELSE 0) /\ RunBefore(t, n + 1, n + 2) = 0
  BY <1>1, <1>4, RunGrows
<1>10. /\ o \in Nat /\ c \in Nat
       /\ o2 = o + IF x = "open" /\ v = 0 THEN 1 ELSE 0
       /\ c2 = c + IF x = "close" /\ v = 0 THEN 1 ELSE 0
  BY <1>1, OccursAppend
<1>11. /\ g.depth = CASE x = "open"  /\ ~f.in_string                 -> f.depth + 1
                      [] x = "close" /\ ~f.in_string /\ f.depth > 0  -> f.depth - 1
                      [] OTHER                                       -> f.depth
       /\ g.in_string = IF f.depth > 0 /\ x = "quote" /\ ~f.escape THEN ~f.in_string ELSE f.in_string
       /\ g.escape = (f.in_string /\ ~f.escape /\ x = "backslash")
  BY DEF feed_state, next_escape
<1>12. feed_step(f, x) = "CLOSE" <=> f.depth = 1 /\ ~f.in_string /\ x = "close"
  BY <1>3 DEF feed_step
<1>q. q = RunBefore(t, w, n + 2)
  OBVIOUS
<1>p. /\ IsObject(t) <=> w = 0 /\ o2 = c2
      /\ Tracks(t, g) <=> /\ g.depth > 0
                          /\ g.in_string <=> w # 0
                          /\ g.in_string => (g.escape <=> q % 2 = 1)
                          /\ g.depth + c2 = o2
  <2>1. Literal(t)[Len(t)] = w /\ RunBefore(t, Literal(t)[Len(t)], Len(t) + 1) = q
    <3>1. Len(t) = n + 1 /\ Len(t) + 1 = n + 2
      BY <1>1, <1>2
    <3> QED BY <3>1
  <2> HIDE DEF t, n, w, q, g
  <2> QED BY <1>2, <2>1 DEF IsObject, Tracks
<1> HIDE DEF t, n, v, w, r, q, o, c, o2, c2, g
<1>13. ASSUME feed_step(f, x) = "CLOSE" PROVE IsObject(t)
  <2>1. f.depth = 1 /\ ~f.in_string /\ x = "close" /\ v = 0
    BY <1>3, <1>12, <1>13
  <2>2. w = 0
    BY <1>8, <2>1
  <2>3. o2 = o /\ c2 = c + 1
    BY <1>10, <2>1
  <2> QED BY <1>3, <1>10, <1>p, <2>1, <2>2, <2>3
<1>14. ASSUME feed_step(f, x) # "CLOSE" PROVE Tracks(t, g)
  <2>1. CASE f.in_string
    <3>1. v # 0 /\ o2 = o /\ c2 = c /\ g.depth = f.depth
      BY <1>3, <1>10, <1>11, <2>1
    <3>2. f.escape <=> r % 2 = 1
      BY <1>3, <2>1
    <3>3. r % 2 = 0 \/ r % 2 = 1
      BY <1>5, Parity
    <3>4. CASE x = "quote" /\ ~f.escape
      <4>1. r % 2 = 0
        BY <3>2, <3>3, <3>4
      <4>2. w = 0 /\ ~g.in_string
        BY <1>3, <1>8, <1>11, <2>1, <3>1, <3>4, <4>1
      <4> QED BY <1>3, <1>p, <3>1, <4>2
    <3>5. CASE ~(x = "quote" /\ ~f.escape)
      <4>1. ~(x = "quote" /\ r % 2 = 0)
        BY <3>2, <3>5
      <4>2. w = v /\ g.in_string
        BY <1>8, <1>11, <2>1, <3>1, <3>5, <4>1
      <4>3. q = IF x = "backslash" THEN r + 1 ELSE 0
        BY <1>9, <1>q, <4>2
      <4>4. g.escape <=> q % 2 = 1
        <5>1. g.escape <=> ~f.escape /\ x = "backslash"
          BY <1>11, <2>1
        <5>2. CASE x = "backslash"
          <6>1. q % 2 = 1 <=> r % 2 = 0
            BY <1>5, <4>3, <5>2, Parity
          <6> QED BY <3>2, <3>3, <5>1, <5>2, <6>1
        <5>3. CASE x # "backslash"
          BY <4>3, <5>1, <5>3
        <5> QED BY <5>2, <5>3
      <4> QED BY <1>3, <1>p, <3>1, <4>2, <4>4
    <3> QED BY <3>4, <3>5
  <2>2. CASE ~f.in_string
    <3>1. v = 0 /\ ~f.escape
      BY <1>3, <2>2
    <3>2. g.depth > 0 /\ g.depth + c2 = o2
      <4>1. CASE x = "open"
        <5>1. g.depth = f.depth + 1 /\ o2 = o + 1 /\ c2 = c
          BY <1>10, <1>11, <2>2, <3>1, <4>1
        <5> QED BY <1>3, <1>10, <5>1
      <4>2. CASE x = "close"
        <5>1. g.depth = f.depth - 1 /\ o2 = o /\ c2 = c + 1 /\ f.depth # 1
          BY <1>3, <1>10, <1>11, <1>12, <1>14, <2>2, <3>1, <4>2
        <5> QED BY <1>3, <1>10, <5>1
      <4>3. CASE x # "open" /\ x # "close"
        <5>1. g.depth = f.depth /\ o2 = o /\ c2 = c
          BY <1>10, <1>11, <4>3
        <5> QED BY <1>3, <5>1
      <4> QED BY <4>1, <4>2, <4>3
    <3>3. CASE x = "quote"
      <4>1. w = n + 1 /\ g.in_string /\ ~g.escape
        BY <1>3, <1>8, <1>11, <2>2, <3>1, <3>3
      <4>2. q = 0
        BY <1>9, <1>q, <4>1
      <4>3. w # 0 /\ ~(q % 2 = 1)
        BY <1>1, <4>1, <4>2
      <4> QED BY <1>p, <3>2, <4>1, <4>3
    <3>4. CASE x # "quote"
      <4>1. w = 0 /\ ~g.in_string
        BY <1>8, <1>11, <2>2, <3>1, <3>4
      <4> QED BY <1>p, <3>2, <4>1
    <3> QED BY <3>3, <3>4
  <2> QED BY <2>1, <2>2
<1> QED BY <1>13, <1>14 DEF t, g

(* What the framer tracks is not an object yet. *)
LEMMA TracksIsOpen ==
  ASSUME NEW s, NEW f \in Reachable, Tracks(s, f)
  PROVE  ~IsObject(s) /\ s # <<>> /\ s[1] = "open"
<1> DEFINE o == Occurs(s, Literal(s), "open")
           c == Occurs(s, Literal(s), "close")
<1>1. s \in Seq(Byte) /\ s # <<>> /\ s[1] = "open"
  BY DEF Tracks
<1>2. /\ f.depth \in Nat /\ f.depth > 0
      /\ f.depth + c = o
  BY DEF Tracks, Reachable, FramerOK, FramerState
<1>3. c \in Nat
  <2>1. "ws" \in Byte
    BY DEF Byte
  <2> QED BY <1>1, <2>1, OccursAppend
<1>4. IsObject(s) => o = c
  BY DEF IsObject
<1> HIDE DEF o, c
<1>5. o # c
  BY <1>2, <1>3
<1> QED BY <1>1, <1>4, <1>5

(***************************************************************************)
(* What has been fed since the last boundary, white space aside: nothing   *)
(* outside a message, and inside one the object the framer tracks.  Each   *)
(* boundary says what it was.                                              *)
(***************************************************************************)
Told(b, f) ==
  /\ b \in Seq(Byte)
  /\ f.depth = 0 => SkipSpace(b) = <<>>
  /\ f.depth > 0 => Tracks(SkipSpace(b), f)

TextInv ==
  /\ ~Boundary => Told(buf, framer)
  /\ step = "CLOSE" => IsObject(SkipSpace(buf)) /\ SkipSpace(buf)[1] = "open"
  /\ step = "GARBAGE" => SkipSpace(buf) # <<>> /\ SkipSpace(buf)[1] # "open"

LEMMA ToldEmpty == Told(<<>>, framer_reset)
  BY SkipEmpty DEF Told, framer_reset

LEMMA FeedText ==
  ASSUME FramerInv, TextInv, NEW x \in Byte, Feed(x) PROVE TextInv'
<1> DEFINE b == IF Boundary THEN <<>> ELSE buf
           text == SkipSpace(b)
           new == SkipSpace(Append(b, x))
<1>1. buf' = Append(b, x) /\ framer' = feed_state(framer, x) /\ step' = feed_step(framer, x)
  <2>1. Append(<<>>, x) = <<x>>
    OBVIOUS
  <2> QED BY <2>1 DEF Feed
<1>2. Told(b, framer)
  BY ToldEmpty DEF TextInv, FramerInv
<1>3. framer \in Reachable /\ framer.depth \in Nat
  BY DEF FramerInv, FramerOK, Reachable, FramerState
<1> HIDE DEF b
<1>4. b \in Seq(Byte) /\ Append(b, x) \in Seq(Byte)
  BY <1>2 DEF Told
<1>5. /\ text # <<>> => new = Append(text, x)
      /\ text = <<>> /\ x = "ws" => new = <<>>
      /\ text = <<>> /\ x # "ws" => new = Append(<<>>, x)
  BY <1>4, SkipAppend
<1>6. PICK f \in Reachable : f = framer
  BY <1>3
<1>n. new = SkipSpace(Append(b, x))
  OBVIOUS
<1> HIDE DEF text, new
<1>7. CASE framer.depth = 0
  <2>1. text = <<>>
    BY <1>2, <1>7 DEF Told, text
  <2>2. CASE x = "ws"
    <3>1. step' = "SKIP" /\ framer'.depth = 0
      BY <1>1, <1>3, <1>7, <2>2 DEF feed_step, feed_state
    <3>2. Told(buf', framer')
      BY <1>1, <1>4, <1>5, <1>n, <2>1, <2>2, <3>1 DEF Told
    <3> QED BY <3>1, <3>2 DEF TextInv, Boundary
  <2>3. CASE x = "open"
    <3>1. step' = "OPEN" /\ framer'.depth = 1
      BY <1>1, <1>3, <1>7, <2>3 DEF feed_step, feed_state, Reachable, FramerOK, in_message
    <3>2. Tracks(Append(<<>>, "open"), feed_state(f, "open"))
      BY <1>6, <1>7, TracksOpen
    <3>3. Tracks(SkipSpace(buf'), framer')
      BY <1>1, <1>5, <1>6, <1>n, <2>1, <2>3, <3>2
    <3>4. Told(buf', framer')
      BY <1>1, <1>4, <3>1, <3>3 DEF Told
    <3> QED BY <3>1, <3>4 DEF TextInv, Boundary
  <2>4. CASE x # "ws" /\ x # "open"
    <3>1. step' = "GARBAGE"
      BY <1>1, <1>7, <2>4 DEF feed_step
    <3>2. SkipSpace(buf') = Append(<<>>, x)
      BY <1>1, <1>5, <1>n, <2>1, <2>4
    <3>3. Append(<<>>, x) # <<>> /\ Append(<<>>, x)[1] = x
      OBVIOUS
    <3> QED BY <2>4, <3>1, <3>2, <3>3 DEF TextInv, Boundary
  <2> QED BY <2>2, <2>3, <2>4
<1>8. CASE framer.depth > 0
  <2>1. Tracks(text, f)
    BY <1>2, <1>6, <1>8 DEF Told, text
  <2>2. text # <<>> /\ text[1] = "open" /\ text \in Seq(Byte)
    BY <2>1 DEF Tracks
  <2>3. SkipSpace(buf') = Append(text, x)
    BY <1>1, <1>5, <1>n, <2>2
  <2>4. /\ feed_step(f, x) = "CLOSE" => IsObject(Append(text, x))
        /\ feed_step(f, x) # "CLOSE" => Tracks(Append(text, x), feed_state(f, x))
    BY <2>1, TracksFeed
  <2>5. CASE feed_step(f, x) = "CLOSE"
    <3>1. Append(text, x)[1] = "open"
      BY <2>2
    <3> QED BY <1>1, <1>6, <2>3, <2>4, <2>5, <3>1 DEF TextInv, Boundary
  <2>6. CASE feed_step(f, x) # "CLOSE"
    <3>1. step' = "INSIDE"
      BY <1>1, <1>3, <1>6, <1>8, <2>6 DEF feed_step
    <3>2. Tracks(SkipSpace(buf'), framer')
      BY <1>1, <1>6, <2>3, <2>4, <2>6
    <3>3. framer'.depth > 0
      BY <3>2 DEF Tracks
    <3>4. framer'.depth \in Nat
      <4>1. FramerOK(framer')
        BY <1>1, <1>3, FeedOK DEF Reachable
      <4> QED BY <4>1 DEF FramerOK, FramerState
    <3>5. framer'.depth # 0
      BY <3>3, <3>4
    <3>6. Told(buf', framer')
      BY <1>1, <1>4, <3>2, <3>5 DEF Told
    <3> QED BY <3>1, <3>6 DEF TextInv, Boundary
  <2> QED BY <2>5, <2>6
<1> QED BY <1>3, <1>7, <1>8

(* The framer closes exactly where the text fed since the last boundary    *)
(* becomes an object by the reference definition, refuses exactly a first  *)
(* byte that cannot begin one, and gsp_frame_find says the same: for       *)
(* streams of any length and content.                                      *)
THEOREM FramerClosesAtObjectEnd == Spec => []ClosesAtObjectEnd
<1>1. Init => TextInv
  BY ToldEmpty DEF Init, TextInv, Boundary
<1>2. FramerInv /\ TextInv /\ [Next]_vars => TextInv'
  <2> SUFFICES ASSUME FramerInv, TextInv, [Next]_vars PROVE TextInv'
    OBVIOUS
  <2>1. CASE Reset
    BY <2>1, ToldEmpty DEF Reset, TextInv, Boundary
  <2>2. CASE UNCHANGED vars
    BY <2>2 DEF vars, TextInv, Boundary
  <2> QED BY <2>1, <2>2, FeedText DEF Next
<1>3. FramerInv /\ TextInv /\ AgreesWithFind => ClosesAtObjectEnd
  <2> SUFFICES ASSUME FramerInv, TextInv, AgreesWithFind PROVE ClosesAtObjectEnd
    OBVIOUS
  <2> DEFINE text == SkipSpace(buf)
  <2>1. framer \in Reachable /\ framer.depth \in Nat
    BY DEF FramerInv, FramerOK, Reachable, FramerState
  <2>2. /\ ~Boundary => Told(buf, framer)
        /\ step = "CLOSE" => IsObject(text) /\ text[1] = "open"
        /\ step = "GARBAGE" => text # <<>> /\ text[1] # "open"
    BY DEF TextInv
  <2>3. IsObject(text) => text # <<>> /\ text[1] = "open"
    BY DEF IsObject
  <2>4. ASSUME ~Boundary PROVE ~IsObject(text) /\ ~(text # <<>> /\ text[1] # "open")
    <3>1. CASE framer.depth = 0
      <4>1. text = <<>>
        BY <2>2, <2>4, <3>1 DEF Told
      <4> HIDE DEF text
      <4> QED BY <2>3, <4>1
    <3>2. CASE framer.depth > 0
      <4>1. Tracks(text, framer)
        BY <2>2, <2>4, <3>2 DEF Told
      <4>2. PICK s : s = text
        OBVIOUS
      <4>3. PICK f \in Reachable : f = framer
        BY <2>1
      <4>4. ~IsObject(s) /\ s # <<>> /\ s[1] = "open"
        BY <4>1, <4>2, <4>3, TracksIsOpen
      <4> HIDE DEF text
      <4> QED BY <4>2, <4>4
    <3> QED BY <2>1, <3>1, <3>2
  <2> HIDE DEF text
  <2>5. step = "CLOSE" <=> IsObject(text)
    BY <2>2, <2>3, <2>4 DEF Boundary
  <2>6. step = "GARBAGE" <=> text # <<>> /\ text[1] # "open"
    BY <2>2, <2>4 DEF Boundary
  <2> QED BY <2>5, <2>6 DEF ClosesAtObjectEnd, text
<1> QED BY <1>1, <1>2, <1>3, FramerIsSound, FramerAgreesWithFind, PTL DEF Spec
=============================================================================
