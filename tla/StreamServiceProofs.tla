-------------------------- MODULE StreamServiceProofs --------------------------
(***************************************************************************)
(* Proofs about the service side of CanonicalStream, for every value of    *)
(* its constants: the two axes of the stream, the floors of its retention  *)
(* and the replays that it serves.                                         *)
(***************************************************************************)
EXTENDS CanonicalStream, FiniteSetTheorems, TLAPS

-----------------------------------------------------------------------------
(* Least and greatest numbers *)

LEMMA LeastNumber ==
    ASSUME NEW S \in SUBSET Nat, S # {}
    PROVE  \E x \in S : \A y \in S : x <= y
<1>1. \E x \in S : \A y \in S : ~(<<y, x>> \in OpToRel(<, Nat))
  BY NatLessThanWellFounded, WFMin
<1>2. PICK x \in S : \A y \in S : ~(<<y, x>> \in OpToRel(<, Nat))
  BY <1>1
<1>3. \A y \in S : ~(y < x)
  BY <1>2 DEF OpToRel
<1> QED BY <1>3

LEMMA GreatestNumber ==
    ASSUME NEW n \in Nat, NEW S \in SUBSET (0..n), S # {}
    PROVE  \E x \in S : \A y \in S : y <= x
<1> DEFINE gaps == {k \in Nat : n - k \in S}
<1>1. \A y \in S : n - y \in gaps
  OBVIOUS
<1>2. gaps \in SUBSET Nat /\ gaps # {}
  BY <1>1
<1>3. PICK k \in gaps : \A m \in gaps : k <= m
  BY <1>2, LeastNumber
<1>4. n - k \in S /\ \A y \in S : y <= n - k
  BY <1>1, <1>3
<1> QED BY <1>4

-----------------------------------------------------------------------------
(* The two axes of a sequence of frames *)

\* The cursor after the first n frames of s: IndexAt and BlockAt of any stream.
IndexOf(s, n) ==
    LET last == {i \in 1..n : s[i].kind = "record"}
    IN  IF last = {} THEN 0
        ELSE LET i == CHOOSE j \in last : \A k \in last : k <= j
             IN  s[i].key + s[i].slots
BlockOf(s, n) == 1 + Cardinality({i \in 1..n : s[i].kind = "boundary"})

LEMMA CursorOfStream ==
    /\ \A n : IndexAt(n) = IndexOf(stream, n) /\ BlockAt(n) = BlockOf(stream, n)
    /\ \A n : IndexAt(n)' = IndexOf(stream', n) /\ BlockAt(n)' = BlockOf(stream', n)
BY DEF IndexAt, IndexOf, BlockAt, BlockOf

\* The index axis: where the last record ends.
LEMMA IndexOfLast ==
    ASSUME NEW s, NEW n \in Nat
    PROVE  LET last == {i \in 1..n : s[i].kind = "record"}
           IN  \/ last = {} /\ IndexOf(s, n) = 0
               \/ \E j \in last : /\ \A k \in last : k <= j
                                  /\ IndexOf(s, n) = s[j].key + s[j].slots
<1> DEFINE last == {i \in 1..n : s[i].kind = "record"}
<1>1. CASE last = {}
  BY <1>1 DEF IndexOf
<1>2. CASE last # {}
  <2>1. last \in SUBSET (0..n)
    OBVIOUS
  <2>2. \E j \in last : \A k \in last : k <= j
    BY <1>2, <2>1, GreatestNumber
  <2> DEFINE i == CHOOSE j \in last : \A k \in last : k <= j
  <2>3. i \in last /\ \A k \in last : k <= i
    BY <2>2
  <2>4. IndexOf(s, n) = s[i].key + s[i].slots
    BY <1>2 DEF IndexOf
  <2> HIDE DEF i
  <2> QED BY <2>3, <2>4
<1> QED BY <1>1, <1>2

LEMMA IndexOfIs ==
    ASSUME NEW s, NEW n \in Nat, NEW j \in 1..n, s[j].kind = "record",
           \A k \in 1..n : s[k].kind = "record" => k <= j
    PROVE  IndexOf(s, n) = s[j].key + s[j].slots
BY IndexOfLast

LEMMA IndexOfTyped ==
    ASSUME NEW s \in Seq(Frames), NEW n \in 0..Len(s)
    PROVE  IndexOf(s, n) \in Nat
<1>1. ASSUME NEW j \in 1..n, s[j].kind = "record" PROVE s[j].key + s[j].slots \in Nat
  <2>1. s[j] \in Frames
    OBVIOUS
  <2> QED BY <1>1, <2>1 DEF Frames
<1> QED BY <1>1, IndexOfLast

LEMMA BlockOfTyped ==
    ASSUME NEW s, NEW n \in Nat
    PROVE  /\ BlockOf(s, n) \in Nat \ {0}
           /\ IsFiniteSet({i \in 1..n : s[i].kind = "boundary"})
<1> DEFINE B == {i \in 1..n : s[i].kind = "boundary"}
<1>1. IsFiniteSet(1..n) /\ B \in SUBSET (1..n)
  BY FS_Interval
<1>2. IsFiniteSet(B)
  BY <1>1, FS_Subset
<1>3. Cardinality(B) \in Nat
  BY <1>2, FS_CardinalityType
<1> QED BY <1>2, <1>3 DEF BlockOf

LEMMA CursorAtStart ==
    ASSUME NEW s
    PROVE  IndexOf(s, 0) = 0 /\ BlockOf(s, 0) = 1
<1>1. {i \in 1..0 : s[i].kind = "record"} = {} /\ {i \in 1..0 : s[i].kind = "boundary"} = {}
  OBVIOUS
<1> QED BY <1>1, FS_EmptySet DEF IndexOf, BlockOf

\* One frame more moves the axis of its kind.
LEMMA CursorStep ==
    ASSUME NEW s, NEW n \in Nat
    PROVE  /\ s[n + 1].kind = "record" =>
                 /\ IndexOf(s, n + 1) = s[n + 1].key + s[n + 1].slots
                 /\ BlockOf(s, n + 1) = BlockOf(s, n)
           /\ s[n + 1].kind = "boundary" =>
                 /\ IndexOf(s, n + 1) = IndexOf(s, n)
                 /\ BlockOf(s, n + 1) = BlockOf(s, n) + 1
<1> DEFINE R(m) == {i \in 1..m : s[i].kind = "record"}
           B(m) == {i \in 1..m : s[i].kind = "boundary"}
<1>1. 1..(n + 1) = (1..n) \cup {n + 1}
  OBVIOUS
<1>2. IsFiniteSet(B(n)) /\ Cardinality(B(n)) \in Nat
  BY BlockOfTyped, FS_CardinalityType
<1>3. ASSUME s[n + 1].kind = "record"
      PROVE  /\ IndexOf(s, n + 1) = s[n + 1].key + s[n + 1].slots
             /\ BlockOf(s, n + 1) = BlockOf(s, n)
  <2>1. B(n + 1) = B(n)
    BY <1>1, <1>3
  <2>2. IndexOf(s, n + 1) = s[n + 1].key + s[n + 1].slots
    BY <1>3, IndexOfIs
  <2> QED BY <2>1, <2>2 DEF BlockOf
<1>4. ASSUME s[n + 1].kind = "boundary"
      PROVE  /\ IndexOf(s, n + 1) = IndexOf(s, n)
             /\ BlockOf(s, n + 1) = BlockOf(s, n) + 1
  <2>1. R(n + 1) = R(n)
    BY <1>1, <1>4
  <2>2. B(n + 1) = B(n) \cup {n + 1} /\ n + 1 \notin B(n)
    BY <1>1, <1>4
  <2>3. Cardinality(B(n + 1)) = Cardinality(B(n)) + 1
    BY <1>2, <2>2, FS_AddElement
  <2>4. IndexOf(s, n + 1) = IndexOf(s, n)
    <3>1. CASE R(n) = {}
      BY <2>1, <3>1, IndexOfLast
    <3>2. ASSUME NEW j \in R(n), \A k \in R(n) : k <= j
          PROVE  IndexOf(s, n) = s[j].key + s[j].slots /\ IndexOf(s, n + 1) = s[j].key + s[j].slots
      BY <2>1, <3>2, IndexOfIs
    <3> QED BY <3>1, <3>2, IndexOfLast
  <2>5. BlockOf(s, n + 1) = BlockOf(s, n) + 1
    BY <1>2, <2>3 DEF BlockOf
  <2> QED BY <2>4, <2>5
<1> QED BY <1>3, <1>4

\* The cursor after n frames does not depend on the later ones.
LEMMA CursorOfPrefix ==
    ASSUME NEW s, NEW t, NEW n \in Nat, \A i \in 1..n : s[i] = t[i]
    PROVE  IndexOf(s, n) = IndexOf(t, n) /\ BlockOf(s, n) = BlockOf(t, n)
<1>1. {i \in 1..n : s[i].kind = "record"} = {i \in 1..n : t[i].kind = "record"}
  OBVIOUS
<1>2. {i \in 1..n : s[i].kind = "boundary"} = {i \in 1..n : t[i].kind = "boundary"}
  OBVIOUS
<1>3. BlockOf(s, n) = BlockOf(t, n)
  BY <1>2 DEF BlockOf
<1>4. IndexOf(s, n) = IndexOf(t, n)
  <2> DEFINE last == {i \in 1..n : s[i].kind = "record"}
  <2>1. CASE last = {}
    BY <1>1, <2>1, IndexOfLast
  <2>2. ASSUME NEW j \in last, \A k \in last : k <= j
        PROVE  IndexOf(s, n) = s[j].key + s[j].slots /\ IndexOf(t, n) = t[j].key + t[j].slots
    BY <1>1, <2>2, IndexOfIs
  <2> QED BY <2>1, <2>2, IndexOfLast
<1> QED BY <1>3, <1>4

-----------------------------------------------------------------------------
(* The stream *)

\* Each frame continues the two axes where the frames before it left them, and
\* neither axis goes back.
Dense(s) ==
    \A n \in 0..(Len(s) - 1) :
        \/ s[n + 1].kind = "record" /\ s[n + 1].key = IndexOf(s, n)
        \/ /\ s[n + 1].kind = "boundary"
           /\ s[n + 1].key = BlockOf(s, n) /\ s[n + 1].end = IndexOf(s, n)

Rising(s) ==
    \A m, n \in 0..Len(s) :
        m <= n => IndexOf(s, m) <= IndexOf(s, n) /\ BlockOf(s, m) <= BlockOf(s, n)

Axes(s, count, block) ==
    /\ s \in Seq(Frames) /\ Dense(s) /\ Rising(s)
    /\ count = IndexOf(s, Len(s)) /\ block = BlockOf(s, Len(s))

\* A record starts at the cursor before it and ends at the one after it.
LEMMA RecordPlace ==
    ASSUME NEW s \in Seq(Frames), Dense(s), NEW i \in 1..Len(s), s[i].kind = "record"
    PROVE  /\ s[i].key \in Nat /\ s[i].slots \in Nat \ {0}
           /\ s[i].key = IndexOf(s, i - 1) /\ IndexOf(s, i) = s[i].key + s[i].slots
           /\ BlockOf(s, i) = BlockOf(s, i - 1)
<1>1. s[i] \in Frames
  OBVIOUS
<1>2. s[i].key \in Nat /\ s[i].slots \in Nat \ {0}
  BY <1>1 DEF Frames
<1>3. i - 1 \in 0..(Len(s) - 1) /\ (i - 1) + 1 = i /\ i - 1 \in Nat
  OBVIOUS
<1>4. s[i].key = IndexOf(s, i - 1)
  BY <1>3 DEF Dense
<1>5. IndexOf(s, (i - 1) + 1) = s[i].key + s[i].slots /\ BlockOf(s, (i - 1) + 1) = BlockOf(s, i - 1)
  BY <1>3, CursorStep
<1> QED BY <1>2, <1>3, <1>4, <1>5

LEMMA BoundaryPlace ==
    ASSUME NEW s \in Seq(Frames), Dense(s), NEW i \in 1..Len(s), s[i].kind = "boundary"
    PROVE  /\ s[i].key \in Nat /\ s[i].end \in Nat
           /\ s[i].key = BlockOf(s, i - 1) /\ BlockOf(s, i) = s[i].key + 1
           /\ s[i].end = IndexOf(s, i - 1) /\ IndexOf(s, i) = IndexOf(s, i - 1)
<1>1. s[i] \in Frames
  OBVIOUS
<1>2. s[i].key \in Nat /\ s[i].end \in Nat
  BY <1>1 DEF Frames
<1>3. i - 1 \in 0..(Len(s) - 1) /\ (i - 1) + 1 = i /\ i - 1 \in Nat
  OBVIOUS
<1>4. s[i].key = BlockOf(s, i - 1) /\ s[i].end = IndexOf(s, i - 1)
  BY <1>3 DEF Dense
<1>5. IndexOf(s, (i - 1) + 1) = IndexOf(s, i - 1)
      /\ BlockOf(s, (i - 1) + 1) = BlockOf(s, i - 1) + 1
  BY <1>3, CursorStep
<1> QED BY <1>2, <1>3, <1>4, <1>5

LEMMA FrameKinds ==
    ASSUME NEW s \in Seq(Frames), NEW i \in 1..Len(s)
    PROVE  s[i].kind \in {"record", "boundary"} /\ s[i] \in Frames
<1>1. s[i] \in Frames
  OBVIOUS
<1> QED BY <1>1 DEF Frames

LEMMA CursorTyped ==
    ASSUME NEW s \in Seq(Frames), NEW n \in 0..Len(s)
    PROVE  IndexOf(s, n) \in Nat /\ BlockOf(s, n) \in Nat \ {0}
<1>1. n \in Nat
  OBVIOUS
<1>2. BlockOf(s, n) \in Nat \ {0}
  BY <1>1, BlockOfTyped
<1> QED BY <1>2, IndexOfTyped

\* A frame at the end of both axes.
LEMMA AppendAxes ==
    ASSUME NEW s, NEW count, NEW block, Axes(s, count, block), NEW f \in Frames,
           NEW count2, NEW block2,
           \/ /\ f.kind = "record" /\ f.key = count
              /\ count2 = count + f.slots /\ block2 = block
           \/ /\ f.kind = "boundary" /\ f.key = block /\ f.end = count
              /\ count2 = count /\ block2 = block + 1
    PROVE  Axes(Append(s, f), count2, block2)
<1> DEFINE t == Append(s, f)
           m == Len(s)
<1>1. /\ s \in Seq(Frames) /\ Dense(s) /\ Rising(s)
      /\ count = IndexOf(s, m) /\ block = BlockOf(s, m) /\ m \in Nat
  BY DEF Axes
<1>2. /\ t \in Seq(Frames) /\ Len(t) = m + 1 /\ t[m + 1] = f
      /\ \A i \in 1..m : t[i] = s[i]
  BY <1>1
<1> HIDE DEF t
<1>3. \A n \in 0..m : IndexOf(t, n) = IndexOf(s, n) /\ BlockOf(t, n) = BlockOf(s, n)
  <2> TAKE n \in 0..m
  <2>1. n \in Nat /\ \A i \in 1..n : t[i] = s[i]
    BY <1>1, <1>2
  <2> QED BY <2>1, CursorOfPrefix
<1>4. \A n \in 0..m : IndexOf(s, n) \in Nat /\ BlockOf(s, n) \in Nat
  BY <1>1, CursorTyped
<1>5. IndexOf(t, m + 1) = count2 /\ BlockOf(t, m + 1) = block2
  <2>1. /\ f.kind = "record" => /\ IndexOf(t, m + 1) = f.key + f.slots
                                /\ BlockOf(t, m + 1) = BlockOf(t, m)
        /\ f.kind = "boundary" => /\ IndexOf(t, m + 1) = IndexOf(t, m)
                                  /\ BlockOf(t, m + 1) = BlockOf(t, m) + 1
    BY <1>1, <1>2, CursorStep
  <2>2. IndexOf(t, m) = count /\ BlockOf(t, m) = block
    BY <1>1, <1>3
  <2> QED BY <2>1, <2>2
<1>6. count2 \in Nat /\ block2 \in Nat /\ count <= count2 /\ block <= block2
      /\ count \in Nat /\ block \in Nat
  <2>1. f.kind = "record" => f.slots \in Nat
    BY DEF Frames
  <2>2. count \in Nat /\ block \in Nat
    BY <1>1, <1>4
  <2> QED BY <2>1, <2>2
<1>7. Dense(t)
  <2> SUFFICES ASSUME NEW n \in 0..m
               PROVE  \/ t[n + 1].kind = "record" /\ t[n + 1].key = IndexOf(t, n)
                      \/ /\ t[n + 1].kind = "boundary"
                         /\ t[n + 1].key = BlockOf(t, n) /\ t[n + 1].end = IndexOf(t, n)
    BY <1>1, <1>2 DEF Dense
  <2>1. CASE n = m
    BY <1>1, <1>2, <1>3, <2>1
  <2>2. CASE n # m
    <3>1. n \in 0..(m - 1) /\ t[n + 1] = s[n + 1]
      BY <1>1, <1>2, <2>2
    <3> QED BY <1>1, <1>3, <3>1 DEF Dense
  <2> QED BY <2>1, <2>2
<1>8. Rising(t)
  <2> SUFFICES ASSUME NEW k \in 0..(m + 1), NEW n \in 0..(m + 1), k <= n
               PROVE  IndexOf(t, k) <= IndexOf(t, n) /\ BlockOf(t, k) <= BlockOf(t, n)
    BY <1>2 DEF Rising
  <2>1. CASE n \in 0..m
    BY <1>1, <1>3, <2>1 DEF Rising
  <2>2. CASE k = m + 1
    BY <1>1, <1>5, <1>6, <2>2
  <2>3. CASE n = m + 1 /\ k \in 0..m
    <3>1. IndexOf(s, k) <= count /\ BlockOf(s, k) <= block
      BY <1>1, <2>3 DEF Rising
    <3> QED BY <1>3, <1>4, <1>5, <1>6, <2>3, <3>1
  <2> QED BY <1>1, <2>1, <2>2, <2>3
<1> QED BY <1>2, <1>5, <1>7, <1>8 DEF Axes, t

-----------------------------------------------------------------------------
(* The floors of the retention *)

\* Frame j is of the given kind and has the greatest key of it among the first n.
Foremost(s, n, kind, j) ==
    /\ j \in 1..n /\ s[j].kind = kind
    /\ \A k \in 1..n : s[k].kind = kind => s[k].key \in Nat /\ s[k].key <= s[j].key

LEMMA FloorIs ==
    ASSUME NEW s, NEW n \in Nat, NEW kind, NEW start, NEW j, Foremost(s, n, kind, j)
    PROVE  FloorAfter(s, n, kind, start) = 1 + s[j].key
<1> DEFINE keys == {s[i].key : i \in {m \in 1..n : s[m].kind = kind}}
           top == CHOOSE k \in keys : \A m \in keys : m <= k
<1>1. s[j].key \in keys /\ \A m \in keys : m \in Nat /\ m <= s[j].key
  BY DEF Foremost
<1>2. FloorAfter(s, n, kind, start) = 1 + top
  BY <1>1 DEF FloorAfter
<1> HIDE DEF keys
<1>3. top \in keys /\ \A m \in keys : m <= top
  BY <1>1
<1> HIDE DEF top
<1>4. top = s[j].key
  BY <1>1, <1>3
<1> QED BY <1>2, <1>4

LEMMA FloorIsStart ==
    ASSUME NEW s, NEW n, NEW kind, NEW start, \A k \in 1..n : s[k].kind # kind
    PROVE  FloorAfter(s, n, kind, start) = start
<1>1. {s[i].key : i \in {m \in 1..n : s[m].kind = kind}} = {}
  OBVIOUS
<1> QED BY <1>1 DEF FloorAfter

\* evictFront moves the floors to the cursor of the last evicted frame: the block
\* exactly, the index at most.
LEMMA FloorsAreCursors ==
    ASSUME NEW s, NEW count, NEW block, Axes(s, count, block), NEW n \in 0..Len(s)
    PROVE  /\ FloorAfter(s, n, "boundary", 1) = BlockOf(s, n)
           /\ FloorAfter(s, n, "record", 0) \in 0..IndexOf(s, n)
           /\ \A i \in 1..n :
                 s[i].kind = "record" => s[i].key < FloorAfter(s, n, "record", 0)
<1>1. s \in Seq(Frames) /\ Dense(s) /\ Rising(s) /\ n \in Nat /\ Len(s) \in Nat
  BY DEF Axes
<1>2. \A m \in 0..Len(s) : IndexOf(s, m) \in Nat /\ BlockOf(s, m) \in Nat
  BY <1>1, CursorTyped
<1>3. FloorAfter(s, n, "boundary", 1) = BlockOf(s, n)
  <2> DEFINE B == {i \in 1..n : s[i].kind = "boundary"}
  <2>1. CASE B = {}
    <3>1. FloorAfter(s, n, "boundary", 1) = 1
      BY <2>1, FloorIsStart
    <3>2. BlockOf(s, n) = 1
      BY <2>1, FS_EmptySet DEF BlockOf
    <3> QED BY <3>1, <3>2
  <2>2. CASE B # {}
    <3>1. B \in SUBSET (0..n)
      OBVIOUS
    <3>2. PICK j \in B : \A k \in B : k <= j
      BY <1>1, <2>2, <3>1, GreatestNumber
    <3>3. j \in 1..n /\ j \in 1..Len(s) /\ s[j].kind = "boundary" /\ j \in Nat
      BY <1>1, <3>2
    <3>4. s[j].key = BlockOf(s, j - 1) /\ BlockOf(s, j) = s[j].key + 1
      BY <1>1, <3>3, BoundaryPlace
    <3>5. BlockOf(s, n) = BlockOf(s, j)
      <4>1. B = {i \in 1..j : s[i].kind = "boundary"}
        BY <1>1, <3>2, <3>3
      <4> QED BY <4>1 DEF BlockOf
    <3>6. ASSUME NEW k \in 1..n, s[k].kind = "boundary"
          PROVE  s[k].key \in Nat /\ s[k].key <= s[j].key
      <4>1. k \in 1..Len(s) /\ k <= j
        BY <1>1, <3>2, <3>6
      <4>2. s[k].key \in Nat /\ s[k].key = BlockOf(s, k - 1)
        BY <1>1, <3>6, <4>1, BoundaryPlace
      <4>3. k - 1 \in 0..Len(s) /\ j - 1 \in 0..Len(s) /\ k - 1 <= j - 1
        BY <1>1, <3>3, <4>1
      <4> QED BY <1>1, <3>4, <4>2, <4>3 DEF Rising
    <3>7. FloorAfter(s, n, "boundary", 1) = 1 + s[j].key
      <4>1. \A k \in 1..n : s[k].kind = "boundary" => s[k].key \in Nat /\ s[k].key <= s[j].key
        BY <3>6
      <4>2. n \in Nat /\ j \in 1..n /\ s[j].kind = "boundary"
        BY <1>1, <3>3
      <4>3. Foremost(s, n, "boundary", j)
        BY <4>1, <4>2 DEF Foremost
      <4> QED BY ONLY <4>2, <4>3, FloorIs
    <3>8. s[j].key \in Nat
      BY <3>3, <3>6
    <3> QED BY <3>4, <3>5, <3>7, <3>8
  <2> QED BY <2>1, <2>2
<1>4. /\ FloorAfter(s, n, "record", 0) \in 0..IndexOf(s, n)
      /\ \A i \in 1..n : s[i].kind = "record" => s[i].key < FloorAfter(s, n, "record", 0)
  <2> DEFINE R == {i \in 1..n : s[i].kind = "record"}
  <2>1. CASE R = {}
    <3>1. FloorAfter(s, n, "record", 0) = 0
      BY <2>1, FloorIsStart
    <3> QED BY <1>2, <2>1, <3>1
  <2>2. CASE R # {}
    <3>1. R \in SUBSET (0..n)
      OBVIOUS
    <3>2. PICK j \in R : \A k \in R : k <= j
      BY <1>1, <2>2, <3>1, GreatestNumber
    <3>3. j \in 1..n /\ j \in 1..Len(s) /\ s[j].kind = "record" /\ j \in Nat
      BY <1>1, <3>2
    <3>4. /\ s[j].key = IndexOf(s, j - 1) /\ IndexOf(s, j) = s[j].key + s[j].slots
          /\ s[j].key \in Nat /\ s[j].slots \in Nat \ {0}
      BY <1>1, <3>3, RecordPlace
    <3>5. ASSUME NEW k \in 1..n, s[k].kind = "record"
          PROVE  s[k].key \in Nat /\ s[k].key <= s[j].key
      <4>1. k \in 1..Len(s) /\ k <= j
        BY <1>1, <3>2, <3>5
      <4>2. s[k].key \in Nat /\ s[k].key = IndexOf(s, k - 1)
        BY <1>1, <3>5, <4>1, RecordPlace
      <4>3. k - 1 \in 0..Len(s) /\ j - 1 \in 0..Len(s) /\ k - 1 <= j - 1
        BY <1>1, <3>3, <4>1
      <4> QED BY <1>1, <3>4, <4>2, <4>3 DEF Rising
    <3>6. FloorAfter(s, n, "record", 0) = 1 + s[j].key
      <4>1. \A k \in 1..n : s[k].kind = "record" => s[k].key \in Nat /\ s[k].key <= s[j].key
        BY <3>5
      <4>2. n \in Nat /\ j \in 1..n /\ s[j].kind = "record"
        BY <1>1, <3>3
      <4>3. Foremost(s, n, "record", j)
        BY <4>1, <4>2 DEF Foremost
      <4> QED BY ONLY <4>2, <4>3, FloorIs
    <3>7. IndexOf(s, j) <= IndexOf(s, n) /\ IndexOf(s, n) \in Nat
      BY <1>1, <1>2, <3>3 DEF Rising
    <3> QED BY <3>4, <3>5, <3>6, <3>7
  <2> QED BY <2>1, <2>2
<1> QED BY <1>3, <1>4

\* prune stops: it takes frames while they may leave, and keeps the first that
\* may not.
LEMMA PrunedIs ==
    ASSUME NEW s, Len(s) \in Nat, NEW from \in 0..Len(s), NEW head
    PROVE  /\ Pruned(s, from, head) \in from..Len(s)
           /\ \A m \in from..(Pruned(s, from, head) - 1) :
                 WindowOnly \/ OldestIsPosted(s, m, head)
<1> DEFINE May(m) == Len(s) - m > RetentionCap /\ (WindowOnly \/ OldestIsPosted(s, m, head))
           stops == {m \in from..Len(s) : ~May(m)}
<1>1. Len(s) \in stops
  BY StreamAssumption
<1>2. stops \in SUBSET Nat
  OBVIOUS
<1>3. PICK n \in stops : \A m \in stops : n <= m
  BY <1>1, <1>2, LeastNumber
<1>4. n \in from..Len(s) /\ ~May(n) /\ \A m \in from..(n - 1) : May(m)
  BY <1>3
<1>5. Pruned(s, from, head) = CHOOSE k \in from..Len(s) : ~May(k) /\ \A m \in from..(k - 1) : May(m)
  BY DEF Pruned
<1> DEFINE last == Pruned(s, from, head)
<1>6. last \in from..Len(s) /\ \A m \in from..(last - 1) : May(m)
  BY <1>4, <1>5
<1> QED BY <1>6

-----------------------------------------------------------------------------
(* The frames of a replay *)

Rank(P, i) == Cardinality({j \in P : j <= i})

\* The places of a finite set have the ranks from 1 on, each once.
LEMMA Ranks ==
    ASSUME NEW m \in Nat, NEW P \in SUBSET (1..m)
    PROVE  /\ Cardinality(P) \in Nat
           /\ \A i \in P : Rank(P, i) \in 1..Cardinality(P)
           /\ \A i, k \in P : Rank(P, i) = Rank(P, k) => i = k
           /\ \A r \in 1..Cardinality(P) : \E i \in P : Rank(P, i) = r
<1> DEFINE Below(i) == {j \in P : j <= i}
           n == Cardinality(P)
<1>0. \A i \in P : i \in Int
  OBVIOUS
<1>1. IsFiniteSet(P)
  <2>1. IsFiniteSet(1..m)
    BY FS_Interval
  <2> QED BY <2>1, FS_Subset
<1>2. n \in Nat
  BY <1>1, FS_CardinalityType
<1>3. \A i \in P : /\ IsFiniteSet(Below(i)) /\ Cardinality(Below(i)) \in Nat
                   /\ Cardinality(Below(i)) <= n
  <2> TAKE i \in P
  <2>1. Below(i) \in SUBSET P
    OBVIOUS
  <2> HIDE DEF Below
  <2> QED BY <1>1, <2>1, FS_Subset, FS_CardinalityType
<1>4. \A i \in P : Rank(P, i) \in 1..n
  <2> TAKE i \in P
  <2>1. i \in Below(i)
    OBVIOUS
  <2>2. Cardinality(Below(i)) # 0
    BY <1>3, <2>1, FS_EmptySet
  <2> QED BY <1>2, <1>3, <2>2 DEF Rank
<1>5. ASSUME NEW i \in P, NEW k \in P, i < k PROVE Rank(P, i) # Rank(P, k)
  <2>1. k \in Below(k) /\ k \notin Below(i)
    BY <1>0, <1>5
  <2>2. \A j \in Below(i) : j \in Below(k)
    BY <1>0, <1>5
  <2>3. Cardinality(Below(i)) # Cardinality(Below(k))
    <3> HIDE DEF Below
    <3>1. Below(i) \in SUBSET Below(k)
      BY <2>2
    <3> QED BY <1>3, <2>1, <3>1, FS_Subset
  <2> QED BY <2>3 DEF Rank
<1>6. \A i, k \in P : Rank(P, i) = Rank(P, k) => i = k
  <2> TAKE i, k \in P
  <2>1. i \in Int /\ k \in Int
    OBVIOUS
  <2>2. i < k \/ k < i \/ i = k
    BY <2>1
  <2> QED BY <1>5, <2>2
<1>7. \A r \in 1..n : \E i \in P : Rank(P, i) = r
  <2> DEFINE f == [i \in P |-> Rank(P, i)]
  <2>1. f \in Injection(P, 1..n)
    BY <1>4, <1>6 DEF Injection, IsInjective
  <2>2. IsFiniteSet(1..n) /\ Cardinality(1..n) = n
    BY <1>2, FS_Interval
  <2> HIDE DEF f
  <2>3. f \in Surjection(P, 1..n)
    BY <2>1, <2>2, FS_Injection
  <2> QED BY <2>3 DEF Surjection, f
<1> QED BY <1>2, <1>4, <1>6, <1>7

Picked(s, P) == [k \in 1..Cardinality(P) |-> s[CHOOSE i \in P : Rank(P, i) = k]]

LEMMA PickedFrames ==
    ASSUME NEW s, Len(s) \in Nat, NEW P \in SUBSET (1..Len(s))
    PROVE  /\ Cardinality(P) \in Nat
           /\ Picked(s, P) = [k \in 1..Cardinality(P) |-> Picked(s, P)[k]]
           /\ \A k \in 1..Cardinality(P) : \E i \in P : Rank(P, i) = k /\ Picked(s, P)[k] = s[i]
           /\ \A i \in P : \E k \in 1..Cardinality(P) : Picked(s, P)[k] = s[i]
<1>1. /\ Cardinality(P) \in Nat
      /\ \A i \in P : Rank(P, i) \in 1..Cardinality(P)
      /\ \A i, k \in P : Rank(P, i) = Rank(P, k) => i = k
      /\ \A r \in 1..Cardinality(P) : \E i \in P : Rank(P, i) = r
  BY Ranks
<1>2. ASSUME NEW k \in 1..Cardinality(P)
      PROVE  \E i \in P : Rank(P, i) = k /\ Picked(s, P)[k] = s[i]
  <2> DEFINE i == CHOOSE j \in P : Rank(P, j) = k
  <2>1. i \in P /\ Rank(P, i) = k
    BY <1>1
  <2>2. Picked(s, P)[k] = s[i]
    BY DEF Picked
  <2> HIDE DEF i
  <2> QED BY <2>1, <2>2
<1>3. ASSUME NEW i \in P PROVE \E k \in 1..Cardinality(P) : Picked(s, P)[k] = s[i]
  <2>1. PICK j \in P : Rank(P, j) = Rank(P, i) /\ Picked(s, P)[Rank(P, i)] = s[j]
    BY <1>1, <1>2
  <2> QED BY <1>1, <2>1
<1>4. Picked(s, P) = [k \in 1..Cardinality(P) |-> Picked(s, P)[k]]
  BY DEF Picked
<1> QED BY <1>1, <1>2, <1>3, <1>4

LEMMA IntervalSize ==
    ASSUME NEW a \in Int, NEW b \in Int, b >= a - 1
    PROVE  Cardinality(a..b) = b - a + 1
<1>1. Cardinality(a..b) = IF a > b THEN 0 ELSE b - a + 1
  BY FS_Interval
<1> QED BY <1>1

\* A run of places picks the frames between its ends.
LEMMA PickedRun ==
    ASSUME NEW S, NEW s \in Seq(S), NEW a \in 1..(Len(s) + 1)
    PROVE  Picked(s, a..Len(s)) = SubSeq(s, a, Len(s))
<1> DEFINE P == a..Len(s)
           m == Len(s)
<1>1. m \in Nat /\ a \in Int /\ P \in SUBSET (1..m)
  OBVIOUS
<1>2. Cardinality(P) = m - a + 1
  BY <1>1, IntervalSize
<1>3. ASSUME NEW i \in P PROVE Rank(P, i) = i - a + 1
  <2>1. {j \in P : j <= i} = a..i /\ i \in Int /\ i >= a
    BY <1>1
  <2>2. Cardinality(a..i) = i - a + 1
    BY <1>1, <2>1, FS_Interval
  <2> QED BY <2>1, <2>2 DEF Rank
<1>4. ASSUME NEW k \in 1..(m - a + 1) PROVE Picked(s, P)[k] = s[a + k - 1]
  <2>1. PICK i \in P : Rank(P, i) = k /\ Picked(s, P)[k] = s[i]
    <3>1. k \in 1..Cardinality(P)
      BY <1>2
    <3> QED BY <1>1, <3>1, PickedFrames
  <2>2. i = a + k - 1
    BY <1>1, <1>3, <2>1
  <2> QED BY <2>1, <2>2
<1>5. SubSeq(s, a, m) = [k \in 1..(m - a + 1) |-> s[a + k - 1]]
  BY <1>1
<1>6. Picked(s, P) = [k \in 1..(m - a + 1) |-> Picked(s, P)[k]]
  BY <1>1, <1>2, PickedFrames
<1> HIDE DEF P
<1> QED BY <1>4, <1>5, <1>6 DEF P

WantedPlaces(index, block) ==
    {i \in (evictions + 1)..Len(stream) :
        stream[i].key >= IF stream[i].kind = "boundary" THEN block ELSE index}

LEMMA WantedIsPicked ==
    ASSUME NEW index, NEW block
    PROVE  Wanted(index, block) = Picked(stream, WantedPlaces(index, block))
BY DEF Wanted, Picked, Rank, WantedPlaces

-----------------------------------------------------------------------------
(* The invariant of the service *)

\* The floors follow the evictions, and every evicted frame is of a posted block.
RetentionInv ==
    /\ evictions \in 0..Len(stream)
    /\ firstRetainedIndex = FloorAfter(stream, evictions, "record", 0)
    /\ firstRetainedBlock = FloorAfter(stream, evictions, "boundary", 1)
    /\ ~WindowOnly => \A n \in 0..(evictions - 1) : BlockOf(stream, n) <= postedHead

ServiceInv ==
    /\ Axes(stream, canonicalCount, blockNumber)
    /\ postedHead \in 0..(blockNumber - 1)
    /\ RetentionInv

LEMMA PruneKeeps ==
    ASSUME NEW s, NEW count, NEW block, Axes(s, count, block), NEW head \in Nat,
           evictions \in 0..Len(s), Prune(s, head),
           ~WindowOnly => \A n \in 0..(evictions - 1) : BlockOf(s, n) <= head
    PROVE  /\ evictions' \in 0..Len(s)
           /\ firstRetainedIndex' = FloorAfter(s, evictions', "record", 0)
           /\ firstRetainedBlock' = FloorAfter(s, evictions', "boundary", 1)
           /\ ~WindowOnly => \A n \in 0..(evictions' - 1) : BlockOf(s, n) <= head
<1>1. s \in Seq(Frames) /\ Dense(s) /\ Len(s) \in Nat
  BY DEF Axes
<1>2. /\ evictions' = Pruned(s, evictions, head)
      /\ firstRetainedIndex' = FloorAfter(s, evictions', "record", 0)
      /\ firstRetainedBlock' = FloorAfter(s, evictions', "boundary", 1)
  BY DEF Prune
<1>3. PICK last : last = evictions'
  OBVIOUS
<1>4. /\ last \in evictions..Len(s)
      /\ \A m \in evictions..(last - 1) : WindowOnly \/ OldestIsPosted(s, m, head)
  BY <1>1, <1>2, <1>3, PrunedIs
<1>5. last \in Int /\ evictions \in Int /\ evictions <= last /\ last <= Len(s) /\ 0 <= evictions
  BY <1>1, <1>4
<1>6. ASSUME ~WindowOnly, NEW n \in 0..(last - 1) PROVE BlockOf(s, n) <= head
  <2>1. CASE n < evictions
    <3>1. n \in 0..(evictions - 1)
      BY <1>5, <1>6, <2>1
    <3> QED BY <1>6, <3>1
  <2>2. CASE n >= evictions
    <3>1. n \in evictions..(last - 1) /\ n \in 0..(Len(s) - 1) /\ n \in 0..Len(s)
      BY <1>1, <1>5, <1>6, <2>2
    <3>2. OldestIsPosted(s, n, head)
      BY <1>4, <1>6, <3>1
    <3>3. FloorAfter(s, n, "boundary", 1) = BlockOf(s, n)
      BY <3>1, FloorsAreCursors
    <3>4. s[n + 1].kind = "boundary" => s[n + 1].key = BlockOf(s, n)
      BY <1>1, <3>1 DEF Dense
    <3> QED BY <3>2, <3>3, <3>4 DEF OldestIsPosted
  <2> QED BY <1>5, <1>6, <2>1, <2>2
<1>7. last \in 0..Len(s) /\ (~WindowOnly => \A n \in 0..(last - 1) : BlockOf(s, n) <= head)
  BY <1>1, <1>5, <1>6
<1> QED BY <1>2, <1>3, <1>7

\* A frame is emitted and the retention pruned.
LEMMA EmitKeepsService ==
    ASSUME ServiceInv, NEW f \in Frames, stream' = Append(stream, f), Prune(stream', postedHead),
           UNCHANGED postedHead,
           \/ /\ f.kind = "record" /\ f.key = canonicalCount
              /\ canonicalCount' = canonicalCount + f.slots /\ blockNumber' = blockNumber
           \/ /\ f.kind = "boundary" /\ f.key = blockNumber /\ f.end = canonicalCount
              /\ canonicalCount' = canonicalCount /\ blockNumber' = blockNumber + 1
    PROVE  ServiceInv'
<1>1. Axes(stream', canonicalCount', blockNumber')
  <2>1. Axes(stream, canonicalCount, blockNumber)
    BY DEF ServiceInv
  <2> QED BY <2>1, AppendAxes
<1>2. /\ stream \in Seq(Frames) /\ Len(stream) \in Nat /\ Len(stream') = Len(stream) + 1
      /\ \A i \in 1..Len(stream) : stream'[i] = stream[i]
  BY DEF ServiceInv, Axes
<1>3. /\ evictions \in 0..Len(stream) /\ evictions \in 0..Len(stream') /\ postedHead \in Nat
      /\ blockNumber \in Nat
  <2>1. blockNumber \in Nat
    BY <1>2, CursorTyped DEF ServiceInv, Axes
  <2> QED BY <1>2, <2>1 DEF ServiceInv, RetentionInv
<1>4. ~WindowOnly => \A n \in 0..(evictions - 1) : BlockOf(stream', n) <= postedHead
  <2> SUFFICES ASSUME ~WindowOnly, NEW n \in 0..(evictions - 1)
               PROVE  BlockOf(stream', n) <= postedHead
    OBVIOUS
  <2>1. n \in Nat /\ \A i \in 1..n : stream'[i] = stream[i]
    BY <1>2, <1>3
  <2>2. BlockOf(stream', n) = BlockOf(stream, n)
    BY <2>1, CursorOfPrefix
  <2> QED BY <2>2 DEF ServiceInv, RetentionInv
<1>5. RetentionInv'
  <2>1. /\ evictions' \in 0..Len(stream')
        /\ firstRetainedIndex' = FloorAfter(stream', evictions', "record", 0)
        /\ firstRetainedBlock' = FloorAfter(stream', evictions', "boundary", 1)
        /\ ~WindowOnly => \A n \in 0..(evictions' - 1) : BlockOf(stream', n) <= postedHead
    BY <1>1, <1>3, <1>4, PruneKeeps
  <2> QED BY <2>1 DEF RetentionInv
<1>6. postedHead' \in 0..(blockNumber' - 1)
  BY <1>3 DEF ServiceInv
<1> QED BY <1>1, <1>5, <1>6 DEF ServiceInv

LEMMA ServiceStep ==
    ASSUME ServiceInv, [Next]_vars
    PROVE  ServiceInv'
<1>1. ASSUME NEW slots \in Widths, EmitRecord(slots) PROVE ServiceInv'
  <2> DEFINE f == Record(canonicalCount, slots)
  <2>1. f \in Frames /\ f.kind = "record" /\ f.key = canonicalCount /\ f.slots = slots
    <3>1. canonicalCount \in Nat
      BY CursorTyped DEF ServiceInv, Axes
    <3> QED BY <3>1, StreamAssumption DEF Frames, Record
  <2>2. /\ stream' = Append(stream, f) /\ Prune(stream', postedHead)
        /\ canonicalCount' = canonicalCount + slots /\ UNCHANGED <<blockNumber, postedHead>>
    BY <1>1 DEF EmitRecord
  <2> HIDE DEF f
  <2> QED BY <2>1, <2>2, EmitKeepsService
<1>2. ASSUME EmitBoundary PROVE ServiceInv'
  <2> DEFINE f == Boundary(blockNumber, canonicalCount)
  <2>1. f \in Frames /\ f.kind = "boundary" /\ f.key = blockNumber /\ f.end = canonicalCount
    <3>1. canonicalCount \in Nat /\ blockNumber \in Nat
      BY CursorTyped DEF ServiceInv, Axes
    <3> QED BY <3>1 DEF Frames, Boundary
  <2>2. /\ stream' = Append(stream, f) /\ Prune(stream', postedHead)
        /\ blockNumber' = blockNumber + 1 /\ UNCHANGED <<canonicalCount, postedHead>>
    BY <1>2 DEF EmitBoundary
  <2> HIDE DEF f
  <2> QED BY <2>1, <2>2, EmitKeepsService
<1>3. ASSUME NEW head \in Posted, SetPostedHead(head) PROVE ServiceInv'
  <2>1. /\ head > postedHead /\ head < blockNumber /\ postedHead' = head /\ Prune(stream, head)
        /\ UNCHANGED <<stream, canonicalCount, blockNumber>>
    BY <1>3 DEF SetPostedHead
  <2>2. head \in Nat /\ blockNumber \in Nat /\ postedHead \in Nat
    BY CursorTyped, StreamAssumption DEF ServiceInv, Axes
  <2>3. \A n \in 0..(evictions - 1) : BlockOf(stream, n) \in Nat
    <3> TAKE n \in 0..(evictions - 1)
    <3>1. n \in Nat
      OBVIOUS
    <3> QED BY <3>1, BlockOfTyped
  <2>4. /\ evictions' \in 0..Len(stream)
        /\ firstRetainedIndex' = FloorAfter(stream, evictions', "record", 0)
        /\ firstRetainedBlock' = FloorAfter(stream, evictions', "boundary", 1)
        /\ ~WindowOnly => \A n \in 0..(evictions' - 1) : BlockOf(stream, n) <= head
    <3>1. /\ Axes(stream, canonicalCount, blockNumber) /\ evictions \in 0..Len(stream)
          /\ ~WindowOnly => \A n \in 0..(evictions - 1) : BlockOf(stream, n) <= postedHead
      BY DEF ServiceInv, RetentionInv
    <3>2. ~WindowOnly => \A n \in 0..(evictions - 1) : BlockOf(stream, n) <= head
      BY <2>1, <2>2, <2>3, <3>1
    <3> QED BY <2>1, <2>2, <3>1, <3>2, PruneKeeps
  <2>5. RetentionInv'
    BY <2>1, <2>4 DEF RetentionInv
  <2>6. Axes(stream', canonicalCount', blockNumber')
    BY <2>1 DEF ServiceInv
  <2>7. postedHead' \in 0..(blockNumber' - 1)
    BY <2>1, <2>2
  <2> QED BY <2>5, <2>6, <2>7 DEF ServiceInv
<1>4. ASSUME UNCHANGED serviceVars PROVE ServiceInv'
  BY <1>4 DEF ServiceInv, RetentionInv, serviceVars
<1>5. CASE ~((\E slots \in Widths : EmitRecord(slots)) \/ EmitBoundary
              \/ \E head \in Posted : SetPostedHead(head))
  <2>1. UNCHANGED serviceVars
    BY <1>5 DEF Next, vars, HandleReplayRequest, Connect, Subscribe, Receive, SendReplay,
           ResendEarly, PublishFails, LoadIndex, LoadBlock, PublishRequest, EgressDies,
           ResetSession, Failover, DeliverBoundary, DeliverRecord, Ingest, Crash, Restart,
           AdoptCheckpoint, Resume
  <2> QED BY <1>4, <2>1
<1> QED BY <1>1, <1>2, <1>3, <1>5

LEMMA ServiceInvariant == Spec => []ServiceInv
<1>1. Init => ServiceInv
  <2> SUFFICES ASSUME Init PROVE ServiceInv
    OBVIOUS
  <2>1. stream = <<>> /\ Len(stream) = 0 /\ stream \in Seq(Frames)
    BY DEF Init
  <2>2. IndexOf(stream, 0) = 0 /\ BlockOf(stream, 0) = 1
    BY CursorAtStart
  <2>3. Axes(stream, canonicalCount, blockNumber)
    BY <2>1, <2>2 DEF Init, Axes, Dense, Rising
  <2>4. FloorAfter(stream, 0, "record", 0) = 0 /\ FloorAfter(stream, 0, "boundary", 1) = 1
    <3>1. \A kind : \A k \in 1..0 : stream[k].kind # kind
      OBVIOUS
    <3> QED BY <3>1, FloorIsStart
  <2> QED BY <2>1, <2>3, <2>4 DEF Init, ServiceInv, RetentionInv
<1>2. ServiceInv /\ [Next]_vars => ServiceInv'
  BY ServiceStep
<1> QED BY <1>1, <1>2, PTL DEF Spec

-----------------------------------------------------------------------------
(* The replays that the service serves *)

\* What the invariant says of the stream and the floors, in one place.
LEMMA ServiceFacts ==
    ASSUME ServiceInv
    PROVE  /\ stream \in Seq(Frames) /\ Len(stream) \in Nat /\ Dense(stream) /\ Rising(stream)
           /\ canonicalCount = IndexOf(stream, Len(stream))
           /\ blockNumber = BlockOf(stream, Len(stream))
           /\ \A n \in 0..Len(stream) :
                 IndexOf(stream, n) \in Nat /\ BlockOf(stream, n) \in Nat \ {0}
           /\ evictions \in 0..Len(stream) /\ evictions \in Nat
           /\ firstRetainedBlock = BlockOf(stream, evictions)
           /\ firstRetainedIndex \in 0..IndexOf(stream, evictions)
           /\ \A i \in 1..evictions :
                 stream[i].kind = "record" => stream[i].key < firstRetainedIndex
           /\ postedHead \in Nat
<1>1. Axes(stream, canonicalCount, blockNumber) /\ RetentionInv
  BY DEF ServiceInv
<1>2. /\ stream \in Seq(Frames) /\ Len(stream) \in Nat /\ Dense(stream) /\ Rising(stream)
      /\ canonicalCount = IndexOf(stream, Len(stream))
      /\ blockNumber = BlockOf(stream, Len(stream))
  BY <1>1 DEF Axes
<1>3. \A n \in 0..Len(stream) : IndexOf(stream, n) \in Nat /\ BlockOf(stream, n) \in Nat \ {0}
  BY <1>2, CursorTyped
<1>4. evictions \in 0..Len(stream) /\ evictions \in Nat
  BY <1>1, <1>2 DEF RetentionInv
<1>5. /\ FloorAfter(stream, evictions, "boundary", 1) = BlockOf(stream, evictions)
      /\ FloorAfter(stream, evictions, "record", 0) \in 0..IndexOf(stream, evictions)
      /\ \A i \in 1..evictions : stream[i].kind = "record" =>
            stream[i].key < FloorAfter(stream, evictions, "record", 0)
  BY <1>1, <1>4, FloorsAreCursors
<1>6. /\ firstRetainedIndex = FloorAfter(stream, evictions, "record", 0)
      /\ firstRetainedBlock = FloorAfter(stream, evictions, "boundary", 1)
  BY <1>1 DEF RetentionInv
<1>7. postedHead \in Nat
  <2>1. blockNumber \in Nat
    BY <1>2, <1>3
  <2> QED BY <2>1 DEF ServiceInv
<1> QED BY <1>2, <1>3, <1>4, <1>5, <1>6, <1>7

\* On either axis, the frames at or after a cursor are those behind it.
LEMMA FrameSides ==
    ASSUME ServiceInv, NEW n \in 0..Len(stream), NEW i \in 1..Len(stream)
    PROVE  /\ stream[i].key \in Nat
           /\ stream[i].kind = "record" => (stream[i].key >= IndexOf(stream, n) <=> i > n)
           /\ stream[i].kind = "boundary" => (stream[i].key >= BlockOf(stream, n) <=> i > n)
           /\ stream[i].kind \in {"record", "boundary"}
<1>1. /\ stream \in Seq(Frames) /\ Len(stream) \in Nat /\ Dense(stream) /\ Rising(stream)
      /\ \A m \in 0..Len(stream) : IndexOf(stream, m) \in Nat /\ BlockOf(stream, m) \in Nat
  BY ServiceFacts
<1>2. i \in 0..Len(stream) /\ i - 1 \in 0..Len(stream) /\ i \in Int /\ n \in Int
  BY <1>1
<1>3. CASE stream[i].kind = "record"
  <2>1. /\ stream[i].key \in Nat /\ stream[i].slots \in Nat \ {0}
        /\ stream[i].key = IndexOf(stream, i - 1)
        /\ IndexOf(stream, i) = stream[i].key + stream[i].slots
    BY <1>1, <1>3, RecordPlace
  <2>2. i > n => IndexOf(stream, i - 1) >= IndexOf(stream, n)
    BY <1>1, <1>2 DEF Rising
  <2>3. i <= n => IndexOf(stream, i) <= IndexOf(stream, n)
    BY <1>1, <1>2 DEF Rising
  <2> QED BY <1>1, <1>2, <1>3, <2>1, <2>2, <2>3, SMTT(30)
<1>4. CASE stream[i].kind = "boundary"
  <2>1. /\ stream[i].key \in Nat /\ stream[i].key = BlockOf(stream, i - 1)
        /\ BlockOf(stream, i) = stream[i].key + 1
    BY <1>1, <1>4, BoundaryPlace
  <2>2. i > n => BlockOf(stream, i - 1) >= BlockOf(stream, n)
    BY <1>1, <1>2 DEF Rising
  <2>3. i <= n => BlockOf(stream, i) <= BlockOf(stream, n)
    BY <1>1, <1>2 DEF Rising
  <2> QED BY <1>1, <1>2, <1>4, <2>1, <2>2, <2>3
<1> QED BY <1>1, <1>3, <1>4, FrameKinds

\* A cursor at or above both floors is above every evicted frame.
LEMMA ServedAboveEvictions ==
    ASSUME ServiceInv, NEW n \in 0..Len(stream),
           IndexOf(stream, n) >= firstRetainedIndex, BlockOf(stream, n) >= firstRetainedBlock
    PROVE  n >= evictions
<1> SUFFICES ASSUME n < evictions PROVE FALSE
  BY ServiceFacts
<1>1. n + 1 \in 1..evictions /\ n + 1 \in 1..Len(stream) /\ n \in Int
  BY ServiceFacts
<1>2. stream[n + 1].kind \in {"record", "boundary"} /\ stream[n + 1].key \in Nat
  BY <1>1, FrameSides
<1>3. CASE stream[n + 1].kind = "record"
  <2>1. stream[n + 1].key < firstRetainedIndex /\ firstRetainedIndex \in Nat
    <3>1. IndexOf(stream, evictions) \in Nat
      BY ServiceFacts
    <3> QED BY <1>1, <1>3, <3>1, ServiceFacts
  <2>2. stream[n + 1].key >= IndexOf(stream, n) /\ IndexOf(stream, n) \in Nat
    BY <1>1, <1>3, FrameSides, ServiceFacts
  <2> QED BY <1>2, <2>1, <2>2
<1>4. CASE stream[n + 1].kind = "boundary"
  <2>1. /\ stream[n + 1].key >= BlockOf(stream, n)
        /\ ~(stream[n + 1].key >= BlockOf(stream, evictions))
    BY <1>1, <1>4, FrameSides, ServiceFacts, SMTT(30)
  <2>2. BlockOf(stream, n) \in Nat /\ BlockOf(stream, evictions) \in Nat
    BY ServiceFacts
  <2> QED BY <1>2, <2>1, <2>2, ServiceFacts
<1> QED BY <1>2, <1>3, <1>4

LEMMA WantedIsRest ==
    ASSUME ServiceInv, NEW n \in 0..Len(stream), n >= evictions
    PROVE  Wanted(IndexOf(stream, n), BlockOf(stream, n)) = SubSeq(stream, n + 1, Len(stream))
<1> DEFINE places == WantedPlaces(IndexOf(stream, n), BlockOf(stream, n))
<1>1. stream \in Seq(Frames) /\ Len(stream) \in Nat /\ n \in Int /\ evictions \in Nat
  BY ServiceFacts
<1>2. ASSUME NEW i \in 1..Len(stream)
      PROVE  i > n <=> stream[i].key >= IF stream[i].kind = "boundary" THEN BlockOf(stream, n)
                                        ELSE IndexOf(stream, n)
  BY <1>2, FrameSides
<1>3. places = (n + 1)..Len(stream)
  BY <1>1, <1>2 DEF WantedPlaces
<1>4. n + 1 \in 1..(Len(stream) + 1)
  BY <1>1
<1>5. Picked(stream, (n + 1)..Len(stream)) = SubSeq(stream, n + 1, Len(stream))
  BY <1>1, <1>4, PickedRun
<1> QED BY <1>3, <1>5, WantedIsPicked

\* The end that the retention knows for a block is the end of its boundary.
LEMMA BoundaryEndIs ==
    ASSUME ServiceInv, NEW block
    PROVE  \/ BoundaryEnd(block) = -1
           \/ \E i \in 1..Len(stream) : /\ stream[i].kind = "boundary" /\ stream[i].key = block
                                        /\ BoundaryEnd(block) = stream[i].end
<1> DEFINE ends == {Retained[i].end : i \in {j \in 1..Len(Retained) :
                       Retained[j].kind = "boundary" /\ Retained[j].key = block}}
<1>1. stream \in Seq(Frames) /\ Len(stream) \in Nat /\ evictions \in 0..Len(stream)
  BY ServiceFacts
<1>2. ASSUME NEW j \in 1..Len(Retained)
      PROVE  evictions + j \in 1..Len(stream) /\ Retained[j] = stream[evictions + j]
  BY <1>1, <1>2 DEF Retained
<1>3. ASSUME NEW e \in ends
      PROVE  \E i \in 1..Len(stream) : /\ stream[i].kind = "boundary" /\ stream[i].key = block
                                       /\ e = stream[i].end
  BY <1>2, <1>3
<1>4. BoundaryEnd(block) = IF ends = {} THEN -1 ELSE CHOOSE e \in ends : TRUE
  BY DEF BoundaryEnd
<1> HIDE DEF ends
<1>5. CASE ends # {}
  <2> DEFINE e == CHOOSE f \in ends : TRUE
  <2>1. e \in ends
    BY <1>5
  <2> QED BY <1>3, <1>4, <1>5, <2>1
<1> QED BY <1>4, <1>5

\* A point of the stream is never refused as skewed.
LEMMA PointInsideBlock ==
    ASSUME ServiceInv, NEW n \in 0..Len(stream)
    PROVE  CursorInsideBlock(IndexOf(stream, n), BlockOf(stream, n))
<1> DEFINE index == IndexOf(stream, n)
           block == BlockOf(stream, n)
<1>1. /\ stream \in Seq(Frames) /\ Len(stream) \in Nat /\ Dense(stream) /\ Rising(stream)
      /\ \A m \in 0..Len(stream) : IndexOf(stream, m) \in Nat /\ BlockOf(stream, m) \in Nat
      /\ index \in Nat /\ block \in Nat /\ n \in Int
  BY ServiceFacts
<1>2. ASSUME NEW i \in 1..Len(stream), stream[i].kind = "boundary", stream[i].key = block - 1
      PROVE  index >= stream[i].end
  <2>1. stream[i].end = IndexOf(stream, i - 1) /\ BlockOf(stream, i) = stream[i].key + 1
    BY <1>1, <1>2, BoundaryPlace
  <2>2. i <= n
    <3>1. ~(stream[i].key >= block)
      BY <1>1, <1>2
    <3> QED BY <1>1, <1>2, <3>1, FrameSides
  <2>3. i - 1 \in 0..Len(stream) /\ i - 1 <= n
    BY <1>1, <2>2
  <2> QED BY <1>1, <2>1, <2>3 DEF Rising
<1>3. ASSUME NEW i \in 1..Len(stream), stream[i].kind = "boundary", stream[i].key = block
      PROVE  index <= stream[i].end
  <2>1. stream[i].end = IndexOf(stream, i - 1)
    BY <1>1, <1>3, BoundaryPlace
  <2>2. i > n
    <3>1. stream[i].key >= block
      BY <1>1, <1>3
    <3> QED BY <1>1, <1>3, <3>1, FrameSides
  <2>3. i - 1 \in 0..Len(stream) /\ n <= i - 1
    BY <1>1, <2>2
  <2> QED BY <1>1, <2>1, <2>3 DEF Rising
<1>4. BoundaryEnd(block - 1) < 0 \/ index >= BoundaryEnd(block - 1)
  <2>1. CASE BoundaryEnd(block - 1) = -1
    BY <2>1
  <2> QED BY <1>2, <2>1, BoundaryEndIs
<1>5. BoundaryEnd(block) < 0 \/ index <= BoundaryEnd(block)
  <2>1. CASE BoundaryEnd(block) = -1
    BY <2>1
  <2> QED BY <1>3, <2>1, BoundaryEndIs
<1> QED BY <1>4, <1>5 DEF CursorInsideBlock

\* handleReplayRequest and prune, for every retention cap and every pattern of
\* posted heads: a replay that is served holds exactly the frames after the
\* cursor, and a cursor in a block that is not posted is always served.
THEOREM UnpostedIsReplayable == Spec => []UnpostedReplayable
<1>1. ServiceInv => UnpostedReplayable
  <2> SUFFICES ASSUME ServiceInv, NEW n \in 0..Len(stream)
               PROVE  /\ ReplayVerdict(IndexOf(stream, n), BlockOf(stream, n)) = "SERVE" =>
                            Wanted(IndexOf(stream, n), BlockOf(stream, n))
                                = SubSeq(stream, n + 1, Len(stream))
                      /\ ~WindowOnly /\ BlockOf(stream, n) > postedHead =>
                            ReplayVerdict(IndexOf(stream, n), BlockOf(stream, n)) = "SERVE"
    BY CursorOfStream DEF UnpostedReplayable
  <2> DEFINE index == IndexOf(stream, n)
             block == BlockOf(stream, n)
  <2>1. /\ Len(stream) \in Nat /\ Rising(stream) /\ n \in Int
        /\ canonicalCount = IndexOf(stream, Len(stream))
        /\ blockNumber = BlockOf(stream, Len(stream))
        /\ evictions \in 0..Len(stream) /\ evictions \in Nat
        /\ firstRetainedBlock = BlockOf(stream, evictions)
        /\ firstRetainedIndex \in 0..IndexOf(stream, evictions)
        /\ \A m \in 0..Len(stream) : IndexOf(stream, m) \in Nat /\ BlockOf(stream, m) \in Nat
        /\ postedHead \in Nat
    BY ServiceFacts
  <2>2. firstRetainedIndex \in Nat /\ firstRetainedBlock \in Nat /\ index \in Nat /\ block \in Nat
        /\ canonicalCount \in Nat /\ blockNumber \in Nat
    BY <2>1
  <2>3. ASSUME ReplayVerdict(index, block) = "SERVE"
        PROVE  Wanted(index, block) = SubSeq(stream, n + 1, Len(stream))
    <3>1. index >= firstRetainedIndex /\ block >= firstRetainedBlock
      BY <2>2, <2>3 DEF ReplayVerdict
    <3>2. n >= evictions
      BY <3>1, ServedAboveEvictions
    <3> QED BY <3>2, WantedIsRest
  <2>4. ASSUME ~WindowOnly, block > postedHead PROVE ReplayVerdict(index, block) = "SERVE"
    <3>1. n >= evictions
      <4> SUFFICES ASSUME n < evictions PROVE FALSE
        BY <2>1
      <4>1. n \in 0..(evictions - 1)
        BY <2>1
      <4>2. block <= postedHead
        BY <2>4, <4>1 DEF ServiceInv, RetentionInv
      <4> QED BY <2>1, <2>2, <2>4, <4>2
    <3>2. ~(index > canonicalCount) /\ ~(block > blockNumber)
      <4>1. Len(stream) \in 0..Len(stream) /\ n <= Len(stream)
        BY <2>1
      <4>2. index <= IndexOf(stream, Len(stream)) /\ block <= BlockOf(stream, Len(stream))
        BY <2>1, <4>1 DEF Rising
      <4> QED BY <2>1, <2>2, <4>2
    <3>3. ~(index < firstRetainedIndex) /\ ~(block < firstRetainedBlock)
      <4>1. IndexOf(stream, evictions) <= index /\ BlockOf(stream, evictions) <= block
        BY <2>1, <3>1 DEF Rising
      <4>2. IndexOf(stream, evictions) \in Nat
        BY <2>1
      <4> QED BY <2>1, <2>2, <4>1, <4>2
    <3>4. CursorInsideBlock(index, block)
      BY PointInsideBlock
    <3> QED BY <3>2, <3>3, <3>4 DEF ReplayVerdict
  <2> QED BY <2>3, <2>4
<1> QED BY <1>1, ServiceInvariant, PTL

================================================================================
