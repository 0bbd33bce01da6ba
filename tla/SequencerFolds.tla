---------------------------- MODULE SequencerFolds ----------------------------
(***************************************************************************)
(* Induction along the folds of Sequencer: over a drain of receipts,       *)
(* refusals or answers, over the ledger and over a run of transactions.    *)
(*                                                                         *)
(* A lemma cannot take an operator as a parameter that the provers could   *)
(* instantiate.  So induction is stated for sets and functions, and the    *)
(* lemma that a fold goes from state to state, one element at a time, is   *)
(* proved once for each operator that a pass folds with.                   *)
(***************************************************************************)
EXTENDS Sequencer, WellFoundedInduction, TLAPS

-----------------------------------------------------------------------------
(* Induction *)

\* A set of naturals has a least member.
LEMMA LeastNatural ==
    ASSUME NEW T, T \subseteq Nat, T # {}
    PROVE  \E x \in T : \A y \in T : x <= y
<1>1. PICK R : R = OpToRel(<, Nat)
  OBVIOUS
<1>2. \E x \in T : \A y \in T : ~(<<y, x>> \in R)
  <2>1. IsWellFoundedOn(R, Nat)
    BY <1>1, NatLessThanWellFounded, Zenon
  <2> QED BY <2>1, WFMin, Zenon
<1>3. \A x, y \in Nat : y < x => <<y, x>> \in R
  <2>1. \A x, y \in Nat : y < x => <<y, x>> \in OpToRel(<, Nat)
    BY DEF OpToRel
  <2> QED BY <1>1, <2>1, Zenon
<1>4. PICK x \in T : \A y \in T : ~(<<y, x>> \in R)
  BY <1>2
<1>5. ASSUME NEW y \in T PROVE x <= y
  <2>1. x \in Nat /\ y \in Nat /\ ~(<<y, x>> \in R)
    BY <1>4, <1>5
  <2>2. ~(y < x)
    BY <1>3, <2>1
  <2> QED BY <2>1, <2>2
<1> QED BY <1>5

\* Induction, for a set of naturals.
LEMMA InductiveSet ==
    ASSUME NEW T, 0 \in T, \A n \in Nat : n \in T => n + 1 \in T
    PROVE  \A n \in Nat : n \in T
<1> SUFFICES ASSUME Nat \ T # {} PROVE FALSE
  OBVIOUS
<1>1. PICK x \in Nat \ T : \A y \in Nat \ T : x <= y
  BY LeastNatural
<1>2. x # 0 /\ x - 1 \in Nat /\ (x - 1) + 1 = x
  BY <1>1
<1>3. x - 1 \in T
  BY <1>1, <1>2
<1> QED BY <1>1, <1>2, <1>3

\* What holds before the first step and survives each step holds at the end: the
\* state after step i is in G[i].
LEMMA PathInduction ==
    ASSUME NEW n \in Nat, NEW h, NEW G, h[0] \in G[0],
           \A i \in 1..n : h[i - 1] \in G[i - 1] => h[i] \in G[i]
    PROVE  \A i \in 0..n : h[i] \in G[i]
<1> DEFINE T == {i \in Nat : i <= n => h[i] \in G[i]}
<1>1. 0 \in T
  OBVIOUS
<1>2. ASSUME NEW i \in Nat, i \in T PROVE i + 1 \in T
  <2> SUFFICES ASSUME i + 1 <= n PROVE h[i + 1] \in G[i + 1]
    OBVIOUS
  <2>1. i + 1 \in 1..n /\ (i + 1) - 1 = i /\ h[i] \in G[i]
    BY <1>2
  <2> QED BY <2>1
<1>3. \A i \in Nat : i \in T
  <2> HIDE DEF T
  <2> QED BY <1>1, <1>2, InductiveSet
<1> QED BY <1>3

LEMMA PathWithin ==
    ASSUME NEW n \in Nat, NEW h, NEW A, h[0] \in A,
           \A i \in 1..n : h[i - 1] \in A => h[i] \in A
    PROVE  \A i \in 0..n : h[i] \in A
<1> DEFINE G == [i \in 0..n |-> A]
<1>1. h[0] \in G[0] /\ \A i \in 1..n : h[i - 1] \in G[i - 1] => h[i] \in G[i]
  OBVIOUS
<1>2. \A i \in 0..n : h[i] \in G[i]
  <2> HIDE DEF G
  <2> QED BY <1>1, PathInduction
<1> QED BY <1>2

-----------------------------------------------------------------------------
(* The function that FoldLeft goes through *)

LEMMA MaxOfSome ==
    ASSUME NEW n \in Nat, NEW x, x \subseteq 1..n, x # {}
    PROVE  Max(x) \in x /\ \A y \in x : y <= Max(x)
<1> DEFINE T == {k \in Nat : \E y \in x : k = n - y}
<1>0. \A y \in x : y \in Int /\ n - y \in Nat
  OBVIOUS
<1>1. T \subseteq Nat /\ T # {}
  <2>1. PICK y : y \in x
    OBVIOUS
  <2>2. n - y \in T
    BY <1>0, <2>1
  <2> QED BY <2>2
<1>2. PICK k \in T : \A y \in T : k <= y
  BY <1>1, LeastNatural
<1>3. PICK m \in x : k = n - m
  BY <1>2
<1>4. ASSUME NEW y \in x PROVE y <= m
  <2>1. n - y \in T
    BY <1>0
  <2>2. n - m <= n - y
    BY <1>2, <1>3, <2>1
  <2> QED BY <1>0, <2>2
<1>5. \E z \in x : \A y \in x : z >= y
  BY <1>4
<1>6. Max(x) \in x /\ \A y \in x : Max(x) >= y
  BY <1>5, Zenon DEF Max
<1> QED BY <1>6

LEMMA MaxOfInterval ==
    ASSUME NEW i \in Nat \ {0}
    PROVE  Max(1..i) = i /\ (1..i) \ {i} = 1..(i - 1) /\ 1..i # {}
<1>1. 1..i # {}
  BY i \in 1..i
<1>2. Max(1..i) \in 1..i /\ \A y \in 1..i : y <= Max(1..i)
  BY <1>1, MaxOfSome
<1>3. Max(1..i) = i
  BY <1>2
<1> QED BY <1>1, <1>3

\* g maps each set of positions to the fold of s over them.
FoldsTo(g, n, s, F) ==
    g = [x \in SUBSET (1..n) |-> IF x = {} THEN s ELSE F[<<g[x \ {Max(x)}], Max(x)>>]]

\* The recursion that defines a fold has a solution.
LEMMA FoldExists ==
    ASSUME NEW A, NEW s \in A, NEW n \in Nat, NEW F \in [A \X (1..n) -> A]
    PROVE  \E g \in [SUBSET (1..n) -> A] : FoldsTo(g, n, s, F)
<1> DEFINE Has(k) == \E g \in [SUBSET (1..k) -> A] : FoldsTo(g, k, s, F)
           T == {k \in Nat : k <= n => Has(k)}
<1>1. Has(0)
  <2>1. SUBSET (1..0) = {{}}
    OBVIOUS
  <2> DEFINE g == [x \in {{}} |-> s]
  <2>2. g \in [{{}} -> A]
    OBVIOUS
  <2>3. g = [x \in {{}} |-> IF x = {} THEN s ELSE F[<<g[x \ {Max(x)}], Max(x)>>]]
    OBVIOUS
  <2> HIDE DEF g
  <2>4. FoldsTo(g, 0, s, F)
    BY <2>1, <2>3 DEF FoldsTo
  <2> QED BY <2>1, <2>2, <2>4
<1>2. ASSUME NEW k \in Nat, k + 1 <= n, Has(k) PROVE Has(k + 1)
  <2>1. PICK g \in [SUBSET (1..k) -> A] : FoldsTo(g, k, s, F)
    BY <1>2
  <2> DEFINE f == [x \in SUBSET (1..(k + 1)) |->
                      IF k + 1 \in x THEN F[<<g[x \ {k + 1}], k + 1>>] ELSE g[x]]
             v(x) == IF x = {} THEN s ELSE F[<<f[x \ {Max(x)}], Max(x)>>]
  <2>2. \A x \in SUBSET (1..(k + 1)) : k + 1 \notin x => x \in SUBSET (1..k)
    OBVIOUS
  <2>3. \A x \in SUBSET (1..(k + 1)) : x \ {k + 1} \in SUBSET (1..k)
    OBVIOUS
  <2>4. k + 1 \in 1..n
    BY <1>2
  <2>5. f \in [SUBSET (1..(k + 1)) -> A]
    <3> SUFFICES ASSUME NEW x \in SUBSET (1..(k + 1))
                 PROVE  (IF k + 1 \in x THEN F[<<g[x \ {k + 1}], k + 1>>] ELSE g[x]) \in A
      OBVIOUS
    <3>1. CASE k + 1 \in x
      <4>1. g[x \ {k + 1}] \in A
        BY <2>1, <2>3
      <4> QED BY <2>4, <3>1, <4>1
    <3>2. CASE k + 1 \notin x
      BY <2>1, <2>2, <3>2
    <3> QED BY <3>1, <3>2
  <2>6. \A x \in SUBSET (1..k) : f[x] = g[x]
    OBVIOUS
  <2>7. ASSUME NEW x \in SUBSET (1..(k + 1)) PROVE f[x] = v(x)
    <3>1. CASE k + 1 \in x
      <4>1. x # {} /\ Max(x) = k + 1
        <5>1. x \subseteq 1..(k + 1) /\ x # {} /\ k + 1 \in Nat
          BY <2>7, <3>1
        <5>2. Max(x) \in x /\ \A y \in x : y <= Max(x)
          BY <5>1, MaxOfSome
        <5>3. Max(x) \in 1..(k + 1) /\ k + 1 <= Max(x)
          BY <3>1, <5>1, <5>2
        <5> HIDE DEF f, v, T, Has
        <5> QED BY <5>1, <5>3
      <4>2. f[x \ {k + 1}] = g[x \ {k + 1}]
        BY <2>3, <2>6
      <4>3. f[x] = F[<<g[x \ {k + 1}], k + 1>>]
        BY <3>1
      <4> HIDE DEF f
      <4> QED BY <4>1, <4>2, <4>3
    <3>2. CASE k + 1 \notin x
      <4>1. x \in SUBSET (1..k) /\ f[x] = g[x]
        BY <2>2, <2>6, <3>2
      <4>2. CASE x = {}
        BY <2>1, <4>1, <4>2 DEF FoldsTo
      <4>3. CASE x # {}
        <5>1. x \ {Max(x)} \in SUBSET (1..k)
          BY <4>1
        <5>2. f[x \ {Max(x)}] = g[x \ {Max(x)}]
          BY <2>6, <5>1
        <5>3. g[x] = F[<<g[x \ {Max(x)}], Max(x)>>]
          BY <2>1, <4>1, <4>3 DEF FoldsTo
        <5> HIDE DEF f
        <5> QED BY <4>1, <4>3, <5>2, <5>3
      <4> QED BY <4>2, <4>3
    <3> QED BY <3>1, <3>2
  <2>8. f = [x \in SUBSET (1..(k + 1)) |-> v(x)]
    BY <2>5, <2>7
  <2>9. FoldsTo(f, k + 1, s, F)
    <3> HIDE DEF f
    <3> QED BY <2>8 DEF FoldsTo
  <2> HIDE DEF f
  <2> QED BY <2>5, <2>9
<1> HIDE DEF Has
<1>3. 0 \in T
  BY <1>1
<1>4. ASSUME NEW k \in Nat, k \in T PROVE k + 1 \in T
  BY <1>2, <1>4
<1>5. \A k \in Nat : k \in T
  <2> HIDE DEF T
  <2> QED BY <1>3, <1>4, InductiveSet
<1>6. Has(n)
  BY <1>5
<1> QED BY <1>6 DEF Has

-----------------------------------------------------------------------------
(* The filter *)

\* The states that a fold goes through: h[i] is what the first i elements give.
LEMMA OnlyPath ==
    ASSUME NEW X, NEW q \in Seq(X), NEW kept
    PROVE  \E h : /\ h[0] = <<>> /\ h[Len(q)] = Only(q, kept)
                  /\ \A i \in 1..Len(q) :
                        h[i] = IF q[i] \in kept THEN Append(h[i - 1], q[i]) ELSE h[i - 1]
<1> DEFINE op(r, u) == IF u \in kept THEN Append(r, u) ELSE r
           n == Len(q)
           F == [p \in Seq(X) \X (1..n) |-> op(p[1], q[p[2]])]
           E(g) == [x \in SUBSET DOMAIN q |->
                      IF x = {} THEN <<>> ELSE op(g[x \ {Max(x)}], q[Max(x)])]
           g == CHOOSE f : f = E(f)
           h == [i \in 0..n |-> g[1..i]]
<1>0. n \in Nat /\ DOMAIN q = 1..n /\ \A i \in 1..n : q[i] \in X
  OBVIOUS
<1>1. F \in [Seq(X) \X (1..n) -> Seq(X)]
  OBVIOUS
<1>2. PICK f \in [SUBSET (1..n) -> Seq(X)] : FoldsTo(f, n, <<>>, F)
  <2> HIDE DEF F
  <2>1. <<>> \in Seq(X)
    OBVIOUS
  <2> QED BY <1>0, <1>1, <2>1, FoldExists
<1>3. f = E(f)
  <2>1. ASSUME NEW x \in SUBSET (1..n), x # {}
        PROVE  F[<<f[x \ {Max(x)}], Max(x)>>] = op(f[x \ {Max(x)}], q[Max(x)])
    <3>1. Max(x) \in 1..n
      BY <1>0, <2>1, MaxOfSome
    <3>2. f[x \ {Max(x)}] \in Seq(X)
      BY <1>2
    <3> QED BY <3>1, <3>2
  <2> HIDE DEF F, op
  <2> QED BY <1>0, <1>2, <2>1 DEF FoldsTo
<1>4. g = E(g)
  <2> HIDE DEF E
  <2> QED BY <1>3, Zenon
<1>5. Only(q, kept) = g[DOMAIN q]
  BY Zenon DEF Only, FoldLeft, MapThenFoldSet
<1>6. h[n] = Only(q, kept) /\ h[0] = <<>>
  <2> HIDE DEF g, op
  <2>1. g[{}] = <<>> /\ 1..0 = {}
    BY <1>4
  <2> QED BY <1>0, <1>5, <2>1
<1>7. ASSUME NEW i \in 1..n PROVE h[i] = op(h[i - 1], q[i])
  <2>1. Max(1..i) = i /\ (1..i) \ {i} = 1..(i - 1) /\ 1..i # {}
    BY <1>0, MaxOfInterval
  <2>2. 1..i \in SUBSET DOMAIN q /\ i \in 0..n /\ i - 1 \in 0..n
    BY <1>0
  <2> HIDE DEF op
  <2>3. g[1..i] = op(g[1..(i - 1)], q[i])
    <3> HIDE DEF g
    <3> QED BY <1>4, <2>1, <2>2
  <2> QED BY <2>2, <2>3
<1> QED BY <1>6, <1>7

\* What Only returns: the elements that are kept, and no others.
LEMMA OnlyKeeps ==
    ASSUME NEW X, NEW q \in Seq(X), NEW kept
    PROVE  /\ Only(q, kept) \in Seq(X)
           /\ \A i \in DOMAIN Only(q, kept) : /\ Only(q, kept)[i] \in kept
                                              /\ \E j \in DOMAIN q : q[j] = Only(q, kept)[i]
           /\ \A j \in DOMAIN q : q[j] \in kept =>
                  \E i \in DOMAIN Only(q, kept) : Only(q, kept)[i] = q[j]
<1> DEFINE n == Len(q)
           Good(r, i) == /\ \A k \in 1..Len(r) : r[k] \in kept /\ \E j \in 1..i : q[j] = r[k]
                         /\ \A j \in 1..i : q[j] \in kept => \E k \in 1..Len(r) : r[k] = q[j]
           G == [i \in 0..n |-> {r \in Seq(X) : Good(r, i)}]
<1>1. PICK h : /\ h[0] = <<>> /\ h[n] = Only(q, kept)
               /\ \A i \in 1..n :
                     h[i] = IF q[i] \in kept THEN Append(h[i - 1], q[i]) ELSE h[i - 1]
  BY OnlyPath
<1>2. n \in Nat /\ DOMAIN q = 1..n /\ \A i \in 1..n : q[i] \in X
  OBVIOUS
<1>3. h[0] \in G[0]
  <2>1. <<>> \in Seq(X) /\ Good(<<>>, 0)
    OBVIOUS
  <2> HIDE DEF Good
  <2> QED BY <1>1, <1>2, <2>1
<1>4. ASSUME NEW i \in 1..n, h[i - 1] \in G[i - 1] PROVE h[i] \in G[i]
  <2>1. i \in 0..n /\ i - 1 \in 0..n /\ i \in Nat
    BY <1>2
  <2>2. PICK r : r = h[i - 1]
    OBVIOUS
  <2>3. r \in Seq(X) /\ Good(r, i - 1)
    BY <1>4, <2>1, <2>2
  <2>4. PICK u \in X : u = q[i]
    BY <1>2
  <2>5. CASE u \in kept
    <3>1. Append(r, u) \in Seq(X)
      BY <2>3
    <3>2. Good(Append(r, u), i)
      <4>1. \A k \in 1..Len(r) : Append(r, u)[k] = r[k]
        BY <2>3
      <4>2. Len(Append(r, u)) = Len(r) + 1 /\ Append(r, u)[Len(r) + 1] = u /\ Len(r) \in Nat
        BY <2>3
      <4>3. PICK w : w = Append(r, u)
        OBVIOUS
      <4>4. \A k \in 1..Len(w) : w[k] \in kept /\ \E j \in 1..i : q[j] = w[k]
        <5> TAKE k \in 1..Len(w)
        <5>1. CASE k \in 1..Len(r)
          BY <2>1, <2>3, <4>1, <4>3, <5>1
        <5>2. CASE k = Len(r) + 1
          BY <2>1, <2>4, <2>5, <4>2, <4>3, <5>2
        <5> QED BY <4>2, <4>3, <5>1, <5>2
      <4>5. ASSUME NEW j \in 1..i, q[j] \in kept PROVE \E k \in 1..Len(w) : w[k] = q[j]
        <5>1. CASE j = i
          BY <2>4, <4>2, <4>3, <5>1
        <5>2. CASE j # i
          <6>0. j \in 1..(i - 1)
            BY <2>1, <4>5, <5>2
          <6>1. PICK k \in 1..Len(r) : r[k] = q[j]
            BY <2>3, <4>5, <6>0
          <6> QED BY <4>1, <4>2, <4>3, <6>1
        <5> QED BY <5>1, <5>2
      <4> QED BY <4>3, <4>4, <4>5
    <3> HIDE DEF Good
    <3> QED BY <1>1, <2>1, <2>2, <2>4, <2>5, <3>1, <3>2
  <2>6. CASE u \notin kept
    <3>1. Good(r, i)
      BY <2>1, <2>3, <2>4, <2>6
    <3> HIDE DEF Good
    <3> QED BY <1>1, <2>1, <2>2, <2>3, <2>4, <2>6, <3>1
  <2> QED BY <2>5, <2>6
<1>5. h[n] \in G[n]
  <2> HIDE DEF G, n
  <2>1. \A i \in 0..n : h[i] \in G[i]
    BY <1>2, <1>3, <1>4, PathInduction
  <2> QED BY <1>2, <2>1
<1>6. PICK r : r = Only(q, kept)
  OBVIOUS
<1>7. r \in Seq(X) /\ Good(r, n)
  BY <1>1, <1>2, <1>5, <1>6
<1>8. DOMAIN r = 1..Len(r) /\ Len(r) \in Nat
  BY <1>7
<1> QED BY <1>2, <1>6, <1>7, <1>8

-----------------------------------------------------------------------------
(* The path of each fold: h[i] is what the first i elements make of s, and *)
(* all of it stays in a set A that the operator does not leave.            *)

ReinsertAll(s, q) == FoldLeft(ReinsertForRetry, s, q)

LEMMA ReinsertPath ==
    ASSUME NEW A, NEW s \in A, NEW X, NEW q \in Seq(X),
           \A r \in A, u \in X : ReinsertForRetry(r, u) \in A
    PROVE  \E h : /\ h[0] = s /\ h[Len(q)] = ReinsertAll(s, q)
                  /\ \A i \in 0..Len(q) : h[i] \in A
                  /\ \A i \in 1..Len(q) : h[i] = ReinsertForRetry(h[i - 1], q[i])
<1> DEFINE n == Len(q)
           F == [p \in A \X (1..n) |-> ReinsertForRetry(p[1], q[p[2]])]
           E(g) == [x \in SUBSET DOMAIN q |->
                      IF x = {} THEN s ELSE ReinsertForRetry(g[x \ {Max(x)}], q[Max(x)])]
           g == CHOOSE f : f = E(f)
<1>1. n \in Nat /\ DOMAIN q = 1..n /\ \A i \in 1..n : q[i] \in X
  OBVIOUS
<1>2. F \in [A \X (1..n) -> A]
  BY <1>1
<1>3. PICK f \in [SUBSET (1..n) -> A] : FoldsTo(f, n, s, F)
  <2> HIDE DEF F
  <2> QED BY <1>1, <1>2, FoldExists
<1>4. f = E(f)
  <2>1. ASSUME NEW x \in SUBSET (1..n), x # {}
        PROVE  F[<<f[x \ {Max(x)}], Max(x)>>] = ReinsertForRetry(f[x \ {Max(x)}], q[Max(x)])
    BY <1>1, <1>3, <2>1, MaxOfSome
  <2> HIDE DEF F
  <2> QED BY <1>1, <1>3, <2>1 DEF FoldsTo
<1>5. g = E(g)
  <2> HIDE DEF E
  <2> QED BY <1>4, Zenon
<1>6. ReinsertAll(s, q) = g[DOMAIN q]
  BY Zenon DEF ReinsertAll, FoldLeft, MapThenFoldSet
<1> HIDE DEF g
<1>7. g[{}] = s
  BY <1>5
<1>8. ASSUME NEW i \in 1..n PROVE g[1..i] = ReinsertForRetry(g[1..(i - 1)], q[i])
  <2>1. /\ Max(1..i) = i /\ (1..i) \ {i} = 1..(i - 1) /\ 1..i # {}
        /\ 1..i \in SUBSET DOMAIN q
    BY <1>1, MaxOfInterval
  <2> QED BY <1>5, <2>1
<1> HIDE DEF E, F, n
<1>9. PICK h : h = [i \in 0..n |-> g[1..i]]
  OBVIOUS
<1>10. h[0] = s /\ h[n] = ReinsertAll(s, q)
  <2>1. 1..0 = {}
    OBVIOUS
  <2> QED BY <1>1, <1>6, <1>7, <1>9, <2>1
<1>11. \A i \in 1..n : h[i] = ReinsertForRetry(h[i - 1], q[i])
  BY <1>1, <1>8, <1>9
<1>12. \A i \in 0..n : h[i] \in A
  <2>1. ASSUME NEW i \in 1..n, h[i - 1] \in A PROVE h[i] \in A
    BY <1>1, <1>11, <2>1
  <2> QED BY <1>1, <1>10, <2>1, PathWithin
<1> QED BY <1>10, <1>11, <1>12 DEF n

RebufferAll(s, q) == FoldLeft(Rebuffer, s, q)

LEMMA RebufferPath ==
    ASSUME NEW A, NEW s \in A, NEW X, NEW q \in Seq(X),
           \A r \in A, u \in X : Rebuffer(r, u) \in A
    PROVE  \E h : /\ h[0] = s /\ h[Len(q)] = RebufferAll(s, q)
                  /\ \A i \in 0..Len(q) : h[i] \in A
                  /\ \A i \in 1..Len(q) : h[i] = Rebuffer(h[i - 1], q[i])
<1> DEFINE n == Len(q)
           F == [p \in A \X (1..n) |-> Rebuffer(p[1], q[p[2]])]
           E(g) == [x \in SUBSET DOMAIN q |->
                      IF x = {} THEN s ELSE Rebuffer(g[x \ {Max(x)}], q[Max(x)])]
           g == CHOOSE f : f = E(f)
<1>1. n \in Nat /\ DOMAIN q = 1..n /\ \A i \in 1..n : q[i] \in X
  OBVIOUS
<1>2. F \in [A \X (1..n) -> A]
  BY <1>1
<1>3. PICK f \in [SUBSET (1..n) -> A] : FoldsTo(f, n, s, F)
  <2> HIDE DEF F
  <2> QED BY <1>1, <1>2, FoldExists
<1>4. f = E(f)
  <2>1. ASSUME NEW x \in SUBSET (1..n), x # {}
        PROVE  F[<<f[x \ {Max(x)}], Max(x)>>] = Rebuffer(f[x \ {Max(x)}], q[Max(x)])
    BY <1>1, <1>3, <2>1, MaxOfSome
  <2> HIDE DEF F
  <2> QED BY <1>1, <1>3, <2>1 DEF FoldsTo
<1>5. g = E(g)
  <2> HIDE DEF E
  <2> QED BY <1>4, Zenon
<1>6. RebufferAll(s, q) = g[DOMAIN q]
  BY Zenon DEF RebufferAll, FoldLeft, MapThenFoldSet
<1> HIDE DEF g
<1>7. g[{}] = s
  BY <1>5
<1>8. ASSUME NEW i \in 1..n PROVE g[1..i] = Rebuffer(g[1..(i - 1)], q[i])
  <2>1. /\ Max(1..i) = i /\ (1..i) \ {i} = 1..(i - 1) /\ 1..i # {}
        /\ 1..i \in SUBSET DOMAIN q
    BY <1>1, MaxOfInterval
  <2> QED BY <1>5, <2>1
<1> HIDE DEF E, F, n
<1>9. PICK h : h = [i \in 0..n |-> g[1..i]]
  OBVIOUS
<1>10. h[0] = s /\ h[n] = RebufferAll(s, q)
  <2>1. 1..0 = {}
    OBVIOUS
  <2> QED BY <1>1, <1>6, <1>7, <1>9, <2>1
<1>11. \A i \in 1..n : h[i] = Rebuffer(h[i - 1], q[i])
  BY <1>1, <1>8, <1>9
<1>12. \A i \in 0..n : h[i] \in A
  <2>1. ASSUME NEW i \in 1..n, h[i - 1] \in A PROVE h[i] \in A
    BY <1>1, <1>11, <2>1
  <2> QED BY <1>1, <1>10, <2>1, PathWithin
<1> QED BY <1>10, <1>11, <1>12 DEF n

RecordAll(s, q) == FoldLeft(RecordPublished, s, q)

LEMMA RecordPath ==
    ASSUME NEW A, NEW s \in A, NEW X, NEW q \in Seq(X),
           \A r \in A, u \in X : RecordPublished(r, u) \in A
    PROVE  \E h : /\ h[0] = s /\ h[Len(q)] = RecordAll(s, q)
                  /\ \A i \in 0..Len(q) : h[i] \in A
                  /\ \A i \in 1..Len(q) : h[i] = RecordPublished(h[i - 1], q[i])
<1> DEFINE n == Len(q)
           F == [p \in A \X (1..n) |-> RecordPublished(p[1], q[p[2]])]
           E(g) == [x \in SUBSET DOMAIN q |->
                      IF x = {} THEN s ELSE RecordPublished(g[x \ {Max(x)}], q[Max(x)])]
           g == CHOOSE f : f = E(f)
<1>1. n \in Nat /\ DOMAIN q = 1..n /\ \A i \in 1..n : q[i] \in X
  OBVIOUS
<1>2. F \in [A \X (1..n) -> A]
  BY <1>1
<1>3. PICK f \in [SUBSET (1..n) -> A] : FoldsTo(f, n, s, F)
  <2> HIDE DEF F
  <2> QED BY <1>1, <1>2, FoldExists
<1>4. f = E(f)
  <2>1. ASSUME NEW x \in SUBSET (1..n), x # {}
        PROVE  F[<<f[x \ {Max(x)}], Max(x)>>] = RecordPublished(f[x \ {Max(x)}], q[Max(x)])
    BY <1>1, <1>3, <2>1, MaxOfSome
  <2> HIDE DEF F
  <2> QED BY <1>1, <1>3, <2>1 DEF FoldsTo
<1>5. g = E(g)
  <2> HIDE DEF E
  <2> QED BY <1>4, Zenon
<1>6. RecordAll(s, q) = g[DOMAIN q]
  BY Zenon DEF RecordAll, FoldLeft, MapThenFoldSet
<1> HIDE DEF g
<1>7. g[{}] = s
  BY <1>5
<1>8. ASSUME NEW i \in 1..n PROVE g[1..i] = RecordPublished(g[1..(i - 1)], q[i])
  <2>1. /\ Max(1..i) = i /\ (1..i) \ {i} = 1..(i - 1) /\ 1..i # {}
        /\ 1..i \in SUBSET DOMAIN q
    BY <1>1, MaxOfInterval
  <2> QED BY <1>5, <2>1
<1> HIDE DEF E, F, n
<1>9. PICK h : h = [i \in 0..n |-> g[1..i]]
  OBVIOUS
<1>10. h[0] = s /\ h[n] = RecordAll(s, q)
  <2>1. 1..0 = {}
    OBVIOUS
  <2> QED BY <1>1, <1>6, <1>7, <1>9, <2>1
<1>11. \A i \in 1..n : h[i] = RecordPublished(h[i - 1], q[i])
  BY <1>1, <1>8, <1>9
<1>12. \A i \in 0..n : h[i] \in A
  <2>1. ASSUME NEW i \in 1..n, h[i - 1] \in A PROVE h[i] \in A
    BY <1>1, <1>11, <2>1
  <2> QED BY <1>1, <1>10, <2>1, PathWithin
<1> QED BY <1>10, <1>11, <1>12 DEF n

FoldReceipts(s, q) == FoldLeft(FoldReceipt, s, q)

LEMMA FoldReceiptPath ==
    ASSUME NEW A, NEW s \in A, NEW X, NEW q \in Seq(X),
           \A r \in A, u \in X : FoldReceipt(r, u) \in A
    PROVE  \E h : /\ h[0] = s /\ h[Len(q)] = FoldReceipts(s, q)
                  /\ \A i \in 0..Len(q) : h[i] \in A
                  /\ \A i \in 1..Len(q) : h[i] = FoldReceipt(h[i - 1], q[i])
<1> DEFINE n == Len(q)
           F == [p \in A \X (1..n) |-> FoldReceipt(p[1], q[p[2]])]
           E(g) == [x \in SUBSET DOMAIN q |->
                      IF x = {} THEN s ELSE FoldReceipt(g[x \ {Max(x)}], q[Max(x)])]
           g == CHOOSE f : f = E(f)
<1>1. n \in Nat /\ DOMAIN q = 1..n /\ \A i \in 1..n : q[i] \in X
  OBVIOUS
<1>2. F \in [A \X (1..n) -> A]
  BY <1>1
<1>3. PICK f \in [SUBSET (1..n) -> A] : FoldsTo(f, n, s, F)
  <2> HIDE DEF F
  <2> QED BY <1>1, <1>2, FoldExists
<1>4. f = E(f)
  <2>1. ASSUME NEW x \in SUBSET (1..n), x # {}
        PROVE  F[<<f[x \ {Max(x)}], Max(x)>>] = FoldReceipt(f[x \ {Max(x)}], q[Max(x)])
    BY <1>1, <1>3, <2>1, MaxOfSome
  <2> HIDE DEF F
  <2> QED BY <1>1, <1>3, <2>1 DEF FoldsTo
<1>5. g = E(g)
  <2> HIDE DEF E
  <2> QED BY <1>4, Zenon
<1>6. FoldReceipts(s, q) = g[DOMAIN q]
  BY Zenon DEF FoldReceipts, FoldLeft, MapThenFoldSet
<1> HIDE DEF g
<1>7. g[{}] = s
  BY <1>5
<1>8. ASSUME NEW i \in 1..n PROVE g[1..i] = FoldReceipt(g[1..(i - 1)], q[i])
  <2>1. /\ Max(1..i) = i /\ (1..i) \ {i} = 1..(i - 1) /\ 1..i # {}
        /\ 1..i \in SUBSET DOMAIN q
    BY <1>1, MaxOfInterval
  <2> QED BY <1>5, <2>1
<1> HIDE DEF E, F, n
<1>9. PICK h : h = [i \in 0..n |-> g[1..i]]
  OBVIOUS
<1>10. h[0] = s /\ h[n] = FoldReceipts(s, q)
  <2>1. 1..0 = {}
    OBVIOUS
  <2> QED BY <1>1, <1>6, <1>7, <1>9, <2>1
<1>11. \A i \in 1..n : h[i] = FoldReceipt(h[i - 1], q[i])
  BY <1>1, <1>8, <1>9
<1>12. \A i \in 0..n : h[i] \in A
  <2>1. ASSUME NEW i \in 1..n, h[i - 1] \in A PROVE h[i] \in A
    BY <1>1, <1>11, <2>1
  <2> QED BY <1>1, <1>10, <2>1, PathWithin
<1> QED BY <1>10, <1>11, <1>12 DEF n

ConfirmAll(s, q) == FoldLeft(ConfirmThrough, s, q)

LEMMA ConfirmPath ==
    ASSUME NEW A, NEW s \in A, NEW X, NEW q \in Seq(X),
           \A r \in A, u \in X : ConfirmThrough(r, u) \in A
    PROVE  \E h : /\ h[0] = s /\ h[Len(q)] = ConfirmAll(s, q)
                  /\ \A i \in 0..Len(q) : h[i] \in A
                  /\ \A i \in 1..Len(q) : h[i] = ConfirmThrough(h[i - 1], q[i])
<1> DEFINE n == Len(q)
           F == [p \in A \X (1..n) |-> ConfirmThrough(p[1], q[p[2]])]
           E(g) == [x \in SUBSET DOMAIN q |->
                      IF x = {} THEN s ELSE ConfirmThrough(g[x \ {Max(x)}], q[Max(x)])]
           g == CHOOSE f : f = E(f)
<1>1. n \in Nat /\ DOMAIN q = 1..n /\ \A i \in 1..n : q[i] \in X
  OBVIOUS
<1>2. F \in [A \X (1..n) -> A]
  BY <1>1
<1>3. PICK f \in [SUBSET (1..n) -> A] : FoldsTo(f, n, s, F)
  <2> HIDE DEF F
  <2> QED BY <1>1, <1>2, FoldExists
<1>4. f = E(f)
  <2>1. ASSUME NEW x \in SUBSET (1..n), x # {}
        PROVE  F[<<f[x \ {Max(x)}], Max(x)>>] = ConfirmThrough(f[x \ {Max(x)}], q[Max(x)])
    BY <1>1, <1>3, <2>1, MaxOfSome
  <2> HIDE DEF F
  <2> QED BY <1>1, <1>3, <2>1 DEF FoldsTo
<1>5. g = E(g)
  <2> HIDE DEF E
  <2> QED BY <1>4, Zenon
<1>6. ConfirmAll(s, q) = g[DOMAIN q]
  BY Zenon DEF ConfirmAll, FoldLeft, MapThenFoldSet
<1> HIDE DEF g
<1>7. g[{}] = s
  BY <1>5
<1>8. ASSUME NEW i \in 1..n PROVE g[1..i] = ConfirmThrough(g[1..(i - 1)], q[i])
  <2>1. /\ Max(1..i) = i /\ (1..i) \ {i} = 1..(i - 1) /\ 1..i # {}
        /\ 1..i \in SUBSET DOMAIN q
    BY <1>1, MaxOfInterval
  <2> QED BY <1>5, <2>1
<1> HIDE DEF E, F, n
<1>9. PICK h : h = [i \in 0..n |-> g[1..i]]
  OBVIOUS
<1>10. h[0] = s /\ h[n] = ConfirmAll(s, q)
  <2>1. 1..0 = {}
    OBVIOUS
  <2> QED BY <1>1, <1>6, <1>7, <1>9, <2>1
<1>11. \A i \in 1..n : h[i] = ConfirmThrough(h[i - 1], q[i])
  BY <1>1, <1>8, <1>9
<1>12. \A i \in 0..n : h[i] \in A
  <2>1. ASSUME NEW i \in 1..n, h[i - 1] \in A PROVE h[i] \in A
    BY <1>1, <1>11, <2>1
  <2> QED BY <1>1, <1>10, <2>1, PathWithin
<1> QED BY <1>10, <1>11, <1>12 DEF n

ReleaseAll(s, q) == FoldLeft(ReleaseFloor, s, q)

LEMMA ReleasePath ==
    ASSUME NEW A, NEW s \in A, NEW X, NEW q \in Seq(X),
           \A r \in A, u \in X : ReleaseFloor(r, u) \in A
    PROVE  \E h : /\ h[0] = s /\ h[Len(q)] = ReleaseAll(s, q)
                  /\ \A i \in 0..Len(q) : h[i] \in A
                  /\ \A i \in 1..Len(q) : h[i] = ReleaseFloor(h[i - 1], q[i])
<1> DEFINE n == Len(q)
           F == [p \in A \X (1..n) |-> ReleaseFloor(p[1], q[p[2]])]
           E(g) == [x \in SUBSET DOMAIN q |->
                      IF x = {} THEN s ELSE ReleaseFloor(g[x \ {Max(x)}], q[Max(x)])]
           g == CHOOSE f : f = E(f)
<1>1. n \in Nat /\ DOMAIN q = 1..n /\ \A i \in 1..n : q[i] \in X
  OBVIOUS
<1>2. F \in [A \X (1..n) -> A]
  BY <1>1
<1>3. PICK f \in [SUBSET (1..n) -> A] : FoldsTo(f, n, s, F)
  <2> HIDE DEF F
  <2> QED BY <1>1, <1>2, FoldExists
<1>4. f = E(f)
  <2>1. ASSUME NEW x \in SUBSET (1..n), x # {}
        PROVE  F[<<f[x \ {Max(x)}], Max(x)>>] = ReleaseFloor(f[x \ {Max(x)}], q[Max(x)])
    BY <1>1, <1>3, <2>1, MaxOfSome
  <2> HIDE DEF F
  <2> QED BY <1>1, <1>3, <2>1 DEF FoldsTo
<1>5. g = E(g)
  <2> HIDE DEF E
  <2> QED BY <1>4, Zenon
<1>6. ReleaseAll(s, q) = g[DOMAIN q]
  BY Zenon DEF ReleaseAll, FoldLeft, MapThenFoldSet
<1> HIDE DEF g
<1>7. g[{}] = s
  BY <1>5
<1>8. ASSUME NEW i \in 1..n PROVE g[1..i] = ReleaseFloor(g[1..(i - 1)], q[i])
  <2>1. /\ Max(1..i) = i /\ (1..i) \ {i} = 1..(i - 1) /\ 1..i # {}
        /\ 1..i \in SUBSET DOMAIN q
    BY <1>1, MaxOfInterval
  <2> QED BY <1>5, <2>1
<1> HIDE DEF E, F, n
<1>9. PICK h : h = [i \in 0..n |-> g[1..i]]
  OBVIOUS
<1>10. h[0] = s /\ h[n] = ReleaseAll(s, q)
  <2>1. 1..0 = {}
    OBVIOUS
  <2> QED BY <1>1, <1>6, <1>7, <1>9, <2>1
<1>11. \A i \in 1..n : h[i] = ReleaseFloor(h[i - 1], q[i])
  BY <1>1, <1>8, <1>9
<1>12. \A i \in 0..n : h[i] \in A
  <2>1. ASSUME NEW i \in 1..n, h[i - 1] \in A PROVE h[i] \in A
    BY <1>1, <1>11, <2>1
  <2> QED BY <1>1, <1>10, <2>1, PathWithin
<1> QED BY <1>10, <1>11, <1>12 DEF n

AdvanceAll(s, q) == FoldLeft(AdvanceFloor, s, q)

LEMMA AdvancePath ==
    ASSUME NEW A, NEW s \in A, NEW X, NEW q \in Seq(X),
           \A r \in A, u \in X : AdvanceFloor(r, u) \in A
    PROVE  \E h : /\ h[0] = s /\ h[Len(q)] = AdvanceAll(s, q)
                  /\ \A i \in 0..Len(q) : h[i] \in A
                  /\ \A i \in 1..Len(q) : h[i] = AdvanceFloor(h[i - 1], q[i])
<1> DEFINE n == Len(q)
           F == [p \in A \X (1..n) |-> AdvanceFloor(p[1], q[p[2]])]
           E(g) == [x \in SUBSET DOMAIN q |->
                      IF x = {} THEN s ELSE AdvanceFloor(g[x \ {Max(x)}], q[Max(x)])]
           g == CHOOSE f : f = E(f)
<1>1. n \in Nat /\ DOMAIN q = 1..n /\ \A i \in 1..n : q[i] \in X
  OBVIOUS
<1>2. F \in [A \X (1..n) -> A]
  BY <1>1
<1>3. PICK f \in [SUBSET (1..n) -> A] : FoldsTo(f, n, s, F)
  <2> HIDE DEF F
  <2> QED BY <1>1, <1>2, FoldExists
<1>4. f = E(f)
  <2>1. ASSUME NEW x \in SUBSET (1..n), x # {}
        PROVE  F[<<f[x \ {Max(x)}], Max(x)>>] = AdvanceFloor(f[x \ {Max(x)}], q[Max(x)])
    BY <1>1, <1>3, <2>1, MaxOfSome
  <2> HIDE DEF F
  <2> QED BY <1>1, <1>3, <2>1 DEF FoldsTo
<1>5. g = E(g)
  <2> HIDE DEF E
  <2> QED BY <1>4, Zenon
<1>6. AdvanceAll(s, q) = g[DOMAIN q]
  BY Zenon DEF AdvanceAll, FoldLeft, MapThenFoldSet
<1> HIDE DEF g
<1>7. g[{}] = s
  BY <1>5
<1>8. ASSUME NEW i \in 1..n PROVE g[1..i] = AdvanceFloor(g[1..(i - 1)], q[i])
  <2>1. /\ Max(1..i) = i /\ (1..i) \ {i} = 1..(i - 1) /\ 1..i # {}
        /\ 1..i \in SUBSET DOMAIN q
    BY <1>1, MaxOfInterval
  <2> QED BY <1>5, <2>1
<1> HIDE DEF E, F, n
<1>9. PICK h : h = [i \in 0..n |-> g[1..i]]
  OBVIOUS
<1>10. h[0] = s /\ h[n] = AdvanceAll(s, q)
  <2>1. 1..0 = {}
    OBVIOUS
  <2> QED BY <1>1, <1>6, <1>7, <1>9, <2>1
<1>11. \A i \in 1..n : h[i] = AdvanceFloor(h[i - 1], q[i])
  BY <1>1, <1>8, <1>9
<1>12. \A i \in 0..n : h[i] \in A
  <2>1. ASSUME NEW i \in 1..n, h[i - 1] \in A PROVE h[i] \in A
    BY <1>1, <1>11, <2>1
  <2> QED BY <1>1, <1>10, <2>1, PathWithin
<1> QED BY <1>10, <1>11, <1>12 DEF n

RefuseAll(s, q) == FoldLeft(ApplyRefusal, s, q)

LEMMA RefusalPath ==
    ASSUME NEW A, NEW s \in A, NEW X, NEW q \in Seq(X),
           \A r \in A, u \in X : ApplyRefusal(r, u) \in A
    PROVE  \E h : /\ h[0] = s /\ h[Len(q)] = RefuseAll(s, q)
                  /\ \A i \in 0..Len(q) : h[i] \in A
                  /\ \A i \in 1..Len(q) : h[i] = ApplyRefusal(h[i - 1], q[i])
<1> DEFINE n == Len(q)
           F == [p \in A \X (1..n) |-> ApplyRefusal(p[1], q[p[2]])]
           E(g) == [x \in SUBSET DOMAIN q |->
                      IF x = {} THEN s ELSE ApplyRefusal(g[x \ {Max(x)}], q[Max(x)])]
           g == CHOOSE f : f = E(f)
<1>1. n \in Nat /\ DOMAIN q = 1..n /\ \A i \in 1..n : q[i] \in X
  OBVIOUS
<1>2. F \in [A \X (1..n) -> A]
  BY <1>1
<1>3. PICK f \in [SUBSET (1..n) -> A] : FoldsTo(f, n, s, F)
  <2> HIDE DEF F
  <2> QED BY <1>1, <1>2, FoldExists
<1>4. f = E(f)
  <2>1. ASSUME NEW x \in SUBSET (1..n), x # {}
        PROVE  F[<<f[x \ {Max(x)}], Max(x)>>] = ApplyRefusal(f[x \ {Max(x)}], q[Max(x)])
    BY <1>1, <1>3, <2>1, MaxOfSome
  <2> HIDE DEF F
  <2> QED BY <1>1, <1>3, <2>1 DEF FoldsTo
<1>5. g = E(g)
  <2> HIDE DEF E
  <2> QED BY <1>4, Zenon
<1>6. RefuseAll(s, q) = g[DOMAIN q]
  BY Zenon DEF RefuseAll, FoldLeft, MapThenFoldSet
<1> HIDE DEF g
<1>7. g[{}] = s
  BY <1>5
<1>8. ASSUME NEW i \in 1..n PROVE g[1..i] = ApplyRefusal(g[1..(i - 1)], q[i])
  <2>1. /\ Max(1..i) = i /\ (1..i) \ {i} = 1..(i - 1) /\ 1..i # {}
        /\ 1..i \in SUBSET DOMAIN q
    BY <1>1, MaxOfInterval
  <2> QED BY <1>5, <2>1
<1> HIDE DEF E, F, n
<1>9. PICK h : h = [i \in 0..n |-> g[1..i]]
  OBVIOUS
<1>10. h[0] = s /\ h[n] = RefuseAll(s, q)
  <2>1. 1..0 = {}
    OBVIOUS
  <2> QED BY <1>1, <1>6, <1>7, <1>9, <2>1
<1>11. \A i \in 1..n : h[i] = ApplyRefusal(h[i - 1], q[i])
  BY <1>1, <1>8, <1>9
<1>12. \A i \in 0..n : h[i] \in A
  <2>1. ASSUME NEW i \in 1..n, h[i - 1] \in A PROVE h[i] \in A
    BY <1>1, <1>11, <2>1
  <2> QED BY <1>1, <1>10, <2>1, PathWithin
<1> QED BY <1>10, <1>11, <1>12 DEF n

PastRejectAll(s, q) == FoldLeft(ApplyPastReject, s, q)

LEMMA PastRejectPath ==
    ASSUME NEW A, NEW s \in A, NEW X, NEW q \in Seq(X),
           \A r \in A, u \in X : ApplyPastReject(r, u) \in A
    PROVE  \E h : /\ h[0] = s /\ h[Len(q)] = PastRejectAll(s, q)
                  /\ \A i \in 0..Len(q) : h[i] \in A
                  /\ \A i \in 1..Len(q) : h[i] = ApplyPastReject(h[i - 1], q[i])
<1> DEFINE n == Len(q)
           F == [p \in A \X (1..n) |-> ApplyPastReject(p[1], q[p[2]])]
           E(g) == [x \in SUBSET DOMAIN q |->
                      IF x = {} THEN s ELSE ApplyPastReject(g[x \ {Max(x)}], q[Max(x)])]
           g == CHOOSE f : f = E(f)
<1>1. n \in Nat /\ DOMAIN q = 1..n /\ \A i \in 1..n : q[i] \in X
  OBVIOUS
<1>2. F \in [A \X (1..n) -> A]
  BY <1>1
<1>3. PICK f \in [SUBSET (1..n) -> A] : FoldsTo(f, n, s, F)
  <2> HIDE DEF F
  <2> QED BY <1>1, <1>2, FoldExists
<1>4. f = E(f)
  <2>1. ASSUME NEW x \in SUBSET (1..n), x # {}
        PROVE  F[<<f[x \ {Max(x)}], Max(x)>>] = ApplyPastReject(f[x \ {Max(x)}], q[Max(x)])
    BY <1>1, <1>3, <2>1, MaxOfSome
  <2> HIDE DEF F
  <2> QED BY <1>1, <1>3, <2>1 DEF FoldsTo
<1>5. g = E(g)
  <2> HIDE DEF E
  <2> QED BY <1>4, Zenon
<1>6. PastRejectAll(s, q) = g[DOMAIN q]
  BY Zenon DEF PastRejectAll, FoldLeft, MapThenFoldSet
<1> HIDE DEF g
<1>7. g[{}] = s
  BY <1>5
<1>8. ASSUME NEW i \in 1..n PROVE g[1..i] = ApplyPastReject(g[1..(i - 1)], q[i])
  <2>1. /\ Max(1..i) = i /\ (1..i) \ {i} = 1..(i - 1) /\ 1..i # {}
        /\ 1..i \in SUBSET DOMAIN q
    BY <1>1, MaxOfInterval
  <2> QED BY <1>5, <2>1
<1> HIDE DEF E, F, n
<1>9. PICK h : h = [i \in 0..n |-> g[1..i]]
  OBVIOUS
<1>10. h[0] = s /\ h[n] = PastRejectAll(s, q)
  <2>1. 1..0 = {}
    OBVIOUS
  <2> QED BY <1>1, <1>6, <1>7, <1>9, <2>1
<1>11. \A i \in 1..n : h[i] = ApplyPastReject(h[i - 1], q[i])
  BY <1>1, <1>8, <1>9
<1>12. \A i \in 0..n : h[i] \in A
  <2>1. ASSUME NEW i \in 1..n, h[i - 1] \in A PROVE h[i] \in A
    BY <1>1, <1>11, <2>1
  <2> QED BY <1>1, <1>10, <2>1, PathWithin
<1> QED BY <1>10, <1>11, <1>12 DEF n

RepublishAll(s, q) == FoldLeft(RepublishHeld, s, q)

LEMMA HeldPath ==
    ASSUME NEW A, NEW s \in A, NEW X, NEW q \in Seq(X),
           \A r \in A, u \in X : RepublishHeld(r, u) \in A
    PROVE  \E h : /\ h[0] = s /\ h[Len(q)] = RepublishAll(s, q)
                  /\ \A i \in 0..Len(q) : h[i] \in A
                  /\ \A i \in 1..Len(q) : h[i] = RepublishHeld(h[i - 1], q[i])
<1> DEFINE n == Len(q)
           F == [p \in A \X (1..n) |-> RepublishHeld(p[1], q[p[2]])]
           E(g) == [x \in SUBSET DOMAIN q |->
                      IF x = {} THEN s ELSE RepublishHeld(g[x \ {Max(x)}], q[Max(x)])]
           g == CHOOSE f : f = E(f)
<1>1. n \in Nat /\ DOMAIN q = 1..n /\ \A i \in 1..n : q[i] \in X
  OBVIOUS
<1>2. F \in [A \X (1..n) -> A]
  BY <1>1
<1>3. PICK f \in [SUBSET (1..n) -> A] : FoldsTo(f, n, s, F)
  <2> HIDE DEF F
  <2> QED BY <1>1, <1>2, FoldExists
<1>4. f = E(f)
  <2>1. ASSUME NEW x \in SUBSET (1..n), x # {}
        PROVE  F[<<f[x \ {Max(x)}], Max(x)>>] = RepublishHeld(f[x \ {Max(x)}], q[Max(x)])
    BY <1>1, <1>3, <2>1, MaxOfSome
  <2> HIDE DEF F
  <2> QED BY <1>1, <1>3, <2>1 DEF FoldsTo
<1>5. g = E(g)
  <2> HIDE DEF E
  <2> QED BY <1>4, Zenon
<1>6. RepublishAll(s, q) = g[DOMAIN q]
  BY Zenon DEF RepublishAll, FoldLeft, MapThenFoldSet
<1> HIDE DEF g
<1>7. g[{}] = s
  BY <1>5
<1>8. ASSUME NEW i \in 1..n PROVE g[1..i] = RepublishHeld(g[1..(i - 1)], q[i])
  <2>1. /\ Max(1..i) = i /\ (1..i) \ {i} = 1..(i - 1) /\ 1..i # {}
        /\ 1..i \in SUBSET DOMAIN q
    BY <1>1, MaxOfInterval
  <2> QED BY <1>5, <2>1
<1> HIDE DEF E, F, n
<1>9. PICK h : h = [i \in 0..n |-> g[1..i]]
  OBVIOUS
<1>10. h[0] = s /\ h[n] = RepublishAll(s, q)
  <2>1. 1..0 = {}
    OBVIOUS
  <2> QED BY <1>1, <1>6, <1>7, <1>9, <2>1
<1>11. \A i \in 1..n : h[i] = RepublishHeld(h[i - 1], q[i])
  BY <1>1, <1>8, <1>9
<1>12. \A i \in 0..n : h[i] \in A
  <2>1. ASSUME NEW i \in 1..n, h[i - 1] \in A PROVE h[i] \in A
    BY <1>1, <1>11, <2>1
  <2> QED BY <1>1, <1>10, <2>1, PathWithin
<1> QED BY <1>10, <1>11, <1>12 DEF n
===============================================================================
