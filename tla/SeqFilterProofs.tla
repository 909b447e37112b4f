--------------------------- MODULE SeqFilterProofs ---------------------------
(***************************************************************************)
(* Induction over the natural numbers without an operator parameter, the   *)
(* functions defined by recursion, and what Kept does.                     *)
(***************************************************************************)
EXTENDS SeqFilter, Integers, SequenceTheorems, WellFoundedInduction, TLAPS

\* A set of natural numbers has a least member.
LEMMA LeastMember ==
  ASSUME NEW T \in SUBSET Nat, T # {}
  PROVE  \E n \in T : \A m \in T : ~(m < n)
<1>1. PICK n \in T : \A m \in T : ~(<<m, n>> \in OpToRel(<, Nat))
  BY NatLessThanWellFounded, WFMin
<1>2. \A m \in T : m < n => <<m, n>> \in OpToRel(<, Nat)
  BY DEF OpToRel
<1> QED BY <1>1, <1>2

\* Induction up to n, over the set of the numbers that satisfy the claim.
LEMMA InductionUpTo ==
  ASSUME NEW n \in Nat, NEW T, 0 \in T, \A i \in 1..n : i - 1 \in T => i \in T
  PROVE  0..n \subseteq T
<1> DEFINE U == (0..n) \ T
<1> SUFFICES ASSUME U # {} PROVE FALSE
  OBVIOUS
<1>1. U \in SUBSET Nat
  OBVIOUS
<1>2. PICK m \in U : \A k \in U : ~(k < m)
  BY <1>1, LeastMember
<1>3. m \in 1..n /\ m - 1 \in 0..n /\ m - 1 < m /\ m \notin T
  BY <1>2
<1>4. m - 1 \in T
  BY <1>2, <1>3
<1> QED BY <1>3, <1>4

\* Induction over the sequences that satisfy the claim, from the left.
LEMMA SeqInduction ==
  ASSUME NEW S, NEW T, <<>> \in T,
         \A s \in Seq(S), e \in S : s \in T => Append(s, e) \in T
  PROVE  Seq(S) \subseteq T
<1> SUFFICES ASSUME NEW s \in Seq(S) PROVE s \in T
  OBVIOUS
<1> DEFINE U == {n \in Nat : \A u \in Seq(S) : Len(u) = n => u \in T}
<1>1. 0 \in U
  OBVIOUS
<1>2. ASSUME NEW n \in 1..Len(s), n - 1 \in U PROVE n \in U
  <2> SUFFICES ASSUME NEW u \in Seq(S), Len(u) = n PROVE u \in T
    OBVIOUS
  <2>0. u # <<>>
    OBVIOUS
  <2>1. PICK v \in Seq(S), e \in S : u = Append(v, e)
    BY <2>0, SequenceEmptyOrAppend
  <2>2. v \in T
    BY <1>2, <2>1
  <2> QED BY <2>1, <2>2
<1>3. Len(s) \in U
  <2>1. Len(s) \in Nat
    OBVIOUS
  <2> HIDE DEF U
  <2>2. 0..Len(s) \subseteq U
    BY <1>1, <1>2, <2>1, InductionUpTo
  <2> QED BY <2>1, <2>2
<1> QED BY <1>3

\* A function may be defined by recursion over 0..n: f starts with a and the
\* step to i is g[i].
FollowsSteps(f, n, a, g) == f[0] = a /\ \A i \in 1..n : f[i] = g[i][f[i - 1]]

\* Such a function exists.
LEMMA RecursionUpTo ==
  ASSUME NEW n \in Nat, NEW S, NEW a \in S, NEW g \in [1..n -> [S -> S]]
  PROVE  \E f \in [0..n -> S] : FollowsSteps(f, n, a, g)
<1> DEFINE Rec(k, f) == f \in [0..k -> S] /\ FollowsSteps(f, k, a, g)
           T == {k \in 0..n : \E f : Rec(k, f)}
<1>1. 0 \in T
  <2>1. Rec(0, [i \in 0..0 |-> a])
    BY DEF FollowsSteps
  <2> HIDE DEF Rec
  <2> QED BY <2>1
<1>2. ASSUME NEW k \in 1..n, k - 1 \in T PROVE k \in T
  <2>1. PICK f : Rec(k - 1, f)
    BY <1>2
  <2> DEFINE h == [i \in 0..k |-> IF i = k THEN g[k][f[k - 1]] ELSE f[i]]
  <2>2. g[k] \in [S -> S] /\ f[k - 1] \in S
    BY <2>1
  <2>3. h \in [0..k -> S]
    BY <2>1, <2>2
  <2>4. h[0] = a
    BY <2>1 DEF FollowsSteps
  <2>5. \A i \in 1..k : h[i] = g[i][h[i - 1]]
    BY <2>1 DEF FollowsSteps
  <2>6. Rec(k, h)
    BY <2>3, <2>4, <2>5 DEF FollowsSteps
  <2> HIDE DEF Rec, h
  <2> QED BY <2>6
<1>3. n \in T
  <2> HIDE DEF T
  <2>1. 0..n \subseteq T
    BY <1>1, <1>2, InductionUpTo
  <2> QED BY <2>1
<1> QED BY <1>3
-----------------------------------------------------------------------------
\* The function Kept is defined with, for a sequence of members of S.
KeptBy(f, s, K) ==
  f = [i \in 0..Len(s) |-> IF i = 0 THEN <<>>
                           ELSE IF s[i] \in K THEN Append(f[i - 1], s[i]) ELSE f[i - 1]]

\* The recursive function in Kept obeys its equation.
LEMMA KeptDefined ==
  ASSUME NEW S, NEW s \in Seq(S), NEW K
  PROVE  \E f \in [0..Len(s) -> Seq(S)] : KeptBy(f, s, K) /\ Kept(s, K) = f[Len(s)]
<1> DEFINE n == Len(s)
           g == [i \in 1..n |-> [t \in Seq(S) |-> IF s[i] \in K THEN Append(t, s[i]) ELSE t]]
           F == CHOOSE f : KeptBy(f, s, K)
<1>1. n \in Nat /\ <<>> \in Seq(S)
  OBVIOUS
<1>2. g \in [1..n -> [Seq(S) -> Seq(S)]]
  OBVIOUS
<1>3. PICK f \in [0..n -> Seq(S)] : FollowsSteps(f, n, <<>>, g)
  <2> HIDE DEF g, n
  <2> QED BY <1>1, <1>2, RecursionUpTo
<1>4. KeptBy(f, s, K)
  <2>1. \A i \in 1..n : i - 1 \in 0..n
    BY <1>1
  <2>2. \A i \in 1..n : f[i - 1] \in Seq(S)
    BY <2>1
  <2>3. \A i \in 1..n : f[i] = IF s[i] \in K THEN Append(f[i - 1], s[i]) ELSE f[i - 1]
    BY <1>3, <2>2 DEF FollowsSteps
  <2>4. f = [i \in 0..n |-> f[i]]
    OBVIOUS
  <2>5. \A i \in 0..n : f[i] = IF i = 0 THEN <<>>
                               ELSE IF s[i] \in K THEN Append(f[i - 1], s[i]) ELSE f[i - 1]
    <3> HIDE DEF g
    <3>1. ASSUME NEW i \in 0..n, i # 0 PROVE i \in 1..n
      BY <1>1, <3>1
    <3> QED BY <1>3, <2>3, <3>1 DEF FollowsSteps
  <2> QED BY <2>4, <2>5 DEF KeptBy
<1>5. KeptBy(F, s, K)
  BY <1>4
<1>6. Kept(s, K) = F[n]
  BY DEF Kept, KeptBy
<1>7. F = f
  <2> HIDE DEF F
  <2> DEFINE T == {i \in 0..n : F[i] = f[i]}
  <2>1. 0 \in T
    BY <1>1, <1>4, <1>5 DEF KeptBy
  <2>2. \A i \in 1..n : i - 1 \in T => i \in T
    <3> SUFFICES ASSUME NEW i \in 1..n, F[i - 1] = f[i - 1] PROVE F[i] = f[i]
      BY <1>1
    <3>1. i \in 0..n /\ i # 0
      BY <1>1
    <3>2. f[i] = IF s[i] \in K THEN Append(f[i - 1], s[i]) ELSE f[i - 1]
      BY <1>4, <3>1 DEF KeptBy
    <3>3. F[i] = IF s[i] \in K THEN Append(F[i - 1], s[i]) ELSE F[i - 1]
      BY <1>5, <3>1 DEF KeptBy
    <3> QED BY <3>2, <3>3
  <2>3. \A i \in 0..n : F[i] = f[i]
    <3> HIDE DEF T
    <3>1. 0..n \subseteq T
      BY <1>1, <2>1, <2>2, InductionUpTo
    <3> QED BY <3>1 DEF T
  <2> QED BY <1>4, <1>5, <2>3 DEF KeptBy
<1> QED BY <1>3, <1>4, <1>6, <1>7

\* Nothing is kept of nothing.
LEMMA KeptEmpty == ASSUME NEW K PROVE Kept(<<>>, K) = <<>>
  <1>1. PICK f \in [0..Len(<<>>) -> Seq({})] : KeptBy(f, <<>>, K) /\ Kept(<<>>, K) = f[Len(<<>>)]
    <2>1. <<>> \in Seq({})
      OBVIOUS
    <2> QED BY <2>1, KeptDefined
  <1> QED BY <1>1 DEF KeptBy

\* What is kept is of the same type.
LEMMA KeptTyped ==
  ASSUME NEW S, NEW s \in Seq(S), NEW K
  PROVE  Kept(s, K) \in Seq(S)
<1>1. PICK f \in [0..Len(s) -> Seq(S)] : Kept(s, K) = f[Len(s)]
  BY KeptDefined
<1> QED BY <1>1

\* One member more.
LEMMA KeptAppend ==
  ASSUME NEW S, NEW s \in Seq(S), NEW e \in S, NEW K
  PROVE  Kept(Append(s, e), K) = IF e \in K THEN Append(Kept(s, K), e) ELSE Kept(s, K)
<1> DEFINE t == Append(s, e)
           n == Len(s)
<1>1. /\ t \in Seq(S) /\ n \in Nat /\ Len(t) = n + 1 /\ t[n + 1] = e
      /\ \A i \in 1..n : t[i] = s[i]
  OBVIOUS
<1>2. PICK f \in [0..n -> Seq(S)] : KeptBy(f, s, K) /\ Kept(s, K) = f[n]
  BY KeptDefined
<1> HIDE DEF t, n
<1>3. PICK h \in [0..Len(t) -> Seq(S)] : KeptBy(h, t, K) /\ Kept(t, K) = h[Len(t)]
  BY <1>1, KeptDefined
<1> DEFINE T == {i \in 0..n : f[i] = h[i]}
<1>4. 0 \in T
  BY <1>1, <1>2, <1>3 DEF KeptBy, n
<1>5. ASSUME NEW i \in 1..n, i - 1 \in T PROVE i \in T
  <2>1. i \in 0..n /\ i # 0 /\ i \in 0..Len(t) /\ t[i] = s[i]
    BY <1>1
  <2>2. f[i] = IF s[i] \in K THEN Append(f[i - 1], s[i]) ELSE f[i - 1]
    BY <1>2, <2>1 DEF KeptBy, n
  <2>3. h[i] = IF t[i] \in K THEN Append(h[i - 1], t[i]) ELSE h[i - 1]
    BY <1>3, <2>1 DEF KeptBy
  <2>4. f[i - 1] = h[i - 1]
    BY <1>5
  <2>5. f[i] = h[i]
    <3>1. CASE s[i] \in K
      BY <2>1, <2>2, <2>3, <2>4, <3>1
    <3>2. CASE s[i] \notin K
      BY <2>1, <2>2, <2>3, <2>4, <3>2
    <3> QED BY <3>1, <3>2
  <2> QED BY <2>1, <2>5
<1>6. h[n] = f[n]
  <2> HIDE DEF T
  <2>1. 0..n \subseteq T
    BY <1>1, <1>4, <1>5, InductionUpTo
  <2> QED BY <1>1, <2>1 DEF T
<1>7. h[n + 1] = IF t[n + 1] \in K THEN Append(h[n], t[n + 1]) ELSE h[n]
  <2>1. n + 1 \in 0..Len(t) /\ n + 1 # 0 /\ n + 1 - 1 = n
    BY <1>1
  <2>2. \A i \in 0..Len(t) : i # 0 =>
          h[i] = IF t[i] \in K THEN Append(h[i - 1], t[i]) ELSE h[i - 1]
    BY <1>3 DEF KeptBy
  <2>3. PICK i \in 0..Len(t) : i = n + 1
    BY <2>1
  <2>4. h[i] = IF t[i] \in K THEN Append(h[i - 1], t[i]) ELSE h[i - 1]
    <3>1. i # 0
      BY <1>1, <2>3
    <3> QED BY <2>2, <3>1, Zenon
  <2>5. i - 1 = n
    BY <1>1, <2>3
  <2> QED BY <2>3, <2>4, <2>5
<1> QED BY <1>1, <1>2, <1>3, <1>6, <1>7 DEF t

\* One sequence behind another.
LEMMA KeptConcat ==
  ASSUME NEW S, NEW s \in Seq(S), NEW t \in Seq(S), NEW K
  PROVE  Kept(s \o t, K) = Kept(s, K) \o Kept(t, K)
<1> DEFINE T == {u \in Seq(S) : Kept(s \o u, K) = Kept(s, K) \o Kept(u, K)}
<1>1. <<>> \in T
  <2>1. s \o <<>> = s /\ Kept(s, K) \o <<>> = Kept(s, K) /\ <<>> \in Seq(S)
    BY KeptTyped, ConcatEmptySeq, EmptySeq
  <2> QED BY <2>1, KeptEmpty
<1>2. ASSUME NEW u \in Seq(S), NEW e \in S, u \in T PROVE Append(u, e) \in T
  <2>1. s \o Append(u, e) = Append(s \o u, e) /\ s \o u \in Seq(S)
    OBVIOUS
  <2>2. Kept(u, K) \in Seq(S) /\ Kept(s, K) \in Seq(S)
    BY KeptTyped
  <2>3. Kept(s, K) \o Append(Kept(u, K), e) = Append(Kept(s, K) \o Kept(u, K), e)
    BY <2>2
  <2>4. Kept(Append(s \o u, e), K)
          = IF e \in K THEN Append(Kept(s \o u, K), e) ELSE Kept(s \o u, K)
    BY <2>1, KeptAppend
  <2>5. Kept(Append(u, e), K) = IF e \in K THEN Append(Kept(u, K), e) ELSE Kept(u, K)
    BY KeptAppend
  <2>6. Kept(s \o u, K) = Kept(s, K) \o Kept(u, K)
    BY <1>2
  <2>7. Kept(s \o Append(u, e), K) = Kept(s, K) \o Kept(Append(u, e), K)
    BY <2>1, <2>3, <2>4, <2>5, <2>6
  <2> QED BY <2>7
<1>3. Seq(S) \subseteq T
  <2> HIDE DEF T
  <2> QED BY <1>1, <1>2, SeqInduction
<1> QED BY <1>3

\* One member less, at the front.
LEMMA KeptHead ==
  ASSUME NEW S, NEW s \in Seq(S), s # <<>>, NEW K
  PROVE  Kept(s, K) = IF Head(s) \in K THEN <<Head(s)>> \o Kept(Tail(s), K)
                                       ELSE Kept(Tail(s), K)
<1>1. /\ Head(s) \in S /\ Tail(s) \in Seq(S) /\ <<Head(s)>> \in Seq(S)
      /\ s = <<Head(s)>> \o Tail(s) /\ <<Head(s)>> = Append(<<>>, Head(s))
      /\ <<>> \in Seq(S)
  OBVIOUS
<1> DEFINE h == <<Head(s)>>
           t == Tail(s)
<1>2. Kept(s, K) = Kept(h, K) \o Kept(t, K)
  <2>1. h \in Seq(S) /\ t \in Seq(S) /\ s = h \o t
    BY <1>1
  <2> HIDE DEF h, t
  <2> QED BY <2>1, KeptConcat
<1>3. Kept(h, K) = IF Head(s) \in K THEN h ELSE <<>>
  <2>1. Kept(Append(<<>>, Head(s)), K)
          = IF Head(s) \in K THEN Append(Kept(<<>>, K), Head(s)) ELSE Kept(<<>>, K)
    BY <1>1, KeptAppend
  <2> QED BY <1>1, <2>1, KeptEmpty
<1>4. Kept(Tail(s), K) \in Seq(S)
  BY <1>1, KeptTyped
<1>5. <<>> \o Kept(t, K) = Kept(t, K)
  BY <1>4, ConcatEmptySeq
<1> HIDE DEF h
<1>6. Kept(s, K) = IF Head(s) \in K THEN h \o Kept(t, K) ELSE Kept(t, K)
  BY <1>2, <1>3, <1>5
<1> QED BY <1>6 DEF h

\* Every member that is kept was there, and is in K.
LEMMA KeptMember ==
  ASSUME NEW S, NEW s \in Seq(S), NEW K, NEW i \in DOMAIN Kept(s, K)
  PROVE  Kept(s, K)[i] \in K /\ \E j \in DOMAIN s : Kept(s, K)[i] = s[j]
<1> DEFINE Comes(u) == \A k \in DOMAIN Kept(u, K) :
                         Kept(u, K)[k] \in K /\ \E j \in DOMAIN u : Kept(u, K)[k] = u[j]
           T == {u \in Seq(S) : Comes(u)}
<1>1. <<>> \in T
  BY KeptEmpty
<1>2. ASSUME NEW u \in Seq(S), NEW e \in S, u \in T PROVE Append(u, e) \in T
  <2>1. Kept(u, K) \in Seq(S)
    BY KeptTyped
  <2>2. Kept(Append(u, e), K) = IF e \in K THEN Append(Kept(u, K), e) ELSE Kept(u, K)
    BY KeptAppend
  <2> DEFINE w == Append(u, e)
  <2>3. /\ DOMAIN w = 1..Len(u) + 1 /\ DOMAIN u = 1..Len(u) /\ Len(u) \in Nat
        /\ w[Len(u) + 1] = e /\ \A j \in DOMAIN u : w[j] = u[j]
    OBVIOUS
  <2> HIDE DEF w
  <2>4. ASSUME NEW k \in DOMAIN Kept(w, K)
        PROVE  Kept(w, K)[k] \in K /\ \E j \in DOMAIN w : Kept(w, K)[k] = w[j]
    <3>1. CASE k \in DOMAIN Kept(u, K) /\ Kept(w, K)[k] = Kept(u, K)[k]
      <4>1. Kept(u, K)[k] \in K /\ \E j \in DOMAIN u : Kept(u, K)[k] = u[j]
        BY <1>2, <3>1
      <4>2. DOMAIN u \subseteq DOMAIN w
        BY <2>3
      <4> QED BY <2>3, <3>1, <4>1, <4>2
    <3>2. CASE e \in K /\ Kept(w, K)[k] = e
      BY <2>3, <3>2
    <3>3. \/ k \in DOMAIN Kept(u, K) /\ Kept(w, K)[k] = Kept(u, K)[k]
          \/ e \in K /\ Kept(w, K)[k] = e
      BY <2>1, <2>2, <2>4 DEF w
    <3> QED BY <3>1, <3>2, <3>3
  <2>5. w \in Seq(S)
    BY DEF w
  <2> QED BY <2>4, <2>5 DEF w
<1>3. Seq(S) \subseteq T
  <2> HIDE DEF T
  <2> QED BY <1>1, <1>2, SeqInduction
<1> QED BY <1>3

\* What is not in K adds nothing.
LEMMA KeptNone ==
  ASSUME NEW S, NEW s \in Seq(S), NEW t \in Seq(S), NEW K, \A i \in DOMAIN t : t[i] \notin K
  PROVE  Kept(s \o t, K) = Kept(s, K)
<1> DEFINE x == Kept(t, K)
<1>1. x \in Seq(S)
  BY KeptTyped
<1>2. \A j \in DOMAIN x : FALSE
  BY KeptMember
<1>3. Kept(s \o t, K) = Kept(s, K) \o x
  BY KeptConcat
<1>4. Kept(s, K) \in Seq(S)
  BY KeptTyped
<1> HIDE DEF x
<1>5. x = <<>>
  <2> SUFFICES ASSUME x # <<>> PROVE FALSE
    OBVIOUS
  <2>1. Len(x) \in Nat \ {0} /\ DOMAIN x = 1..Len(x)
    BY <1>1, EmptySeq, LenProperties
  <2>2. 1 \in 1..Len(x)
    BY <2>1
  <2> QED BY <1>2, <2>1, <2>2, Zenon
<1> QED BY <1>3, <1>4, <1>5, ConcatEmptySeq

\* Nothing is lost when every member belongs to the set.
LEMMA KeptAll ==
  ASSUME NEW S, NEW s \in Seq(S), NEW K, \A i \in DOMAIN s : s[i] \in K
  PROVE  Kept(s, K) = s
<1> DEFINE T == {u \in Seq(S) : (\A i \in DOMAIN u : u[i] \in K) => Kept(u, K) = u}
<1>1. <<>> \in T
  BY KeptEmpty
<1>2. ASSUME NEW u \in Seq(S), NEW e \in S, u \in T PROVE Append(u, e) \in T
  <2>0. Append(u, e) \in Seq(S)
    OBVIOUS
  <2> SUFFICES ASSUME \A i \in DOMAIN Append(u, e) : Append(u, e)[i] \in K
               PROVE  Kept(Append(u, e), K) = Append(u, e)
    BY <2>0, Zenon
  <2>1. /\ \A i \in DOMAIN u : i \in DOMAIN Append(u, e) /\ Append(u, e)[i] = u[i]
        /\ Len(u) + 1 \in DOMAIN Append(u, e) /\ Append(u, e)[Len(u) + 1] = e
    OBVIOUS
  <2>2. e \in K /\ \A i \in DOMAIN u : u[i] \in K
    BY <2>1
  <2>3. Kept(u, K) = u
    BY <1>2, <2>2
  <2> QED BY <2>2, <2>3, KeptAppend
<1>3. Seq(S) \subseteq T
  <2> HIDE DEF T
  <2> QED BY <1>1, <1>2, SeqInduction
<1> QED BY <1>3

\* A member of the sequence that belongs to the set is kept.
LEMMA KeptHas ==
  ASSUME NEW S, NEW s \in Seq(S), NEW K, NEW e \in K, \E i \in DOMAIN s : s[i] = e
  PROVE  \E j \in DOMAIN Kept(s, K) : Kept(s, K)[j] = e
<1> DEFINE T == {u \in Seq(S) : (\E i \in DOMAIN u : u[i] = e)
                                 => \E j \in DOMAIN Kept(u, K) : Kept(u, K)[j] = e}
<1>1. <<>> \in T
  OBVIOUS
<1>2. ASSUME NEW u \in Seq(S), NEW d \in S, u \in T PROVE Append(u, d) \in T
  <2>0. Append(u, d) \in Seq(S)
    OBVIOUS
  <2> SUFFICES ASSUME NEW i \in DOMAIN Append(u, d), Append(u, d)[i] = e
               PROVE  \E j \in DOMAIN Kept(Append(u, d), K) : Kept(Append(u, d), K)[j] = e
    BY <2>0, Zenon
  <2> DEFINE k == Kept(u, K)
  <2>1. k \in Seq(S)
    BY KeptTyped
  <2>2. Kept(Append(u, d), K) = IF d \in K THEN Append(k, d) ELSE k
    BY KeptAppend
  <2> HIDE DEF k
  <2>3. CASE i = Len(u) + 1
    <3>1. d = e /\ Kept(Append(u, d), K) = Append(k, d)
      BY <2>2, <2>3
    <3> QED BY <2>1, <3>1
  <2>4. CASE i # Len(u) + 1
    <3>1. i \in DOMAIN u /\ u[i] = e
      BY <2>4
    <3>2. PICK j \in DOMAIN k : k[j] = e
      BY <1>2, <3>1 DEF k
    <3>3. j \in DOMAIN Append(k, d) /\ Append(k, d)[j] = e
      BY <2>1, <3>2
    <3> QED BY <2>2, <3>2, <3>3
  <2> QED BY <2>3, <2>4
<1>3. Seq(S) \subseteq T
  <2> HIDE DEF T
  <2> QED BY <1>1, <1>2, SeqInduction
<1> QED BY <1>3
=============================================================================
