---------------------------- MODULE SequenceFolds ----------------------------
(***************************************************************************)
(* What FoldLeft of SequencesExt does, for any step: it starts at Base and  *)
(* takes the elements in their order.  An instance of this module gives     *)
(* Step, which may depend on a context c that the fold leaves alone.        *)
(* Induction is by the least number that is a counterexample.               *)
(***************************************************************************)
EXTENDS Integers, Sequences, SequenceTheorems, WellFoundedInduction, TLAPS

CONSTANTS Step(_, _, _), Base

Largest(S) == CHOOSE x \in S : \A y \in S : x >= y

(* The recursive function that FoldLeft computes, written out: from the     *)
(* positions that are left to what the fold of them is.                     *)
IsFold(f, c, s) ==
  f = [S \in SUBSET (DOMAIN s) |->
         IF S = {} THEN Base
         ELSE Step(c, f[S \ {Largest(S)}], s[Largest(S)])]

(* The same on the first n positions.                                       *)
Solves(f, c, s, n) ==
  f = [S \in SUBSET (1..n) |->
         IF S = {} THEN Base
         ELSE Step(c, f[S \ {Largest(S)}], s[Largest(S)])]

Fold(c, s) == (CHOOSE f : IsFold(f, c, s))[DOMAIN s]

-----------------------------------------------------------------------------

LEMMA LeastNat ==
  ASSUME NEW I \in SUBSET Nat, I # {}
  PROVE  \E m \in I : \A i \in I : m <= i
<1>1. PICK m \in I : \A i \in I : ~(<<i, m>> \in OpToRel(<, Nat))
  BY WFMin, NatLessThanWellFounded
<1>2. ASSUME NEW i \in I PROVE m <= i
  <2>1. <<i, m>> \in Nat \X Nat /\ <<i, m>>[1] = i /\ <<i, m>>[2] = m
    OBVIOUS
  <2>2. ~(i < m)
    BY <1>1, <2>1 DEF OpToRel
  <2> QED
    BY <2>2
<1> QED
  BY <1>2

(* Induction, in the form that takes a set.                                 *)
LEMMA SetInduction ==
  ASSUME NEW I \in SUBSET Nat, 0 \in I, \A n \in Nat : n \in I => n + 1 \in I
  PROVE  I = Nat
<1> SUFFICES ASSUME Nat \ I # {} PROVE FALSE
  OBVIOUS
<1>1. PICK m \in Nat \ I : \A i \in Nat \ I : m <= i
  BY LeastNat
<1>2. m - 1 \in Nat /\ ~(m <= m - 1)
  BY <1>1
<1>3. m - 1 \in I
  BY <1>1, <1>2
<1> QED
  BY <1>1, <1>2, <1>3

LEMMA LargestIn ==
  ASSUME NEW n \in Nat, NEW S \in SUBSET (1..n), S # {}
  PROVE  Largest(S) \in S
<1> DEFINE I == {n - i : i \in S}
<1>1. I \in SUBSET Nat /\ I # {}
  <2>1. \A i \in 1..n : n - i \in Nat
    OBVIOUS
  <2> QED
    BY <2>1
<1>2. PICK m \in I : \A i \in I : m <= i
  BY <1>1, LeastNat
<1>3. PICK x \in S : m = n - x
  OBVIOUS
<1>4. \A y \in S : n - x <= n - y
  BY <1>2, <1>3
<1>5. \A y \in S : x >= y
  <2> TAKE y \in S
  <2>1. x \in Int /\ y \in Int /\ n - x <= n - y
    BY <1>4
  <2> QED
    BY <2>1
<1> QED
  BY <1>5 DEF Largest

LEMMA LargestLast ==
  ASSUME NEW n \in Nat, NEW S \in SUBSET (1..(n + 1)), n + 1 \in S
  PROVE  Largest(S) = n + 1
<1>1. \A y \in S : n + 1 >= y
  OBVIOUS
<1>2. \A x \in S : (\A y \in S : x >= y) => x = n + 1
  OBVIOUS
<1> QED
  BY <1>1, <1>2 DEF Largest

(* The recursion has a solution.                                            *)
LEMMA FoldExists ==
  ASSUME NEW c, NEW s, NEW n \in Nat
  PROVE  \E f : Solves(f, c, s, n)
<1> DEFINE I == {k \in Nat : \E f : Solves(f, c, s, k)}
<1>1. 0 \in I
  <2> DEFINE f == [S \in SUBSET (1..0) |-> Base]
  <2>1. SUBSET (1..0) = {{}}
    OBVIOUS
  <2>2. Solves(f, c, s, 0)
    BY <2>1 DEF Solves
  <2> QED
    BY <2>2
<1>2. ASSUME NEW k \in Nat, k \in I PROVE k + 1 \in I
  <2>1. PICK f : Solves(f, c, s, k)
    BY <1>2
  <2> DEFINE g == [S \in SUBSET (1..(k + 1)) |->
                     IF k + 1 \in S THEN Step(c, f[S \ {k + 1}], s[k + 1]) ELSE f[S]]
             h == [S \in SUBSET (1..(k + 1)) |->
                     IF S = {} THEN Base
                     ELSE Step(c, g[S \ {Largest(S)}], s[Largest(S)])]
  <2>2. ASSUME NEW S \in SUBSET (1..(k + 1)) PROVE g[S] = h[S]
    <3>1. CASE k + 1 \in S
      <4>1. Largest(S) = k + 1 /\ S # {}
        BY <3>1, LargestLast
      <4>2. S \ {k + 1} \in SUBSET (1..(k + 1)) /\ k + 1 \notin S \ {k + 1}
        OBVIOUS
      <4>3. g[S \ {k + 1}] = f[S \ {k + 1}]
        BY <4>2
      <4>4. g[S] = Step(c, f[S \ {k + 1}], s[k + 1])
        BY <3>1
      <4>5. h[S] = Step(c, g[S \ {k + 1}], s[k + 1])
        BY <4>1
      <4> QED
        BY <4>3, <4>4, <4>5
    <3>2. CASE k + 1 \notin S
      <4>1. S \in SUBSET (1..k)
        BY <3>2
      <4>2. g[S] = f[S]
        BY <3>2
      <4>3. CASE S = {}
        BY <2>1, <4>1, <4>2, <4>3 DEF Solves
      <4>4. CASE S # {}
        <5> DEFINE x == Largest(S)
        <5>1. S \ {x} \in SUBSET (1..k) /\ S \ {x} \in SUBSET (1..(k + 1)) /\ k + 1 \notin S \ {x}
          BY <3>2, <4>1
        <5>2. g[S \ {x}] = f[S \ {x}]
          BY <5>1
        <5>3. f[S] = Step(c, f[S \ {x}], s[x])
          BY <2>1, <4>1, <4>4 DEF Solves
        <5>4. h[S] = Step(c, g[S \ {x}], s[x])
          BY <4>4
        <5> QED
          BY <4>2, <5>2, <5>3, <5>4
      <4> QED
        BY <4>3, <4>4
    <3> QED
      BY <3>1, <3>2
  <2>3. g = h
    BY <2>2
  <2>4. Solves(g, c, s, k + 1)
    BY <2>3 DEF Solves
  <2> HIDE DEF g
  <2> QED
    BY <2>4
<1>3. I \in SUBSET Nat
  OBVIOUS
<1>4. I = Nat
  BY <1>1, <1>2, <1>3, SetInduction
<1> QED
  BY <1>4

(* The fold of the first k positions, for every k.                          *)
LEMMA FoldPrefix ==
  ASSUME NEW c, NEW E, NEW s \in Seq(E), NEW f, IsFold(f, c, s)
  PROVE  /\ f[{}] = Base
         /\ \A k \in Nat : k + 1 <= Len(s) => f[1..(k + 1)] = Step(c, f[1..k], s[k + 1])
<1>1. DOMAIN s = 1..Len(s) /\ Len(s) \in Nat
  OBVIOUS
<1>2. f[{}] = Base
  BY <1>1 DEF IsFold
<1>3. ASSUME NEW k \in Nat, k + 1 <= Len(s) PROVE f[1..(k + 1)] = Step(c, f[1..k], s[k + 1])
  <2>0. 1 \in 1..(k + 1) /\ \A i \in 1..(k + 1) : i \in 1..Len(s)
    BY <1>1, <1>3
  <2>1. 1..(k + 1) \in SUBSET (DOMAIN s) /\ 1..(k + 1) # {}
    BY <1>1, <2>0
  <2>2. Largest(1..(k + 1)) = k + 1
    BY LargestLast
  <2>3. (1..(k + 1)) \ {k + 1} = 1..k
    OBVIOUS
  <2> QED
    BY <2>1, <2>2, <2>3 DEF IsFold
<1> QED
  BY <1>2, <1>3

LEMMA FoldIs ==
  ASSUME NEW c, NEW E, NEW s \in Seq(E)
  PROVE  \E f : IsFold(f, c, s) /\ Fold(c, s) = f[1..Len(s)]
<1>1. DOMAIN s = 1..Len(s) /\ Len(s) \in Nat
  OBVIOUS
<1>2. \E f : Solves(f, c, s, Len(s))
  BY <1>1, FoldExists
<1>3. \E f : IsFold(f, c, s)
  BY <1>1, <1>2 DEF IsFold, Solves
<1> QED
  BY <1>1, <1>3 DEF Fold

(* Nothing to fold.                                                         *)
LEMMA FoldEmpty == \A c : Fold(c, <<>>) = Base
<1> TAKE c
<1>1. <<>> \in Seq({})
  OBVIOUS
<1>2. PICK f : IsFold(f, c, <<>>) /\ Fold(c, <<>>) = f[1..Len(<<>>)]
  BY <1>1, FoldIs
<1>3. 1..Len(<<>>) = {}
  OBVIOUS
<1> QED
  BY <1>1, <1>2, <1>3, FoldPrefix

(* One more element is one more step.                                       *)
LEMMA FoldAppend ==
  ASSUME NEW c, NEW E, NEW s \in Seq(E), NEW e \in E
  PROVE  Fold(c, Append(s, e)) = Step(c, Fold(c, s), e)
<1> DEFINE t == Append(s, e)
           n == Len(s)
<1>1. /\ t \in Seq(E) /\ Len(t) = n + 1 /\ n \in Nat
      /\ t[n + 1] = e /\ \A k \in 1..n : t[k] = s[k]
  OBVIOUS
<1> HIDE DEF t, n
<1>2. PICK f : IsFold(f, c, s) /\ Fold(c, s) = f[1..n]
  BY FoldIs DEF n
<1>3. PICK g : IsFold(g, c, t) /\ Fold(c, t) = g[1..(n + 1)]
  BY <1>1, FoldIs
<1>4. f[{}] = Base /\ g[{}] = Base
  BY <1>1, <1>2, <1>3, FoldPrefix
<1>5. \A k \in Nat : k + 1 <= n =>
        /\ f[1..(k + 1)] = Step(c, f[1..k], s[k + 1])
        /\ g[1..(k + 1)] = Step(c, g[1..k], s[k + 1])
  <2> TAKE k \in Nat
  <2> HAVE k + 1 <= n
  <2>1. f[1..(k + 1)] = Step(c, f[1..k], s[k + 1])
    BY <1>2, FoldPrefix DEF n
  <2>2. g[1..(k + 1)] = Step(c, g[1..k], t[k + 1])
    BY <1>1, <1>3, FoldPrefix
  <2> QED
    BY <1>1, <2>1, <2>2
<1>6. \A k \in Nat : k <= n => f[1..k] = g[1..k]
  <2> DEFINE I == {k \in Nat : k <= n => f[1..k] = g[1..k]}
  <2>1. 0 \in I
    <3>1. 1..0 = {}
      OBVIOUS
    <3> QED
      BY <1>4, <3>1
  <2>2. ASSUME NEW k \in Nat, k \in I PROVE k + 1 \in I
    BY <1>1, <1>5, <2>2
  <2>3. I \in SUBSET Nat
    OBVIOUS
  <2>4. I = Nat
    BY <2>1, <2>2, <2>3, SetInduction
  <2> QED
    BY <2>4
<1>7. g[1..(n + 1)] = Step(c, g[1..n], t[n + 1])
  BY <1>1, <1>3, FoldPrefix
<1> QED
  BY <1>1, <1>2, <1>3, <1>6, <1>7 DEF t

(* Induction over sequences, in the form that takes a set.                  *)
LEMMA SeqInduction ==
  ASSUME NEW E, NEW T \in SUBSET Seq(E), <<>> \in T,
         \A s \in T, e \in E : Append(s, e) \in T
  PROVE  T = Seq(E)
<1> DEFINE I == {n \in Nat : \A s \in Seq(E) : Len(s) = n => s \in T}
<1>1. 0 \in I
  OBVIOUS
<1>2. ASSUME NEW n \in Nat, n \in I PROVE n + 1 \in I
  <2> SUFFICES ASSUME NEW s \in Seq(E), Len(s) = n + 1 PROVE s \in T
    OBVIOUS
  <2> DEFINE r == SubSeq(s, 1, n)
  <2>1. r \in Seq(E) /\ Len(r) = n /\ s[n + 1] \in E
    OBVIOUS
  <2>2. s = Append(r, s[n + 1])
    <3>1. Append(r, s[n + 1]) \in Seq(E) /\ Len(Append(r, s[n + 1])) = n + 1
      BY <2>1, SMTT(60)
    <3>2. \A i \in 1..(n + 1) : s[i] = Append(r, s[n + 1])[i]
      BY <2>1, SMTT(60)
    <3> QED
      BY <3>1, <3>2, SeqEqual
  <2> QED
    BY <1>2, <2>1, <2>2
<1>3. I \in SUBSET Nat
  OBVIOUS
<1>4. I = Nat
  BY <1>1, <1>2, <1>3, SetInduction
<1>5. \A s \in Seq(E) : Len(s) \in Nat
  OBVIOUS
<1> QED
  BY <1>4, <1>5
=============================================================================
