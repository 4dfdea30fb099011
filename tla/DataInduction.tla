----------------------------- MODULE DataInduction ----------------------------
(***************************************************************************)
(* Induction over numbers, stated for sets in place of predicates, so that *)
(* it can be used for properties of data: a property P of numbers is the   *)
(* set of the numbers that have it.  With it a function defined by         *)
(* recursion over the positions of a sequence can be shown to exist, and   *)
(* so to satisfy its own definition.                                       *)
(***************************************************************************)
EXTENDS Integers, TLAPS, WellFoundedInduction

\* A set of natural numbers has a least element.
LEMMA LeastNumber ==
  ASSUME NEW T \in SUBSET Nat, T # {}
  PROVE  \E n \in T : \A k \in T : n <= k
<1> DEFINE R == OpToRel(<, Nat)
<1>1. \E x \in T : \A y \in T : ~ (<<y, x>> \in R)
  <2> HIDE DEF R
  <2>1. IsWellFoundedOn(R, Nat)
    BY NatLessThanWellFounded DEF R
  <2>2. QED
    BY <2>1, WFMin
<1>2. \A x, y \in Nat : x < y => <<x, y>> \in R
  BY DEF OpToRel
<1> HIDE DEF R
<1>3. PICK n \in T : \A k \in T : ~ (<<k, n>> \in R)
  BY <1>1
<1>4. \A k \in T : k \in Nat /\ n \in Nat /\ ~(k < n)
  BY <1>2, <1>3
<1>5. \A k \in T : n <= k
  BY <1>4
<1>6. QED
  BY <1>5

\* What holds of 0, and of each number up to m if of the one before it, holds up to m.
LEMMA InductionUpTo ==
  ASSUME NEW m \in Nat, NEW T, 0 \in T, \A n \in 1 .. m : n - 1 \in T => n \in T
  PROVE  0 .. m \subseteq T
<1> SUFFICES ASSUME ~(0 .. m \subseteq T) PROVE FALSE
  OBVIOUS
<1> DEFINE U == (0 .. m) \ T
<1>1. U \in SUBSET Nat /\ U # {}
  OBVIOUS
<1>2. PICK n \in U : \A k \in U : n <= k
  BY <1>1, LeastNumber
<1>3. n \in 1 .. m /\ n - 1 \in 0 .. m
  BY <1>2
<1>4. n - 1 \in T
  BY <1>2, <1>3
<1>5. QED
  BY <1>2, <1>3, <1>4

LEMMA InductionOnNat ==
  ASSUME NEW T, 0 \in T, \A n \in Nat : n \in T => n + 1 \in T
  PROVE  Nat \subseteq T
<1> SUFFICES ASSUME NEW m \in Nat PROVE m \in T
  OBVIOUS
<1>1. \A n \in 1 .. m : n - 1 \in T => n \in T
  <2>1. \A n \in 1 .. m : n - 1 \in Nat /\ (n - 1) + 1 = n
    OBVIOUS
  <2>2. QED
    BY <2>1
<1>2. 0 .. m \subseteq T
  BY <1>1, InductionUpTo
<1>3. QED
  BY <1>2

\* g is what a recursion over 0 .. m computes, from c by the steps D[1], .. D[m].
Solves(g, S, c, D, m) ==
  g \in [0 .. m -> S] /\ g[0] = c /\ \A n \in 1 .. m : g[n] = D[n][g[n - 1]]

\* A recursion over 0 .. m has a solution.
LEMMA RecursionUpTo ==
  ASSUME NEW S, NEW c \in S, NEW D \in [Nat -> [S -> S]], NEW m \in Nat
  PROVE  \E g : Solves(g, S, c, D, m)
<1> DEFINE T == {k \in Nat : \E g : Solves(g, S, c, D, k)}
<1>1. 0 \in T
  <2>1. Solves([n \in 0 .. 0 |-> c], S, c, D, 0)
    BY DEF Solves
  <2>2. QED
    BY <2>1
<1>2. ASSUME NEW k \in Nat, k \in T PROVE k + 1 \in T
  <2>1. PICK g : Solves(g, S, c, D, k)
    BY <1>2
  <2> DEFINE h == [n \in 0 .. k + 1 |-> IF n = k + 1 THEN D[k + 1][g[k]] ELSE g[n]]
  <2>2. g \in [0 .. k -> S] /\ D[k + 1][g[k]] \in S
    BY <2>1 DEF Solves
  <2>3. h \in [0 .. k + 1 -> S]
    BY <2>2
  <2>4. h[0] = c
    BY <2>1 DEF Solves
  <2>5. ASSUME NEW n \in 1 .. k + 1 PROVE h[n] = D[n][h[n - 1]]
    <3>1. n - 1 \in 0 .. k /\ n - 1 # k + 1 /\ h[n - 1] = g[n - 1]
      OBVIOUS
    <3>2. CASE n = k + 1
      <4>1. n - 1 = k
        BY <3>2
      <4>2. h[n] = D[k + 1][g[k]]
        BY <3>2
      <4>3. QED
        BY <3>1, <3>2, <4>1, <4>2
    <3>3. CASE n # k + 1
      <4>1. n \in 1 .. k /\ h[n] = g[n]
        BY <3>3
      <4>2. QED
        BY <2>1, <3>1, <4>1 DEF Solves
    <3>4. QED
      BY <3>2, <3>3
  <2>6. Solves(h, S, c, D, k + 1)
    BY <2>3, <2>4, <2>5 DEF Solves
  <2> HIDE DEF h
  <2>7. QED
    BY <2>6
<1>3. Nat \subseteq T
  <2> HIDE DEF T
  <2>1. QED
    BY <1>1, <1>2, InductionOnNat
<1>4. QED
  BY <1>3

\* Two functions agree at 0, and at each number up to m if at the one before it.
GrowAlike(f, g, m) == f[0] = g[0] /\ \A n \in 1 .. m : f[n - 1] = g[n - 1] => f[n] = g[n]

LEMMA SameUpTo ==
  ASSUME NEW m \in Nat, NEW f, NEW g, GrowAlike(f, g, m)
  PROVE  \A n \in 0 .. m : f[n] = g[n]
<1> DEFINE T == {n \in Nat : f[n] = g[n]}
<1>1. 0 .. m \subseteq T
  <2>1. 0 \in T
    BY DEF GrowAlike
  <2>2. \A n \in 1 .. m : n - 1 \in T => n \in T
    BY DEF GrowAlike
  <2> HIDE DEF T
  <2>3. QED
    BY <2>1, <2>2, InductionUpTo
<1>2. QED
  BY <1>1

\* f satisfies the recursion D for all inputs of a size below m.
SolvesBelow(f, I, S, size, D, m) ==
  f \in [I -> S] /\ \A p \in I : size[p] < m => f[p] = D[f][p]

\* D looks at smaller inputs only.
Descends(I, S, size, D) ==
  \A f, g \in [I -> S] : \A p \in I :
    (\A q \in I : size[q] < size[p] => f[q] = g[q]) => D[f][p] = D[g][p]

\* Two functions that satisfy such a recursion below m agree there.
LEMMA SameBelow ==
  ASSUME NEW I, NEW S, NEW size \in [I -> Nat], NEW D, Descends(I, S, size, D), NEW m \in Nat,
         NEW f, NEW g, SolvesBelow(f, I, S, size, D, m), SolvesBelow(g, I, S, size, D, m)
  PROVE  \A p \in I : size[p] < m => f[p] = g[p]
<1> DEFINE T == {k \in Nat : k <= m => \A p \in I : size[p] < k => f[p] = g[p]}
<1>1. 0 \in T OBVIOUS
<1>2. ASSUME NEW k \in Nat, k \in T PROVE k + 1 \in T
  <2> SUFFICES ASSUME k + 1 <= m, NEW p \in I, size[p] < k + 1 PROVE f[p] = g[p]
    OBVIOUS
  <2>1. \A q \in I : size[q] < size[p] => size[q] < k OBVIOUS
  <2>2. \A q \in I : size[q] < size[p] => f[q] = g[q] BY <1>2, <2>1
  <2>3. f \in [I -> S] /\ g \in [I -> S] BY DEF SolvesBelow
  <2>4. D[f][p] = D[g][p] BY <2>2, <2>3 DEF Descends
  <2> QED BY <2>4 DEF SolvesBelow
<1>3. m \in T
  <2> HIDE DEF T
  <2> QED BY <1>1, <1>2, InductionOnNat
<1> QED BY <1>3

\* A recursion over the inputs I, to values in S, that looks at smaller inputs only.
Recursion(I, S, size, D) ==
  size \in [I -> Nat] /\ D \in [[I -> S] -> [I -> S]] /\ S # {} /\ Descends(I, S, size, D)

Solvable(I, S, D) == \E r \in [I -> S] : r = D[r]

\* It has a solution.
LEMMA RecursionBySize == \A I, S, size, D : Recursion(I, S, size, D) => Solvable(I, S, D)
<1> SUFFICES ASSUME NEW I, NEW S, NEW size, NEW D, Recursion(I, S, size, D) PROVE Solvable(I, S, D)
  OBVIOUS
<1>0. size \in [I -> Nat] /\ D \in [[I -> S] -> [I -> S]] /\ S # {} /\ Descends(I, S, size, D)
  BY DEF Recursion
<1> DEFINE Good(f, m) == SolvesBelow(f, I, S, size, D, m)
           T == {m \in Nat : \E f : Good(f, m)}
           F(m) == CHOOSE f : Good(f, m)
           r == [p \in I |-> F(size[p] + 1)[p]]
<1>1. 0 \in T
  <2>1. PICK s : s \in S BY <1>0
  <2>2. Good([p \in I |-> s], 0) BY <1>0, <2>1 DEF SolvesBelow
  <2> QED BY <2>2
<1>2. ASSUME NEW m \in Nat, m \in T PROVE m + 1 \in T
  <2>1. PICK f : Good(f, m) BY <1>0, <1>2
  <2>2. f \in [I -> S] /\ D[f] \in [I -> S] BY <1>0, <2>1 DEF SolvesBelow
  <2>3. ASSUME NEW p \in I, size[p] < m + 1 PROVE D[f][p] = D[D[f]][p]
    <3>1. \A q \in I : size[q] < size[p] => size[q] < m BY <1>0, <2>3
    <3>2. \A q \in I : size[q] < size[p] => f[q] = D[f][q] BY <2>1, <3>1, <1>0 DEF SolvesBelow
    <3> QED BY <1>0, <2>2, <3>2 DEF Descends
  <2>4. Good(D[f], m + 1) BY <1>0, <2>2, <2>3 DEF SolvesBelow
  <2> QED BY <2>4
<1>3. \A m \in Nat : Good(F(m), m)
  <2>1. Nat \subseteq T
    <3> HIDE DEF T
    <3> QED BY <1>1, <1>2, InductionOnNat
  <2> HIDE DEF Good
  <2> QED BY <2>1
<1>4. \A p \in I : size[p] \in Nat /\ size[p] + 1 \in Nat BY <1>0
<1>5. r \in [I -> S]
  <2>1. \A p \in I : F(size[p] + 1) \in [I -> S] BY <1>0, <1>3, <1>4 DEF SolvesBelow
  <2> HIDE DEF F
  <2> QED BY <2>1
<1>6. ASSUME NEW p \in I PROVE r[p] = D[r][p]
  <2> DEFINE f == F(size[p] + 1)
  <2>1. Good(f, size[p] + 1) BY <1>3, <1>4
  <2>2. f \in [I -> S] /\ f[p] = D[f][p] BY <1>0, <1>4, <2>1 DEF SolvesBelow
  <2>3. ASSUME NEW q \in I, size[q] < size[p] PROVE f[q] = r[q]
    <3> DEFINE g == F(size[q] + 1)
    <3>1. Good(g, size[q] + 1) BY <1>3, <1>4
    <3>2. \A o \in I : size[o] < size[q] + 1 => size[o] < size[p] + 1 BY <1>4, <2>3
    <3>3. Good(f, size[q] + 1) BY <2>1, <3>2 DEF SolvesBelow
    <3>4. f[q] = g[q]
      <4> DEFINE m == size[q] + 1
      <4>1. m \in Nat /\ size[q] < m BY <1>4
      <4>2. SolvesBelow(f, I, S, size, D, m) /\ SolvesBelow(g, I, S, size, D, m)
        BY <3>1, <3>3
      <4> HIDE DEF f, g, m
      <4>3. \A o \in I : size[o] < m => f[o] = g[o] BY <1>0, <4>1, <4>2, SameBelow
      <4> QED BY <4>1, <4>3
    <3> QED BY <3>4
  <2> HIDE DEF f, r
  <2>4. D[f][p] = D[r][p] BY <1>0, <1>5, <2>2, <2>3 DEF Descends
  <2>5. r[p] = f[p] BY DEF r, f
  <2> QED BY <2>2, <2>4, <2>5
<1>7. r = D[r]
  <2>1. D[r] \in [I -> S] BY <1>0, <1>5
  <2> HIDE DEF r
  <2> QED BY <1>5, <1>6, <2>1
<1> QED BY <1>5, <1>7 DEF Solvable
===============================================================================
