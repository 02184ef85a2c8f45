-------------------------- MODULE InductionLemmas --------------------------
(***************************************************************************)
(* Induction over the naturals as a statement about a set: a set that has  *)
(* n whenever it has everything below n has all of Nat. The proofs cite it *)
(* with a set {n \in Nat : P(n)}.                                          *)
(***************************************************************************)
EXTENDS Integers, WellFoundedInduction, TLAPS

(* A set of naturals that is not empty has a smallest element.             *)
LEMMA LeastElement ==
  ASSUME NEW T \in SUBSET Nat, T # {}
  PROVE  \E m \in T : \A k \in T : m <= k
<1> DEFINE R == {p \in Nat \X Nat : p[1] < p[2]}
<1>1. IsWellFoundedOn(R, Nat)
  BY NatLessThanWellFounded DEF OpToRel
<1>2. PICK m \in T : \A k \in T : ~ (<<k, m>> \in R)
  BY <1>1, WFMin
<1>3. \A k \in T : ~ (k < m)
  BY <1>2
<1> QED
  BY <1>3

(* Course-of-values induction.                                             *)
LEMMA StrongInduction ==
  ASSUME NEW T,
         \A n \in Nat : (\A k \in Nat : k < n => k \in T) => n \in T
  PROVE  Nat \subseteq T
<1> SUFFICES ASSUME Nat \ T # {} PROVE FALSE
  OBVIOUS
<1>1. PICK m \in Nat \ T : \A k \in Nat \ T : m <= k
  BY LeastElement
<1>2. \A k \in Nat : k < m => k \in T
  BY <1>1
<1> QED
  BY <1>1, <1>2

(* Induction by one.                                                       *)
LEMMA SimpleInduction ==
  ASSUME NEW T, 0 \in T, \A n \in Nat : n \in T => n + 1 \in T
  PROVE  Nat \subseteq T
<1> SUFFICES ASSUME NEW n \in Nat, \A k \in Nat : k < n => k \in T
             PROVE  n \in T
  BY StrongInduction
<1>1. CASE n = 0
  BY <1>1
<1>2. CASE n # 0
  <2>1. n - 1 \in Nat /\ n - 1 < n /\ (n - 1) + 1 = n
    BY <1>2
  <2> QED
    BY <2>1
<1> QED
  BY <1>1, <1>2

(* D computes a function's value at n from n and the values below n only.  *)
LooksBelow(D, V) ==
    \A n \in Nat : \A g, h \in [Nat -> V] :
        (\A k \in Nat : k < n => g[k] = h[k]) => D[n][g] = D[n][h]

(* The functions that obey the recursion by D up to n.                     *)
Upto(D, V, n) == {g \in [Nat -> V] : \A k \in 0..n : g[k] = D[k][g]}

(* Two functions that follow D up to n are equal up to n.                  *)
LEMMA UptoUnique ==
  ASSUME NEW V, NEW D \in [Nat -> [[Nat -> V] -> V]], LooksBelow(D, V),
         NEW n \in Nat
  PROVE  \A g, h \in Upto(D, V, n) : g[n] = h[n]
<1> SUFFICES ASSUME NEW g \in Upto(D, V, n), NEW h \in Upto(D, V, n)
             PROVE  g[n] = h[n]
  OBVIOUS
<1> DEFINE T == {k \in Nat : k <= n => g[k] = h[k]}
<1>0. g \in [Nat -> V] /\ h \in [Nat -> V]
  BY DEF Upto
<1>1. ASSUME NEW k \in Nat, \A j \in Nat : j < k => j \in T
      PROVE  k \in T
  <2> SUFFICES ASSUME k <= n PROVE g[k] = h[k]
    OBVIOUS
  <2>1. \A j \in Nat : j < k => g[j] = h[j]
    BY <1>1
  <2>2. D[k][g] = D[k][h]
    BY <1>0, <2>1 DEF LooksBelow
  <2>3. g[k] = D[k][g] /\ h[k] = D[k][h]
    BY DEF Upto
  <2> QED
    BY <2>2, <2>3
<1>2. Nat \subseteq T
  <2> HIDE DEF T
  <2> QED
    BY <1>1, StrongInduction
<1> QED
  BY <1>2

(* For every n there is a function that follows D up to n.                 *)
LEMMA UptoExists ==
  ASSUME NEW V, V # {}, NEW D \in [Nat -> [[Nat -> V] -> V]],
         LooksBelow(D, V)
  PROVE  \A n \in Nat : Upto(D, V, n) # {}
<1> DEFINE T == {n \in Nat : Upto(D, V, n) # {}}
<1>1. ASSUME NEW n \in Nat, NEW g \in [Nat -> V],
             \A k \in Nat : k < n => g[k] = D[k][g]
      PROVE  n \in T
  <2> DEFINE h == [g EXCEPT ![n] = D[n][g]]
  <2>0. D[n][g] \in V
    OBVIOUS
  <2>1. /\ h \in [Nat -> V]
        /\ h[n] = D[n][g]
        /\ \A k \in Nat : k < n => h[k] = g[k]
    BY <2>0
  <2> HIDE DEF h
  <2>2. ASSUME NEW k \in 0..n PROVE D[k][h] = D[k][g]
    <3>1. k \in Nat /\ \A j \in Nat : j < k => h[j] = g[j]
      BY <2>1
    <3> QED
      BY <2>1, <3>1 DEF LooksBelow
  <2>3. ASSUME NEW k \in 0..n PROVE h[k] = D[k][h]
    <3>1. CASE k = n
      BY <2>1, <2>2, <3>1
    <3>2. CASE k # n
      <4>1. k \in Nat /\ k < n
        BY <3>2
      <4>2. g[k] = D[k][g]
        BY <1>1, <4>1
      <4> QED
        BY <2>1, <2>2, <4>1, <4>2
    <3> QED
      BY <3>1, <3>2
  <2>4. h \in Upto(D, V, n)
    BY <2>1, <2>3 DEF Upto
  <2> QED
    BY <2>4
<1>2. 0 \in T
  <2>1. PICK v \in V : TRUE
    OBVIOUS
  <2> DEFINE g == [k \in Nat |-> v]
  <2>2. g \in [Nat -> V] /\ 0 \in Nat /\ \A k \in Nat : k < 0 => g[k] = D[k][g]
    OBVIOUS
  <2> HIDE DEF T, g
  <2> QED
    BY <1>1, <2>2
<1>3. ASSUME NEW n \in Nat, n \in T PROVE n + 1 \in T
  <2>1. PICK g : g \in Upto(D, V, n)
    BY <1>3
  <2>2. g \in [Nat -> V] /\ \A k \in Nat : k < n + 1 => g[k] = D[k][g]
    BY <2>1 DEF Upto
  <2> HIDE DEF T
  <2> QED
    BY <1>1, <2>2
<1>4. Nat \subseteq T
  <2> HIDE DEF T
  <2> QED
    BY <1>2, <1>3, SimpleInduction
<1> QED
  BY <1>4

(* Such a recursion has a solution.                                        *)
LEMMA RecursionExists ==
  ASSUME NEW V, V # {}, NEW D \in [Nat -> [[Nat -> V] -> V]],
         LooksBelow(D, V)
  PROVE  \E f \in [Nat -> V] : \A n \in Nat : f[n] = D[n][f]
<1> DEFINE G == [n \in Nat |-> CHOOSE g : g \in Upto(D, V, n)]
           f == [n \in Nat |-> G[n][n]]
<1>1. ASSUME NEW n \in Nat PROVE G[n] \in Upto(D, V, n)
  <2>1. Upto(D, V, n) # {}
    BY UptoExists, Zenon
  <2>2. (CHOOSE g : g \in Upto(D, V, n)) \in Upto(D, V, n)
    BY <2>1
  <2> QED
    BY <2>2
<1>2. \A n \in Nat : f[n] = G[n][n]
  OBVIOUS
<1> HIDE DEF G
<1>3. \A n \in Nat : /\ G[n] \in [Nat -> V]
                     /\ \A k \in 0..n : G[n][k] = D[k][G[n]]
  BY <1>1 DEF Upto
<1>4. f \in [Nat -> V]
  BY <1>3
<1> HIDE DEF f
<1>5. ASSUME NEW n \in Nat PROVE f[n] = D[n][f]
  <2>1. ASSUME NEW k \in Nat, k < n PROVE G[n][k] = f[k]
    <3>1. G[n] \in Upto(D, V, k) /\ G[k] \in Upto(D, V, k)
      BY <1>1, <1>3, <2>1 DEF Upto
    <3>2. \A g, h \in Upto(D, V, k) : g[k] = h[k]
      BY UptoUnique, Zenon
    <3>3. G[n][k] = G[k][k]
      BY <3>1, <3>2
    <3> QED
      BY <1>2, <3>3
  <2>2. D[n][G[n]] = D[n][f]
    BY <1>3, <1>4, <2>1 DEF LooksBelow
  <2> QED
    BY <1>2, <1>3, <2>2
<1> QED
  BY <1>4, <1>5
=============================================================================
