------------------------------ MODULE Inductions ------------------------------
(***************************************************************************)
(* Induction without operators for arguments: a set of numbers that has    *)
(* zero and the successor of each of its members has all of them, and what *)
(* a function says of itself, step by step, defines one.                   *)
(***************************************************************************)
EXTENDS Integers, FiniteSets, FiniteSetTheorems, WellFoundedInduction, TLAPS

(* A set of natural numbers has a least member.                            *)
LEMMA Least ==
  ASSUME NEW T \in SUBSET Nat, T # {} PROVE \E m \in T : \A k \in T : m <= k
<1> DEFINE R == {ss \in Nat \X Nat : ss[1] < ss[2]}
<1>1. IsWellFoundedOn(R, Nat)
  BY NatLessThanWellFounded DEF OpToRel
<1> HIDE DEF R
<1>2. PICK x \in T : \A y \in T : ~(<<y, x>> \in R)
  BY <1>1, WFMin
<1>3. \A y \in T : x <= y
  <2> SUFFICES ASSUME NEW y \in T PROVE x <= y
    OBVIOUS
  <2>1. x \in Nat /\ y \in Nat /\ ~(<<y, x>> \in R)
    BY <1>2
  <2> QED BY <2>1 DEF R
<1> QED BY <1>3

(* Up to a bound: what holds of 0, and of k + 1 when it holds of k.        *)
LEMMA UpTo ==
  ASSUME NEW n \in Nat, NEW T, 0 \in T, \A k \in 0 .. n - 1 : k \in T => k + 1 \in T
  PROVE  0 .. n \subseteq T
<1> DEFINE Out == (0 .. n) \ T
<1> SUFFICES ASSUME Out # {} PROVE FALSE
  OBVIOUS
<1>1. Out \in SUBSET Nat
  OBVIOUS
<1>2. PICK m \in Out : \A k \in Out : m <= k
  BY <1>1, Least
<1>3. m # 0 /\ m \in 0 .. n
  OBVIOUS
<1>4. m - 1 \in 0 .. n - 1 /\ m - 1 \in 0 .. n
  BY <1>3
<1>5. m - 1 \notin Out
  BY <1>2, <1>3
<1>6. m - 1 \in T
  BY <1>4, <1>5
<1>7. (m - 1) + 1 \in T
  BY <1>4, <1>6
<1> QED BY <1>3, <1>7

(* Step by step, from a, within D.                                         *)
Unfolds(g, n, D, a, step) ==
  /\ g \in [0 .. n -> D]
  /\ g[0] = a
  /\ \A k \in 0 .. n - 1 : g[k + 1] = step[<<k, g[k]>>]

LEMMA Unfolding ==
  ASSUME NEW n \in Nat, NEW D, NEW a \in D, NEW step \in [(0 .. n - 1) \X D -> D]
  PROVE  \E g : Unfolds(g, n, D, a, step)
<1> DEFINE T == {k \in 0 .. n : \E g : Unfolds(g, k, D, a, step)}
<1>1. 0 \in T
  <2>1. Unfolds([k \in 0 .. 0 |-> a], 0, D, a, step)
    BY DEF Unfolds
  <2> QED BY <2>1
<1>2. ASSUME NEW k \in 0 .. n - 1, k \in T PROVE k + 1 \in T
  <2>1. PICK g : Unfolds(g, k, D, a, step)
    BY <1>2
  <2> DEFINE h == [i \in 0 .. k + 1 |-> IF i = k + 1 THEN step[<<k, g[k]>>] ELSE g[i]]
  <2>2. g[k] \in D /\ step[<<k, g[k]>>] \in D
    BY <2>1 DEF Unfolds
  <2>3. h \in [0 .. k + 1 -> D] /\ h[0] = a
    BY <2>1, <2>2 DEF Unfolds
  <2>4. ASSUME NEW i \in 0 .. (k + 1) - 1 PROVE h[i + 1] = step[<<i, h[i]>>]
    <3>1. CASE i = k
      <4>1. k \in 0 .. k + 1 /\ k + 1 \in 0 .. k + 1 /\ k # k + 1
        OBVIOUS
      <4>2. h[k] = g[k] /\ h[k + 1] = step[<<k, g[k]>>]
        BY <4>1
      <4> QED BY <3>1, <4>2
    <3>2. CASE i # k
      <4>1. /\ i \in 0 .. k - 1 /\ i + 1 # k + 1 /\ i + 1 \in 0 .. k + 1
            /\ i \in 0 .. k + 1 /\ i # k + 1
        BY <3>2
      <4>2. g[i + 1] = step[<<i, g[i]>>]
        BY <4>1, <2>1 DEF Unfolds
      <4>3. h[i] = g[i] /\ h[i + 1] = g[i + 1]
        BY <4>1
      <4> QED BY <4>2, <4>3
    <3> QED BY <3>1, <3>2
  <2> HIDE DEF h
  <2>5. Unfolds(h, k + 1, D, a, step)
    BY <2>3, <2>4 DEF Unfolds
  <2> QED BY <2>5
<1> HIDE DEF T
<1>3. n \in T
  BY <1>1, <1>2, UpTo
<1> QED BY <1>3 DEF T

-----------------------------------------------------------------------------
(* A chain of sets that grow stands still before its bound.                *)
LEMMA ChainStops ==
  ASSUME NEW U, IsFiniteSet(U), NEW n \in Nat, Cardinality(U) <= n,
         NEW w \in [0 .. n -> SUBSET U],
         w[0] # {},
         \A k \in 0 .. n - 1 : w[k] \subseteq w[k + 1]
  PROVE  \E k \in 0 .. n - 1 : w[k + 1] = w[k]
<1> SUFFICES ASSUME \A k \in 0 .. n - 1 : w[k + 1] # w[k] PROVE FALSE
  OBVIOUS
<1> DEFINE T == {k \in 0 .. n : Cardinality(w[k]) >= k + 1}
<1>0. \A k \in 0 .. n : IsFiniteSet(w[k]) /\ Cardinality(w[k]) \in Nat
  BY FS_Subset, FS_CardinalityType
<1>1. 0 \in T
  <2>1. Cardinality(w[0]) # 0
    BY <1>0, FS_EmptySet
  <2> QED BY <2>1, <1>0
<1>2. ASSUME NEW k \in 0 .. n - 1, k \in T PROVE k + 1 \in T
  <2>1. k + 1 \in 0 .. n /\ k \in 0 .. n
    OBVIOUS
  <2>2. Cardinality(w[k]) <= Cardinality(w[k + 1])
    BY <2>1, <1>0, FS_Subset
  <2>3. Cardinality(w[k]) # Cardinality(w[k + 1])
    BY <2>1, <1>0, FS_Subset
  <2>4. Cardinality(w[k]) \in Nat /\ Cardinality(w[k + 1]) \in Nat
    BY <2>1, <1>0
  <2>5. Cardinality(w[k]) >= k + 1
    BY <1>2
  <2>6. PICK c, d : c = Cardinality(w[k]) /\ d = Cardinality(w[k + 1])
    OBVIOUS
  <2>7. d >= (k + 1) + 1
    BY <2>2, <2>3, <2>4, <2>5, <2>6
  <2> QED BY <2>1, <2>6, <2>7
<1> HIDE DEF T
<1>3. n \in T
  <2>1. 0 .. n \subseteq T
    BY <1>1, <1>2, UpTo
  <2> QED BY <2>1
<1>4. Cardinality(w[n]) >= n + 1 /\ Cardinality(w[n]) <= Cardinality(U)
  BY <1>3, FS_Subset DEF T
<1>5. Cardinality(U) \in Nat
  BY FS_CardinalityType
<1> QED BY <1>0, <1>4, <1>5

-----------------------------------------------------------------------------
(* A function that grows a set until it grows no more finds the least      *)
(* closed set around it: there is one such function, as the sets it grows  *)
(* are parts of a finite set.                                              *)
Grows(U, on) ==
  /\ IsFiniteSet(U)
  /\ on \in [SUBSET U -> SUBSET U]
  /\ \A r \in SUBSET U : r \subseteq on[r]
  /\ \A r, c \in SUBSET U : r \subseteq c => on[r] \subseteq on[c]

Closing(U, on, f) == f = [r \in SUBSET U |-> IF on[r] = r THEN r ELSE f[on[r]]]

IsClosure(U, on, r, s) ==
  /\ s \in SUBSET U /\ r \subseteq s /\ on[s] = s
  /\ \A c \in SUBSET U : r \subseteq c /\ on[c] = c => s \subseteq c

LEMMA ClosingExists == ASSUME NEW U, NEW on, Grows(U, on) PROVE \E f : Closing(U, on, f)
<1> DEFINE In(r, e) == \A c \in SUBSET U : r \subseteq c /\ on[c] = c => e \in c
           f == [r \in SUBSET U |-> {e \in U : In(r, e)}]
<1>1. ASSUME NEW r \in SUBSET U, on[r] = r PROVE f[r] = r
  <2>1. \A e \in r : In(r, e)
    OBVIOUS
  <2>2. \A e \in U : In(r, e) => e \in r
    BY <1>1
  <2> QED BY <2>1, <2>2
<1>2. ASSUME NEW r \in SUBSET U PROVE f[r] = f[on[r]]
  <2>1. on[r] \in SUBSET U
    BY DEF Grows
  <2>2. \A c \in SUBSET U : on[c] = c => (r \subseteq c <=> on[r] \subseteq c)
    BY DEF Grows
  <2>3. \A e \in U : In(r, e) <=> In(on[r], e)
    BY <2>2
  <2> QED BY <2>1, <2>3
<1>3. Closing(U, on, f)
  <2> DEFINE g == [r \in SUBSET U |-> IF on[r] = r THEN r ELSE f[on[r]]]
  <2>1. \A r \in SUBSET U : f[r] = g[r]
    BY <1>1, <1>2
  <2>2. f = [r \in SUBSET U |-> f[r]] /\ g = [r \in SUBSET U |-> g[r]]
    OBVIOUS
  <2> HIDE DEF f
  <2>3. f = g
    BY <2>1, <2>2
  <2> QED BY <2>3 DEF Closing
<1> QED BY <1>3

LEMMA ClosingCloses ==
  ASSUME NEW U, NEW on, Grows(U, on), NEW f, Closing(U, on, f), NEW start \in SUBSET U
  PROVE  IsClosure(U, on, start, f[start])
<1> DEFINE Bad == {r \in SUBSET U : ~IsClosure(U, on, r, f[r])}
           T == {Cardinality(U \ r) : r \in Bad}
<1> SUFFICES ASSUME Bad # {} PROVE FALSE
  OBVIOUS
<1>1. \A r \in SUBSET U : IsFiniteSet(U \ r) /\ Cardinality(U \ r) \in Nat
  BY FS_Difference, FS_CardinalityType DEF Grows
<1>2. T \in SUBSET Nat /\ T # {}
  BY <1>1
<1>3. PICK m \in T : \A k \in T : m <= k
  BY <1>2, Least
<1>4. PICK r \in Bad : m = Cardinality(U \ r)
  OBVIOUS
<1>5. r \in SUBSET U /\ ~IsClosure(U, on, r, f[r]) /\ on[r] \in SUBSET U /\ r \subseteq on[r]
  BY DEF Grows
<1>6. f[r] = IF on[r] = r THEN r ELSE f[on[r]]
  BY <1>5 DEF Closing
<1>7. CASE on[r] = r
  BY <1>5, <1>6, <1>7 DEF IsClosure
<1>8. CASE on[r] # r
  <2>1. U \ on[r] \subseteq U \ r /\ U \ on[r] # U \ r
    BY <1>5, <1>8
  <2>2. Cardinality(U \ on[r]) <= m /\ Cardinality(U \ on[r]) # m
    BY <1>1, <1>4, <1>5, <2>1, FS_Subset
  <2>3. on[r] \notin Bad
    <3>1. Cardinality(U \ on[r]) \in Nat /\ m \in Nat
      BY <1>1, <1>2, <1>5
    <3>2. PICK k : k = Cardinality(U \ on[r])
      OBVIOUS
    <3>3. on[r] \in Bad => k \in T
      BY <3>2
    <3> HIDE DEF T, Bad
    <3>4. k \notin T
      BY <1>3, <2>2, <3>1, <3>2
    <3> QED BY <3>3, <3>4
  <2>4. IsClosure(U, on, on[r], f[r])
    BY <1>5, <1>6, <1>8, <2>3
  <2>5. \A c \in SUBSET U : r \subseteq c /\ on[c] = c => on[r] \subseteq c
    BY <1>5 DEF Grows
  <2> QED BY <1>5, <2>4, <2>5 DEF IsClosure
<1> QED BY <1>7, <1>8

=============================================================================
