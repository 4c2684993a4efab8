------------------------- MODULE RecursionTheorems -------------------------
(***************************************************************************)
(* What the proofs about sequences rest on: induction over the numbers,    *)
(* functions defined by recursion, greatest and least numbers.             *)
(***************************************************************************)
EXTENDS Integers, FiniteSetTheorems, TLAPS

(* Induction: a set that holds 0 and every successor of its members holds  *)
(* every number.  Were x missing, the predecessor would map the missing    *)
(* numbers up to x one to one into those below x, one fewer.               *)

LEMMA SetInduction ==
  ASSUME NEW S, 0 \in S, \A n \in Nat : n \in S => n + 1 \in S
  PROVE  Nat \subseteq S
<1> SUFFICES ASSUME NEW x \in Nat, x \notin S
             PROVE  FALSE
  OBVIOUS
<1> DEFINE missing == {y \in 0..x : y \notin S}
           below   == missing \ {x}
           pred    == [y \in missing |-> y - 1]
<1>1. IsFiniteSet(missing)
  <2>1. IsFiniteSet(0..x)
    BY FS_Interval
  <2>2. missing \in SUBSET (0..x)
    OBVIOUS
  <2> HIDE DEF missing
  <2> QED
    BY <2>1, <2>2, FS_Subset
<1>2. IsFiniteSet(below) /\ Cardinality(below) = Cardinality(missing) - 1
  <2>1. x \in missing
    OBVIOUS
  <2> HIDE DEF missing
  <2> QED
    BY <1>1, <2>1, FS_RemoveElement
<1>3. Cardinality(below) < Cardinality(missing)
  BY <1>1, <1>2, FS_CardinalityType
<1>4. \A y \in missing : y - 1 \in below
  <2> TAKE y \in missing
  <2>1. y # 0 /\ y - 1 \in 0..x /\ y - 1 \in Nat
    OBVIOUS
  <2>2. y - 1 \notin S
    BY <2>1
  <2> QED
    BY <2>1, <2>2
<1>5. pred \in [missing -> below]
  BY <1>4
<1>6. \A y, z \in missing : pred[y] = pred[z] => y = z
  OBVIOUS
<1> HIDE DEF missing, below, pred
<1> QED
  BY <1>1, <1>2, <1>3, <1>5, <1>6, FS_PigeonHole

\* f starts at v and takes n steps.
Recursion(f, V, v, n, op) ==
  /\ f \in [0..n -> V] /\ f[0] = v
  /\ \A k \in 1..n : f[k] = op[k][f[k - 1]]

\* There is such a function,
LEMMA RecursionSolved ==
  ASSUME NEW V, NEW v \in V, NEW n \in Nat, NEW op \in [1..n -> [V -> V]]
  PROVE  \E f : Recursion(f, V, v, n, op)
<1> DEFINE S == {m \in Nat : m <= n => \E f : Recursion(f, V, v, m, op)}
<1>1. 0 \in S
  <2>1. Recursion([k \in 0..0 |-> v], V, v, 0, op)
    BY DEF Recursion
  <2> QED
    BY <2>1
<1>2. ASSUME NEW m \in Nat, m \in S
      PROVE  m + 1 \in S
  <2> SUFFICES ASSUME m + 1 <= n
               PROVE  \E f : Recursion(f, V, v, m + 1, op)
    OBVIOUS
  <2>1. PICK f : Recursion(f, V, v, m, op)
    BY <1>2
  <2> DEFINE g == [k \in 0..(m + 1) |-> IF k = m + 1 THEN op[m + 1][f[m]] ELSE f[k]]
  <2>2. op[m + 1][f[m]] \in V
    BY <2>1 DEF Recursion
  <2>3. g \in [0..(m + 1) -> V]
    BY <2>1, <2>2 DEF Recursion
  <2>4. g[0] = v
    BY <2>1 DEF Recursion
  <2>5. \A k \in 1..(m + 1) : g[k] = op[k][g[k - 1]]
    BY <2>1 DEF Recursion
  <2> HIDE DEF g
  <2> QED
    BY <2>3, <2>4, <2>5 DEF Recursion
<1> HIDE DEF S
<1>3. Nat \subseteq S
  BY <1>1, <1>2, SetInduction
<1> QED
  BY <1>3 DEF S

\* and only one.
LEMMA RecursionUnique ==
  ASSUME NEW n \in Nat, NEW f, NEW g, f[0] = g[0],
         \A k \in 1..n : f[k - 1] = g[k - 1] => f[k] = g[k]
  PROVE  f[n] = g[n]
<1> DEFINE S == {m \in Nat : m <= n => f[m] = g[m]}
<1>1. 0 \in S
  OBVIOUS
<1>2. ASSUME NEW m \in Nat, m \in S
      PROVE  m + 1 \in S
  <2> SUFFICES ASSUME m + 1 <= n
               PROVE  f[m + 1] = g[m + 1]
    OBVIOUS
  <2>1. m + 1 \in 1..n /\ (m + 1) - 1 = m /\ f[m] = g[m]
    BY <1>2
  <2> QED
    BY <2>1
<1> HIDE DEF S
<1>3. Nat \subseteq S
  BY <1>1, <1>2, SetInduction
<1> QED
  BY <1>3 DEF S

----------------------------------------------------------------------------
(* Greatest and least members *)

LEMMA Greatest ==
  ASSUME NEW n \in Nat, NEW S \in SUBSET (0..n), S # {}
  PROVE  \E x \in S : \A y \in S : y <= x
<1> DEFINE T == {m \in Nat : \A R \in SUBSET (0..m) : R # {} => \E x \in R : \A y \in R : y <= x}
<1>1. 0 \in T
  <2> SUFFICES ASSUME NEW R \in SUBSET (0..0), R # {}
               PROVE  \E x \in R : \A y \in R : y <= x
    OBVIOUS
  <2>1. \A x \in R : x = 0
    OBVIOUS
  <2>2. PICK x \in R : TRUE
    OBVIOUS
  <2>3. \A y \in R : y <= x
    BY <2>1, <2>2
  <2> QED
    BY <2>2, <2>3
<1>2. ASSUME NEW m \in Nat, m \in T
      PROVE  m + 1 \in T
  <2> SUFFICES ASSUME NEW R \in SUBSET (0..(m + 1)), R # {}
               PROVE  \E x \in R : \A y \in R : y <= x
    OBVIOUS
  <2>1. CASE m + 1 \in R
    BY <2>1
  <2>2. CASE m + 1 \notin R
    <3>1. R \in SUBSET (0..m)
      BY <2>2
    <3> QED
      BY <1>2, <3>1
  <2> QED
    BY <2>1, <2>2
<1> HIDE DEF T
<1>3. Nat \subseteq T
  BY <1>1, <1>2, SetInduction
<1> QED
  BY <1>3 DEF T

LEMMA Least ==
  ASSUME NEW n \in Nat, NEW S \in SUBSET (0..n), S # {}
  PROVE  \E x \in S : \A y \in S : x <= y
<1> DEFINE T == {n - x : x \in S}
<1>1. T \in SUBSET (0..n) /\ T # {}
  <2>1. \A x \in S : n - x \in 0..n
    OBVIOUS
  <2> QED
    BY <2>1
<1>2. PICK z \in T : \A y \in T : y <= z
  <2> HIDE DEF T
  <2> QED
    BY <1>1, Greatest
<1>3. PICK x \in S : z = n - x
  BY <1>2
<1>4. ASSUME NEW y \in S
      PROVE  x <= y
  <2>1. n - y <= n - x
    BY <1>2, <1>3
  <2> QED
    BY <2>1
<1> QED
  BY <1>4
=============================================================================
