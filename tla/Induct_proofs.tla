--------------------------- MODULE Induct_proofs ---------------------------
(***************************************************************************)
(* The least number of a set of naturals, and from it the greatest of a    *)
(* bounded one: what the turns' "latest park" (Max over the rows' steps)   *)
(* and the recursive functions of the other modules are reasoned with.     *)
(***************************************************************************)
EXTENDS Naturals, WellFoundedInduction, FiniteSetsExt, TLAPS

(* Every set of natural numbers has a least one.                            *)
LEMMA LeastNumber ==
  ASSUME NEW T, T \subseteq Nat, T # {}
  PROVE  \E m \in T : \A k \in T : m <= k
<1>1. IsWellFoundedOn(OpToRel(<, Nat), Nat)
  BY NatLessThanWellFounded
<1>2. PICK x \in T : \A y \in T : ~(<<y, x>> \in OpToRel(<, Nat))
  BY <1>1, WFMin
<1>3. \A y \in T : ~(y < x)
  BY <1>2 DEF OpToRel
<1>4. QED
  BY <1>3

(* A set of numbers up to n has a greatest one, and that is its Max.        *)
LEMMA MaxNumber ==
  ASSUME NEW n \in Nat, NEW S, S \subseteq 0..n, S # {}
  PROVE  Max(S) \in S /\ \A y \in S : y <= Max(S)
<1> DEFINE T == {u \in Nat : \A y \in S : y <= u}
<1>1. n \in T /\ T \subseteq Nat
  OBVIOUS
<1>2. PICK m \in T : \A k \in T : m <= k
  BY <1>1, LeastNumber
<1>3. m \in S
  <2>1. SUFFICES ASSUME m \notin S PROVE FALSE
    OBVIOUS
  <2>2. \A y \in S : y \in Nat /\ y <= m /\ y # m
    BY <1>2, <2>1
  <2>3. m \in Nat /\ m # 0
    <3>1. PICK y \in S : TRUE
      OBVIOUS
    <3>2. QED
      BY <2>2, <3>1
  <2>4. m - 1 \in T
    BY <2>2, <2>3
  <2>5. QED
    BY <1>2, <2>3, <2>4
<1>4. \E x \in S : \A y \in S : x >= y
  BY <1>2, <1>3
<1>5. QED
  BY <1>4 DEF Max

(* f is a recursive function over 0..n: step gives what becomes of a number  *)
(* and of the value before it.                                             *)
Recursion(f, n, a, step) ==
  f = [i \in 0..n |-> IF i = 0 THEN a ELSE step[<<i, f[i - 1]>>]]

(* There is such a function, *)
LEMMA RecursionExists ==
  ASSUME NEW n \in Nat, NEW R, NEW a \in R, NEW step \in [(1..n) \X R -> R]
  PROVE  \E f \in [0..n -> R] : Recursion(f, n, a, step)
<1> DEFINE Upto(m, f) == /\ f \in [0..n -> R]
                         /\ f[0] = a
                         /\ \A i \in 1..m : f[i] = step[<<i, f[i - 1]>>]
           Some(m) == \E f : Upto(m, f)
           T == {m \in 0..n : ~ Some(m)}
<1>1. T = {}
  <2>1. SUFFICES ASSUME T # {} PROVE FALSE
    OBVIOUS
  <2>2. T \subseteq Nat
    OBVIOUS
  <2>3. PICK m \in T : \A k \in T : m <= k
    BY <2>1, <2>2, LeastNumber
  <2>4. m # 0
    <3>1. Upto(0, [i \in 0..n |-> a])
      OBVIOUS
    <3>2. QED
      BY <2>3, <3>1
  <2>5. PICK f : Upto(m - 1, f)
    <3> HIDE DEF Some
    <3>1. m - 1 \in 0..n /\ ~(m <= m - 1)
      BY <2>3, <2>4
    <3>2. Some(m - 1)
      BY <2>3, <3>1
    <3>3. QED
      BY <3>2 DEF Some
  <2> DEFINE g == [f EXCEPT ![m] = step[<<m, f[m - 1]>>]]
  <2>6. m \in 1..n /\ m - 1 \in 0..n /\ f[m - 1] \in R
    BY <2>3, <2>4, <2>5
  <2>7. step[<<m, f[m - 1]>>] \in R
    BY <2>6
  <2>8. g \in [0..n -> R] /\ g[m] = step[<<m, f[m - 1]>>]
    BY <2>5, <2>6, <2>7
  <2>9. \A i \in 0..n : i # m => g[i] = f[i]
    BY <2>5
  <2>10. \A i \in 1..m : g[i] = step[<<i, g[i - 1]>>]
    <3>1. TAKE i \in 1..m
    <3>2. i - 1 \in 0..n /\ i - 1 # m /\ i \in 0..n
      BY <2>6
    <3>3. g[i - 1] = f[i - 1]
      BY <2>9, <3>2
    <3>4. CASE i = m
      BY <2>8, <3>3, <3>4
    <3>5. CASE i # m
      <4>1. i \in 1..m - 1
        BY <2>6, <3>5
      <4>2. f[i] = step[<<i, f[i - 1]>>]
        BY <2>5, <4>1
      <4>3. QED
        BY <2>9, <3>2, <3>3, <3>5, <4>2
    <3>6. QED
      BY <3>4, <3>5
  <2>11. g[0] = a
    BY <2>4, <2>5, <2>9
  <2>12. Upto(m, g)
    BY <2>8, <2>10, <2>11
  <2>13. QED
    BY <2>3, <2>12
<1>2. PICK f : Upto(n, f)
  <2> HIDE DEF Some
  <2>1. n \in 0..n
    OBVIOUS
  <2>2. Some(n)
    BY <1>1, <2>1
  <2>3. QED
    BY <2>2 DEF Some
<1>3. \A i \in 0..n : f[i] = IF i = 0 THEN a ELSE step[<<i, f[i - 1]>>]
  BY <1>2
<1>4. f \in [0..n -> R]
  BY <1>2
<1>5. Recursion(f, n, a, step)
  BY <1>3, <1>4 DEF Recursion
<1>6. QED
  BY <1>4, <1>5

(* and every such function keeps to the values its steps lead to.           *)
LEMMA RecursionType ==
  ASSUME NEW n \in Nat, NEW R, NEW a \in R, NEW step \in [(1..n) \X R -> R], NEW g,
         Recursion(g, n, a, step)
  PROVE  g \in [0..n -> R]
<1> DEFINE T == {i \in 0..n : g[i] \notin R}
<1>1. \A i \in 0..n : g[i] = IF i = 0 THEN a ELSE step[<<i, g[i - 1]>>]
  BY DEF Recursion
<1>2. SUFFICES ASSUME T # {} PROVE FALSE
  <2>1. g = [i \in 0..n |-> g[i]]
    BY DEF Recursion
  <2>2. (\A i \in 0..n : g[i] \in R) => [i \in 0..n |-> g[i]] \in [0..n -> R]
    OBVIOUS
  <2>3. QED
    BY <2>1, <2>2
<1>3. T \subseteq Nat
  OBVIOUS
<1>4. PICK m \in T : \A k \in T : m <= k
  BY <1>2, <1>3, LeastNumber
<1>5. m # 0
  BY <1>1, <1>4
<1>6. m \in 1..n /\ m - 1 \in 0..n /\ m - 1 \notin T
  BY <1>4, <1>5
<1>7. g[m - 1] \in R
  BY <1>6
<1>8. g[m] \in R
  BY <1>1, <1>6, <1>7
<1>9. QED
  BY <1>4, <1>8
=============================================================================
