-------------------------------- MODULE Induction --------------------------------
(***************************************************************************)
(* Induction over numbers for the proof modules, stated of sets: a fact    *)
(* about every number is the set of the numbers that have it.  From it the *)
(* functions the modules define by recursion exist.                        *)
(***************************************************************************)
EXTENDS Integers, WellFoundedInduction, TLAPS

(* A set of naturals has a least element: "<" is well-founded.             *)
LEMMA LeastNumber ==
    ASSUME NEW T, T \subseteq Nat, T # {}
    PROVE  \E x \in T : \A y \in T : x <= y
<1> DEFINE R == {p \in Nat \X Nat : p[1] < p[2]}
<1>1. IsWellFoundedOn(R, Nat)
  <2>1. OpToRel(<, Nat) = R
    BY DEF OpToRel
  <2> QED
    BY <2>1, NatLessThanWellFounded
<1> HIDE DEF R
<1>2. PICK x \in T : \A y \in T : ~(<<y, x>> \in R)
  BY <1>1, WFMin
<1>3. ASSUME NEW y \in T PROVE x <= y
  <2>1. x \in Nat /\ y \in Nat
    OBVIOUS
  <2>2. ~(y < x)
    BY <1>2, <2>1 DEF R
  <2> QED
    BY <2>1, <2>2
<1> QED
  BY <1>3

(* One that is bounded has a greatest.                                     *)
LEMMA GreatestNumber ==
    ASSUME NEW T, T \subseteq Nat, T # {}, NEW b \in Nat, \A x \in T : x <= b
    PROVE  \E x \in T : \A y \in T : y <= x
<1> DEFINE U == {n \in Nat : b - n \in T}
<1>1. ASSUME NEW x \in T PROVE b - x \in U
  <2>1. x \in Nat /\ b - x \in Nat /\ b - (b - x) = x
    OBVIOUS
  <2> QED
    BY <2>1
<1>2. PICK n \in U : \A m \in U : n <= m
  <2>1. U # {}
    BY <1>1
  <2> QED
    BY <2>1, LeastNumber
<1>3. ASSUME NEW y \in T PROVE y <= b - n
  <2>1. n <= b - y /\ y \in Nat /\ n \in Nat
    BY <1>1, <1>2
  <2> QED
    BY <2>1
<1> QED
  BY <1>2, <1>3

(* What holds of 0, and of a number's successor with the number, holds of  *)
(* every number.                                                           *)
LEMMA NumberInduction ==
    ASSUME NEW S, 0 \in S, \A n \in Nat : n \in S => n + 1 \in S
    PROVE  Nat \subseteq S
<1> SUFFICES ASSUME ~(Nat \subseteq S) PROVE FALSE
  OBVIOUS
<1> DEFINE T == {n \in Nat : n \notin S}
<1>1. PICK x \in T : \A y \in T : x <= y
  BY LeastNumber
<1>2. x # 0 /\ x \in Nat
  OBVIOUS
<1>3. x - 1 \in Nat /\ x - 1 \in S
  BY <1>1, <1>2
<1>4. (x - 1) + 1 = x
  BY <1>2
<1> QED
  BY <1>1, <1>3, <1>4

(* From a number up to another.                                            *)
LEMMA RangeInduction ==
    ASSUME NEW a \in Nat, NEW b \in Nat, NEW S, a \in S,
           \A j \in a .. b : j \in S /\ j < b => j + 1 \in S
    PROVE  a .. b \subseteq S
<1> SUFFICES ASSUME ~(a .. b \subseteq S) PROVE FALSE
  OBVIOUS
<1> DEFINE T == {n \in a .. b : n \notin S}
<1>1. T \subseteq Nat /\ T # {}
  OBVIOUS
<1>2. PICK x \in T : \A y \in T : x <= y
  BY <1>1, LeastNumber
<1>3. x # a /\ x \in a .. b /\ x \notin S
  OBVIOUS
<1>4. x - 1 \in a .. b /\ x - 1 < b /\ x - 1 < x /\ x - 1 \in Nat /\ (x - 1) + 1 = x
  BY <1>3
<1>5. x - 1 \in S
  <2>1. ~(x <= x - 1)
    BY <1>3, <1>4
  <2>2. x - 1 \notin T
    BY <1>2, <2>1
  <2> QED
    BY <1>4, <2>2
<1> QED
  BY <1>3, <1>4, <1>5

(* From the end down: what holds of a place when it holds of all behind    *)
(* it.                                                                     *)
Behind(j, n) == (j + 1) .. n

LEMMA DownwardInduction ==
    ASSUME NEW n \in Nat, NEW S,
           \A j \in 1 .. n : Behind(j, n) \subseteq S => j \in S
    PROVE  1 .. n \subseteq S
<1> SUFFICES ASSUME ~(1 .. n \subseteq S) PROVE FALSE
  OBVIOUS
<1> DEFINE T == {j \in 1 .. n : j \notin S}
<1>1. T \subseteq Nat /\ T # {} /\ \A x \in T : x <= n
  OBVIOUS
<1>2. PICK x \in T : \A y \in T : y <= x
  BY <1>1, GreatestNumber
<1>3. x \in 1 .. n /\ x \notin S
  OBVIOUS
<1>4. ASSUME NEW y \in Behind(x, n) PROVE y \in S
  <2>1. y \in 1 .. n /\ ~(y <= x)
    BY <1>3 DEF Behind
  <2>2. y \notin T
    BY <1>2, <2>1
  <2> QED
    BY <2>1, <2>2
<1> QED
  BY <1>3, <1>4

-----------------------------------------------------------------------------
(* A value for each place that is made of the ones behind it.              *)
DependsOnLater(G, n, D) ==
    \A i \in 1 .. n : \A f, g \in [1 .. n -> D] :
        /\ G[<<i, f>>] \in D
        /\ (\A j \in (i + 1) .. n : f[j] = g[j]) => G[<<i, f>>] = G[<<i, g>>]

LEMMA BackwardRecursion ==
    ASSUME NEW n \in Nat, NEW D, NEW d \in D, NEW G, DependsOnLater(G, n, D)
    PROVE  \E f \in [1 .. n -> D] : \A i \in 1 .. n : f[i] = G[<<i, f>>]
<1> DEFINE Holds(f, k) == \A i \in 1 .. n : n - k < i => f[i] = G[<<i, f>>]
           S == {k \in Nat : k <= n => \E f \in [1 .. n -> D] : Holds(f, k)}
<1>1. 0 \in S
  <2>1. [i \in 1 .. n |-> d] \in [1 .. n -> D]
    OBVIOUS
  <2>2. Holds([i \in 1 .. n |-> d], 0)
    OBVIOUS
  <2> HIDE DEF Holds
  <2> QED
    BY <2>1, <2>2
<1>2. ASSUME NEW k \in Nat, k \in S, k + 1 <= n
      PROVE  \E f \in [1 .. n -> D] : Holds(f, k + 1)
  <2>1. PICK f \in [1 .. n -> D] : Holds(f, k)
    BY <1>2
  <2>2. PICK i \in 1 .. n : i = n - k
    BY <1>2
  <2>3. PICK g \in [1 .. n -> D] : g = [f EXCEPT ![i] = G[<<i, f>>]]
    BY DEF DependsOnLater
  <2>4. ASSUME NEW j \in 1 .. n, i <= j PROVE G[<<j, g>>] = G[<<j, f>>]
    <3>1. \A m \in (j + 1) .. n : g[m] = f[m]
      BY <2>3, <2>4
    <3> QED
      BY <3>1 DEF DependsOnLater
  <2>5. ASSUME NEW j \in 1 .. n, n - (k + 1) < j PROVE g[j] = G[<<j, g>>]
    <3>1. i <= j
      BY <2>2, <2>5
    <3>2. CASE j = i
      BY <2>3, <2>4, <3>1, <3>2
    <3>3. CASE j # i
      <4>1. g[j] = f[j] /\ n - k < j
        BY <2>2, <2>3, <3>1, <3>3
      <4>2. f[j] = G[<<j, f>>]
        BY <2>1, <4>1
      <4> QED
        BY <2>4, <3>1, <4>1, <4>2
    <3> QED
      BY <3>2, <3>3
  <2>6. Holds(g, k + 1)
    BY <2>5
  <2> HIDE DEF Holds
  <2> QED
    BY <2>6
<1>3. \A k \in Nat : k \in S => k + 1 \in S
  <2> HIDE DEF Holds
  <2> SUFFICES ASSUME NEW k \in Nat, k \in S PROVE k + 1 \in S
    OBVIOUS
  <2>1. k + 1 \in Nat
    OBVIOUS
  <2>2. k + 1 <= n => \E f \in [1 .. n -> D] : Holds(f, k + 1)
    BY <1>2
  <2> QED
    BY <2>1, <2>2
<1>4. n \in S
  <2> HIDE DEF S
  <2> QED
    BY <1>1, <1>3, NumberInduction
<1>5. PICK f \in [1 .. n -> D] : Holds(f, n)
  BY <1>4
<1>6. ASSUME NEW i \in 1 .. n PROVE f[i] = G[<<i, f>>]
  <2>1. n - n < i
    OBVIOUS
  <2> QED
    BY <1>5, <2>1
<1> QED
  BY <1>6

(* A first value, and each next one made of the one before.                *)
StepsIn(Step, n, D) == Step \in [(1 .. n) \X D -> D]

GoesOn(f, base, Step, n) == f[0] = base /\ \A i \in 1 .. n : f[i] = Step[<<i, f[i - 1]>>]

LEMMA ForwardRecursion ==
    ASSUME NEW n \in Nat, NEW D, NEW base \in D, NEW Step, StepsIn(Step, n, D)
    PROVE  \E f \in [0 .. n -> D] : GoesOn(f, base, Step, n)
<1> DEFINE Holds(f, k) == f[0] = base /\ \A i \in 1 .. n : i <= k => f[i] = Step[<<i, f[i - 1]>>]
           S == {k \in Nat : k <= n => \E f \in [0 .. n -> D] : Holds(f, k)}
<1>1. 0 \in S
  <2>1. [i \in 0 .. n |-> base] \in [0 .. n -> D]
    OBVIOUS
  <2>2. Holds([i \in 0 .. n |-> base], 0)
    OBVIOUS
  <2> HIDE DEF Holds
  <2> QED
    BY <2>1, <2>2
<1>2. ASSUME NEW k \in Nat, k \in S, k + 1 <= n
      PROVE  \E f \in [0 .. n -> D] : Holds(f, k + 1)
  <2>1. PICK f \in [0 .. n -> D] : Holds(f, k)
    BY <1>2
  <2>2. PICK i \in 1 .. n : i = k + 1
    BY <1>2
  <2>3. PICK v \in D : v = Step[<<i, f[i - 1]>>]
    <3>1. f[i - 1] \in D
      OBVIOUS
    <3> QED
      BY <3>1 DEF StepsIn
  <2>4. PICK g \in [0 .. n -> D] : g = [f EXCEPT ![i] = v]
    OBVIOUS
  <2>5. ASSUME NEW j \in 1 .. n, j <= k + 1 PROVE g[j] = Step[<<j, g[j - 1]>>]
    <3>1. g[j - 1] = f[j - 1]
      BY <2>2, <2>4, <2>5
    <3>2. CASE j = i
      <4>1. g[j] = v
        BY <2>4, <3>2
      <4> QED
        BY <2>3, <3>1, <3>2, <4>1
    <3>3. CASE j # i
      <4>1. g[j] = f[j] /\ j <= k
        BY <2>2, <2>4, <2>5, <3>3
      <4> QED
        BY <2>1, <3>1, <4>1
    <3> QED
      BY <3>2, <3>3
  <2>6. g[0] = base
    BY <2>1, <2>4
  <2>7. Holds(g, k + 1)
    BY <2>5, <2>6
  <2> HIDE DEF Holds
  <2> QED
    BY <2>7
<1>3. \A k \in Nat : k \in S => k + 1 \in S
  <2> HIDE DEF Holds
  <2> SUFFICES ASSUME NEW k \in Nat, k \in S PROVE k + 1 \in S
    OBVIOUS
  <2>1. k + 1 \in Nat
    OBVIOUS
  <2>2. k + 1 <= n => \E f \in [0 .. n -> D] : Holds(f, k + 1)
    BY <1>2
  <2> QED
    BY <2>1, <2>2
<1>4. n \in S
  <2> HIDE DEF S
  <2> QED
    BY <1>1, <1>3, NumberInduction
<1>5. PICK f \in [0 .. n -> D] : Holds(f, n)
  BY <1>4
<1>6. \A i \in 1 .. n : i <= n
  OBVIOUS
<1> QED
  BY <1>5, <1>6 DEF GoesOn

(* Two functions that start and go on alike are the same.                  *)
Agree(f, g, n) == f[0] = g[0] /\ \A i \in 1 .. n : f[i - 1] = g[i - 1] => f[i] = g[i]

LEMMA SameRecursion ==
    ASSUME NEW n \in Nat, NEW f, NEW g, Agree(f, g, n)
    PROVE  \A i \in 0 .. n : f[i] = g[i]
<1> DEFINE S == {i \in 0 .. n : f[i] = g[i]}
<1>1. 0 \in S
  BY DEF Agree
<1>2. ASSUME NEW i \in 0 .. n, i \in S, i < n PROVE i + 1 \in S
  <2>1. i + 1 \in 1 .. n /\ i + 1 \in 0 .. n /\ (i + 1) - 1 = i
    BY <1>2
  <2> QED
    BY <1>2, <2>1 DEF Agree
<1>3. 0 .. n \subseteq S
  <2> HIDE DEF S
  <2>1. 0 \in Nat
    OBVIOUS
  <2> QED
    BY <1>1, <1>2, <2>1, RangeInduction
<1> QED
  BY <1>3
=============================================================================
