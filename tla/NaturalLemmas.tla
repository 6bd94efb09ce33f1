--------------------------- MODULE NaturalLemmas ---------------------------
(***************************************************************************)
(* Facts about numbers that the proofs of several components need: the     *)
(* least and the greatest number of a set, induction in the form of a set, *)
(* and the functions that a recursion on numbers defines.                  *)
(***************************************************************************)
EXTENDS Naturals, WellFoundedInduction, TLAPS

(* A set of numbers that is not empty has a least one.                       *)
LEMMA LeastNumber ==
  ASSUME NEW T \in SUBSET Nat, T # {}
  PROVE  \E x \in T : \A y \in T : ~(y < x)
<1>1. \E x \in T : \A y \in T : ~(<<y, x>> \in OpToRel(<, Nat))
  BY NatLessThanWellFounded, WFMin, Zenon
<1>2. PICK x \in T : \A y \in T : ~(<<y, x>> \in OpToRel(<, Nat))
  BY <1>1
<1> QED
  BY <1>2, Zenon DEF OpToRel

(* A bounded one has a greatest.                                             *)
LEMMA GreatestNumber ==
  ASSUME NEW T \in SUBSET Nat, T # {},
         NEW bound \in Nat, \A x \in T : x <= bound
  PROVE  \E x \in T : \A y \in T : y <= x
<1> DEFINE below == {n \in Nat : bound - n \in T /\ n <= bound}
<1>1. PICK x \in T : TRUE
  OBVIOUS
<1>2. bound - x \in below
  BY <1>1
<1>3. PICK n \in below : \A m \in below : ~(m < n)
  <2>1. below \in SUBSET Nat /\ below # {}
    BY <1>2
  <2> HIDE DEF below
  <2> QED  BY <2>1, LeastNumber
<1>4. \A y \in T : bound - y \in below
  OBVIOUS
<1>5. \A y \in T : y <= bound - n
  BY <1>3, <1>4
<1> QED
  BY <1>3, <1>5

(* Induction: a set of numbers with zero and every successor is all of them. *)
LEMMA NatSet ==
  ASSUME NEW T \in SUBSET Nat, 0 \in T, \A n \in T : n + 1 \in T
  PROVE  T = Nat
<1> SUFFICES ASSUME Nat \ T # {} PROVE FALSE
  OBVIOUS
<1>1. PICK x \in Nat \ T : \A y \in Nat \ T : ~(y < x)
  BY LeastNumber, Nat \ T \in SUBSET Nat
<1>2. x # 0 /\ x - 1 \in Nat
  BY <1>1
<1>3. x - 1 \in T
  BY <1>1, <1>2
<1>4. (x - 1) + 1 \in T
  BY <1>3
<1> QED
  BY <1>1, <1>4

(* f is defined on D by a recursion that starts with first.                  *)
Iterates(f, D, first, step) ==
  f = [n \in D |-> IF n = 0 THEN first ELSE step[n][f[n - 1]]]

(* What it is at a number.                                                   *)
LEMMA IteratesAt ==
  ASSUME NEW f, NEW D, NEW first, NEW step, Iterates(f, D, first, step),
         NEW n \in D
  PROVE  f[n] = IF n = 0 THEN first ELSE step[n][f[n - 1]]
BY DEF Iterates

(* A first value and a step define such a function on the numbers up to any ... *)
LEMMA RecursionUpTo ==
  ASSUME NEW S, NEW first \in S, NEW step \in [Nat -> [S -> S]], NEW m \in Nat
  PROVE  \E f \in [0..m -> S] : Iterates(f, 0..m, first, step)
<1> DEFINE T == {k \in Nat : \E f \in [0..k -> S] : Iterates(f, 0..k, first, step)}
<1>1. 0 \in T
  <2> DEFINE f == [n \in 0..0 |-> first]
  <2>1. f \in [0..0 -> S] /\ Iterates(f, 0..0, first, step)
    BY DEF Iterates
  <2> QED  BY <2>1
<1>2. ASSUME NEW k \in Nat, NEW f \in [0..k -> S], Iterates(f, 0..k, first, step)
      PROVE  \E g \in [0..(k + 1) -> S] : Iterates(g, 0..(k + 1), first, step)
  <2> DEFINE g == [n \in 0..(k + 1) |-> IF n = k + 1 THEN step[k + 1][f[k]] ELSE f[n]]
  <2>1. step[k + 1][f[k]] \in S
    <3>1. step[k + 1] \in [S -> S] /\ f[k] \in S
      OBVIOUS
    <3> QED  BY <3>1
  <2>2. g \in [0..(k + 1) -> S]
    BY <2>1
  <2>3. ASSUME NEW n \in 0..(k + 1)
        PROVE  g[n] = IF n = 0 THEN first ELSE step[n][g[n - 1]]
    <3>1. CASE n = k + 1
      <4>1. g[n] = step[n][f[k]] /\ n # 0 /\ n - 1 = k /\ g[k] = f[k]
        BY <3>1
      <4> HIDE DEF g
      <4> QED  BY <4>1
    <3>2. CASE n # k + 1
      <4>1. n \in 0..k /\ g[n] = f[n] /\ (n # 0 => g[n - 1] = f[n - 1])
        BY <3>2
      <4>2. f[n] = IF n = 0 THEN first ELSE step[n][f[n - 1]]
        BY <1>2, <4>1 DEF Iterates
      <4> HIDE DEF g
      <4> QED  BY <4>1, <4>2
    <3> QED  BY <3>1, <3>2
  <2>4. Iterates(g, 0..(k + 1), first, step)
    <3> HIDE DEF g
    <3> QED  BY <2>2, <2>3 DEF Iterates
  <2> HIDE DEF g
  <2> QED  BY <2>2, <2>4
<1>3. T = Nat
  <2>1. T \in SUBSET Nat
    OBVIOUS
  <2>2. ASSUME NEW k \in T PROVE k + 1 \in T
    <3>1. k \in Nat /\ \E f \in [0..k -> S] : Iterates(f, 0..k, first, step)
      OBVIOUS
    <3>2. \E g \in [0..(k + 1) -> S] : Iterates(g, 0..(k + 1), first, step)
      BY <1>2, <3>1
    <3> QED  BY <3>1, <3>2
  <2> HIDE DEF T
  <2> QED  BY <1>1, <2>1, <2>2, NatSet
<1> QED
  BY <1>3

(* ... and on all of them.                                                   *)
LEMMA Recursion ==
  ASSUME NEW S, NEW first \in S, NEW step \in [Nat -> [S -> S]]
  PROVE  \E f \in [Nat -> S] : Iterates(f, Nat, first, step)
<1> DEFINE Part(k) == CHOOSE f \in [0..k -> S] : Iterates(f, 0..k, first, step)
<1>1. ASSUME NEW k \in Nat
      PROVE  Part(k) \in [0..k -> S] /\ Iterates(Part(k), 0..k, first, step)
  BY RecursionUpTo
<1>2. ASSUME NEW k \in Nat, NEW n \in 0..k
      PROVE  Part(k)[n] = IF n = 0 THEN first ELSE step[n][Part(k)[n - 1]]
  <2> HIDE DEF Part
  <2> QED  BY <1>1, IteratesAt
<1> HIDE DEF Part
<1>3. ASSUME NEW k \in Nat, NEW n \in 0..k
      PROVE  Part(k)[n] = Part(n)[n]
  <2> DEFINE T == {i \in Nat : \A j \in Nat : i <= j => Part(j)[i] = Part(i)[i]}
  <2>1. 0 \in T
    <3>1. \A j \in Nat : Part(j)[0] = first
      BY <1>2
    <3> QED  BY <3>1
  <2>2. ASSUME NEW i \in T PROVE i + 1 \in T
    <3> SUFFICES ASSUME NEW j \in Nat, i + 1 <= j
                 PROVE  Part(j)[i + 1] = Part(i + 1)[i + 1]
      OBVIOUS
    <3>1. i \in Nat /\ i + 1 \in Nat /\ i + 1 \in 0..j /\ i + 1 \in 0..(i + 1)
          /\ i + 1 # 0 /\ (i + 1) - 1 = i
      OBVIOUS
    <3>2. Part(j)[i + 1] = step[i + 1][Part(j)[i]]
      BY <1>2, <3>1
    <3>3. Part(i + 1)[i + 1] = step[i + 1][Part(i + 1)[i]]
      BY <1>2, <3>1
    <3>4. Part(j)[i] = Part(i)[i] /\ Part(i + 1)[i] = Part(i)[i]
      BY <3>1
    <3> QED  BY <3>2, <3>3, <3>4
  <2>3. T = Nat
    <3>1. T \in SUBSET Nat
      OBVIOUS
    <3> HIDE DEF T
    <3> QED  BY <2>1, <2>2, <3>1, NatSet
  <2> QED  BY <2>3
<1> DEFINE whole == [n \in Nat |-> Part(n)[n]]
<1>4. whole \in [Nat -> S]
  <2>1. \A n \in Nat : Part(n)[n] \in S
    BY <1>1
  <2> QED  BY <2>1
<1>5. ASSUME NEW n \in Nat
      PROVE  whole[n] = IF n = 0 THEN first ELSE step[n][whole[n - 1]]
  <2>1. Part(n)[n] = IF n = 0 THEN first ELSE step[n][Part(n)[n - 1]]
    BY <1>2
  <2>2. n # 0 => n - 1 \in Nat /\ Part(n)[n - 1] = Part(n - 1)[n - 1]
    BY <1>3
  <2> QED  BY <2>1, <2>2
<1>6. Iterates(whole, Nat, first, step)
  <2> HIDE DEF whole
  <2> QED  BY <1>4, <1>5 DEF Iterates
<1> QED
  <2> HIDE DEF whole
  <2> QED  BY <1>4, <1>6
=============================================================================
