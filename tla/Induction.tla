------------------------------- MODULE Induction -------------------------------
(***************************************************************************)
(* Induction on the natural numbers for sets and functions: a set that     *)
(* holds 0 and with n also n + 1 holds them all, a set of numbers has a    *)
(* least one, and a recursive definition on 0..n has a solution.  Proofs   *)
(* about loops over lists use them.                                        *)
(***************************************************************************)
EXTENDS Integers, Sequences, NaturalsInduction, WellFoundedInduction, TLAPS

\* A non-empty set of natural numbers has a least element.
THEOREM LeastNat ==
  ASSUME NEW T, T \subseteq Nat, T # {}
  PROVE  \E n \in T : \A m \in T : n <= m
<1> DEFINE R == OpToRel(<, Nat)
<1>1. IsWellFoundedOn(R, Nat)
  BY NatLessThanWellFounded
<1>2. \E n \in T : \A m \in T : <<m, n>> \notin R
  <2> HIDE DEF R
  <2> QED
    BY <1>1, WFMin
<1>3. PICK n \in T : \A m \in T : <<m, n>> \notin R
  BY <1>2
<1>4. ASSUME NEW m \in T PROVE n <= m
  <2>1. <<m, n>> \notin R
    BY <1>3
  <2>2. ~(m < n)
    BY <2>1 DEF OpToRel
  <2> QED
    BY <2>2
<1> QED
  BY <1>3, <1>4

\* Induction, for a set.
THEOREM SetInduction ==
  ASSUME NEW T, 0 \in T, \A n \in Nat : n \in T => n + 1 \in T
  PROVE  Nat \subseteq T
<1> SUFFICES ASSUME Nat \ T # {} PROVE FALSE
  OBVIOUS
<1>1. PICK n \in Nat \ T : \A m \in Nat \ T : n <= m
  BY LeastNat
<1>2. n # 0 /\ n - 1 \in Nat /\ n - 1 \notin Nat \ T
  BY <1>1
<1> QED
  BY <1>1, <1>2

\* A loop of n turns that starts with the value base and takes a value of V to
\* another in each turn has a value of V after each turn.
THEOREM Recursion ==
  ASSUME NEW V, NEW base \in V, NEW N \in Nat,
         NEW step \in [1..N -> [V -> V]]
  PROVE  \E f \in [0..N -> V] :
           f[0] = base /\ \A n \in 1..N : f[n] = step[n][f[n - 1]]
<1> DEFINE Upto(n) == \E f \in [0..n -> V] :
                        f[0] = base /\ \A m \in 1..n : f[m] = step[m][f[m - 1]]
           T == {n \in Nat : n <= N => Upto(n)}
<1>1. 0 \in T
  <2> DEFINE g == [m \in 0..0 |-> base]
  <2>1. g \in [0..0 -> V] /\ g[0] = base
    OBVIOUS
  <2>2. \A m \in 1..0 : g[m] = step[m][g[m - 1]]
    OBVIOUS
  <2> HIDE DEF g
  <2>3. Upto(0)
    BY <2>1, <2>2
  <2> QED
    BY <2>3
<1>2. ASSUME NEW n \in Nat, n \in T, n + 1 <= N
      PROVE  Upto(n + 1)
  <2>1. PICK f \in [0..n -> V] :
          f[0] = base /\ \A m \in 1..n : f[m] = step[m][f[m - 1]]
    BY <1>2
  <2> DEFINE g == [m \in 0..n + 1 |-> IF m = n + 1 THEN step[n + 1][f[n]]
                                                   ELSE f[m]]
  <2>2. step[n + 1] \in [V -> V] /\ f[n] \in V
    BY <1>2, <2>1
  <2>3. g \in [0..n + 1 -> V]
    <3> SUFFICES ASSUME NEW m \in 0..n + 1 PROVE g[m] \in V
      OBVIOUS
    <3>1. CASE m = n + 1
      BY <2>2, <3>1
    <3>2. CASE m # n + 1
      BY <2>1, <3>2
    <3> QED
      BY <3>1, <3>2
  <2>4. g[0] = base
    BY <2>1
  <2>5. ASSUME NEW m \in 1..n + 1 PROVE g[m] = step[m][g[m - 1]]
    <3>1. CASE m = n + 1
      BY <3>1
    <3>2. CASE m # n + 1
      <4>1. m \in 1..n /\ m - 1 \in 0..n /\ m - 1 # n + 1
        BY <3>2
      <4> QED
        BY <2>1, <3>2, <4>1
    <3> QED
      BY <3>1, <3>2
  <2> HIDE DEF g
  <2> QED
    BY <2>3, <2>4, <2>5
<1>3. Nat \subseteq T
  <2> HIDE DEF Upto
  <2>1. \A n \in Nat : n \in T => n + 1 \in T
    BY <1>2
  <2> HIDE DEF T
  <2> QED
    BY <1>1, <2>1, SetInduction
<1> QED
  BY <1>3
================================================================================
