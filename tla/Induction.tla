------------------------------- MODULE Induction -------------------------------
(***************************************************************************)
(* Induction on natural numbers, with a set where a rule would have a      *)
(* predicate as its parameter, and what it gives: definitions by recursion *)
(* define something.  The proofs about recursive functions use these.      *)
(***************************************************************************)
EXTENDS Integers, FiniteSetTheorems, TLAPS

(* Every set of natural numbers has a least element: the intervals up to   *)
(* its elements are finite sets, which inclusion orders well.              *)
THEOREM LeastNumber ==
  ASSUME NEW S \in SUBSET Nat, S # {}
  PROVE  \E x \in S : \A y \in S : x <= y
<1> DEFINE Below == {0 .. n : n \in S}
<1>1. Below \subseteq FiniteSubsetsOf(Nat) /\ Below # {}
  <2>1. \A n \in S : IsFiniteSet(0 .. n) /\ 0 .. n \subseteq Nat
    BY FS_Interval
  <2> QED
    BY <2>1 DEF FiniteSubsetsOf
<1>2. IsWellFoundedOn(StrictSubsetOrdering(Nat), FiniteSubsetsOf(Nat))
  BY FS_StrictSubsetOrderingWellFounded
<1>3. PICK I \in Below : \A J \in Below : <<J, I>> \notin StrictSubsetOrdering(Nat)
  <2> HIDE DEF Below
  <2> QED
    BY <1>1, <1>2, WFMin
<1>4. PICK x \in S : I = 0 .. x
  OBVIOUS
<1>5. ASSUME NEW y \in S, y < x PROVE FALSE
  <2>1. 0 .. y \in Below /\ 0 .. y \subseteq 0 .. x /\ x \in 0 .. x /\ x \notin 0 .. y
    BY <1>5
  <2>2. <<0 .. y, 0 .. x>> \in StrictSubsetOrdering(Nat)
    BY <2>1 DEF StrictSubsetOrdering
  <2> QED
    BY <1>3, <1>4, <2>1, <2>2
<1> QED
  BY <1>5

(* A set that holds of 0, and of n + 1 whenever it holds of n.             *)
THEOREM InductionOnSet ==
  ASSUME NEW S, 0 \in S, \A n \in Nat : n \in S => n + 1 \in S
  PROVE  \A n \in Nat : n \in S
<1> SUFFICES ASSUME NEW n \in Nat, n \notin S PROVE FALSE
  OBVIOUS
<1> DEFINE Missing == Nat \ S
<1>1. PICK x \in Missing : \A y \in Missing : x <= y
  <2>1. Missing \in SUBSET Nat /\ Missing # {}
    OBVIOUS
  <2> HIDE DEF Missing
  <2> QED
    BY <2>1, LeastNumber
<1>2. x # 0 /\ x - 1 \in Nat /\ x - 1 \notin Missing
  BY <1>1
<1> QED
  BY <1>1, <1>2

(* An equation that gives f[m], and f[i] from f[i - 1] by the function     *)
(* step[i], has a solution on m .. n.                                      *)
Solves(f, m, n, V, a, step) ==
  f \in [m .. n -> V] /\ f[m] = a /\ \A i \in m + 1 .. n : f[i] = step[i][f[i - 1]]

THEOREM Recursion ==
  ASSUME NEW m \in Int, NEW n \in Int, m <= n, NEW V, NEW a \in V,
         NEW step, \A i \in m + 1 .. n : step[i] \in [V -> V]
  PROVE  \E f : Solves(f, m, n, V, a, step)
<1> DEFINE S == {k \in Nat : m + k <= n => \E f : Solves(f, m, m + k, V, a, step)}
<1>1. 0 \in S
  <2>1. Solves([i \in m .. m |-> a], m, m, V, a, step)
    BY DEF Solves
  <2> QED
    BY <2>1
<1>2. ASSUME NEW k \in Nat, k \in S PROVE k + 1 \in S
  <2>1. SUFFICES ASSUME m + (k + 1) <= n
                 PROVE  \E f : Solves(f, m, m + (k + 1), V, a, step)
    OBVIOUS
  <2>2. PICK f : Solves(f, m, m + k, V, a, step)
    BY <1>2, <2>1
  <2> DEFINE last == m + (k + 1)
             g == [i \in m .. last |-> IF i = last THEN step[last][f[m + k]] ELSE f[i]]
  <2>3. last \in m + 1 .. n /\ step[last] \in [V -> V] /\ f[m + k] \in V
    BY <2>1, <2>2 DEF Solves
  <2>4. g \in [m .. last -> V]
    BY <2>2, <2>3 DEF Solves
  <2>5. g[m] = a
    BY <2>2 DEF Solves
  <2>6. ASSUME NEW i \in m + 1 .. last PROVE g[i] = step[i][g[i - 1]]
    <3>1. g[i - 1] = f[i - 1]
      OBVIOUS
    <3>2. CASE i = last
      BY <3>1, <3>2
    <3>3. CASE i # last
      <4>1. i \in m + 1 .. m + k /\ g[i] = f[i]
        BY <3>3
      <4> QED
        BY <2>2, <3>1, <4>1 DEF Solves
    <3> QED
      BY <3>2, <3>3
  <2>7. Solves(g, m, last, V, a, step)
    BY <2>4, <2>5, <2>6 DEF Solves
  <2> QED
    BY <2>7
<1>3. \A k \in Nat : k \in S
  <2> HIDE DEF S
  <2> QED
    BY <1>1, <1>2, InductionOnSet
<1>4. n - m \in Nat /\ m + (n - m) = n
  OBVIOUS
<1> QED
  BY <1>3, <1>4
=============================================================================
