----------------------------- MODULE Recursion ------------------------------
(***************************************************************************)
(* Induction without operators as parameters: a set of numbers has a least *)
(* element, a set that is closed under successor holds every number, and a *)
(* recursive function along 1 .. n exists and is the only one.             *)
(***************************************************************************)
EXTENDS Integers, WellFoundedInduction, TLAPS

(* Every set of natural numbers that is not empty has a least element.     *)
LEMMA LeastNumber ==
  ASSUME NEW T, T \subseteq Nat, T # {}
  PROVE  \E n \in T : \A m \in T : n <= m
<1>1. PICK n \in T : \A m \in T : ~(<<m, n>> \in OpToRel(<, Nat))
  BY NatLessThanWellFounded, WFMin
<1>2. ASSUME NEW m \in T PROVE n <= m
  <2>1. n \in Nat /\ m \in Nat
    OBVIOUS
  <2>2. m < n => <<m, n>> \in {ss \in Nat \X Nat : ss[1] < ss[2]}
    BY <2>1
  <2>3. ~(m < n)
    BY <1>1, <2>2, Zenon DEF OpToRel
  <2>4. QED
    BY <2>1, <2>3
<1>3. QED
  BY <1>2

(* A set that holds 0 and with every number the next holds them all.       *)
LEMMA InductiveSet ==
  ASSUME NEW S, 0 \in S, \A n \in Nat : n \in S => n + 1 \in S
  PROVE  Nat \subseteq S
<1> SUFFICES ASSUME Nat \ S # {} PROVE FALSE
  OBVIOUS
<1>1. PICK n \in Nat \ S : \A m \in Nat \ S : n <= m
  BY LeastNumber
<1>2. n # 0 /\ n \in Nat
  BY <1>1
<1>3. n - 1 \in Nat /\ ~(n <= n - 1)
  BY <1>2
<1>4. n - 1 \in S
  BY <1>1, <1>3
<1>5. (n - 1) + 1 \in S /\ (n - 1) + 1 = n
  BY <1>2, <1>3, <1>4
<1>6. QED
  BY <1>1, <1>5

(* What g makes of 0 .. n: the start, and each value from the one before.  *)
Solves(g, n, start, step) ==
  g[0] = start /\ \A k \in 1 .. n : g[k] = step[<<k, g[k - 1]>>]

(* A recursion along 1 .. n has a solution.                                *)
LEMMA RecursionSolved ==
  ASSUME NEW V, NEW n \in Nat, NEW start \in V, NEW step \in [(1 .. n) \X V -> V]
  PROVE  \E g \in [0 .. n -> V] : Solves(g, n, start, step)
<1> DEFINE solved == {m \in Nat : m <= n => \E g \in [0 .. m -> V] : Solves(g, m, start, step)}
<1>1. 0 \in solved
  <2>1. [k \in 0 .. 0 |-> start] \in [0 .. 0 -> V]
    OBVIOUS
  <2>2. Solves([k \in 0 .. 0 |-> start], 0, start, step)
    BY DEF Solves
  <2>3. QED
    BY <2>1, <2>2
<1>2. ASSUME NEW m \in Nat, m \in solved PROVE m + 1 \in solved
  <2> SUFFICES ASSUME m + 1 <= n
               PROVE  \E g \in [0 .. m + 1 -> V] : Solves(g, m + 1, start, step)
    OBVIOUS
  <2>1. m <= n
    OBVIOUS
  <2>2. PICK g \in [0 .. m -> V] : Solves(g, m, start, step)
    BY <1>2, <2>1
  <2> DEFINE f == [k \in 0 .. m + 1 |-> IF k = m + 1 THEN step[<<m + 1, g[m]>>] ELSE g[k]]
  <2>3. m + 1 \in 1 .. n /\ m \in 0 .. m /\ g[m] \in V
    BY <2>2
  <2>4. step[<<m + 1, g[m]>>] \in V
    BY <2>3
  <2>5. f \in [0 .. m + 1 -> V]
    BY <2>4
  <2>6. f[m + 1] = step[<<m + 1, g[m]>>] /\ \A k \in 0 .. m : f[k] = g[k]
    OBVIOUS
  <2> HIDE DEF f
  <2>7. f[0] = start
    BY <2>2, <2>6 DEF Solves
  <2>8. ASSUME NEW k \in 1 .. m + 1 PROVE f[k] = step[<<k, f[k - 1]>>]
    <3>1. CASE k = m + 1
      BY <2>3, <2>6, <3>1
    <3>2. CASE k # m + 1
      <4>1. k \in 1 .. m /\ k \in 0 .. m /\ k - 1 \in 0 .. m
        BY <3>2
      <4>2. QED
        BY <2>2, <2>6, <4>1 DEF Solves
    <3>3. QED
      BY <3>1, <3>2
  <2>9. QED
    BY <2>5, <2>7, <2>8 DEF Solves
<1> HIDE DEF solved
<1>3. n \in solved
  BY <1>1, <1>2, InductiveSet
<1>4. QED
  BY <1>3 DEF solved

(* Two steps that do the same with what f makes of 0 .. n.                 *)
SameSteps(step, more, f, n) == \A k \in 1 .. n : step[<<k, f[k - 1]>>] = more[<<k, f[k - 1]>>]

(* And only one: two solutions agree as far as their steps do.             *)
LEMMA RecursionUnique ==
  ASSUME NEW n \in Nat, NEW start, NEW step, NEW more, NEW f, NEW g,
         Solves(f, n, start, step), Solves(g, n, start, more), SameSteps(step, more, f, n)
  PROVE  \A k \in 0 .. n : f[k] = g[k]
<1> DEFINE agreed == {k \in Nat : k <= n => f[k] = g[k]}
<1>1. 0 \in agreed
  BY DEF Solves
<1>2. ASSUME NEW k \in Nat, k \in agreed PROVE k + 1 \in agreed
  <2> SUFFICES ASSUME k + 1 <= n PROVE f[k + 1] = g[k + 1]
    OBVIOUS
  <2>1. k + 1 \in 1 .. n /\ (k + 1) - 1 = k /\ f[k] = g[k]
    BY <1>2
  <2>2. QED
    BY <2>1 DEF Solves, SameSteps
<1> HIDE DEF agreed
<1>3. Nat \subseteq agreed
  BY <1>1, <1>2, InductiveSet
<1>4. QED
  BY <1>3 DEF agreed
=============================================================================
