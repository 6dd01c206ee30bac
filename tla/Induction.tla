----------------------------- MODULE Induction ------------------------------
(***************************************************************************)
(* Induction over the naturals and the stages of a loop, stated for sets: a *)
(* theorem of the library that takes an operator cannot be instantiated by  *)
(* the provers, one that takes a set can.                                   *)
(***************************************************************************)
EXTENDS Naturals, WellFoundedInduction, TLAPS

Below == {p \in Nat \X Nat : p[1] < p[2]}

LEMMA BelowWellFounded == IsWellFoundedOn(Below, Nat)
<1>1. OpToRel(<, Nat) = Below
  BY ZenonT(60) DEF OpToRel, Below
<1> QED BY <1>1, NatLessThanWellFounded

\* A set of numbers that has 0, and with each number the next, has them all.
LEMMA InductiveSet ==
  ASSUME NEW T, 0 \in T, \A n \in Nat : n \in T => n + 1 \in T
  PROVE  Nat \subseteq T
<1> SUFFICES ASSUME Nat \ T # {} PROVE FALSE
  OBVIOUS
<1>1. PICK x \in Nat \ T : \A y \in Nat \ T : <<y, x>> \notin Below
  BY BelowWellFounded, WFMin
<1>2. x # 0 /\ x - 1 \in Nat
  OBVIOUS
<1>3. <<x - 1, x>> \in Below
  BY <1>2 DEF Below
<1>4. x - 1 \in T
  BY <1>1, <1>2, <1>3
<1> QED BY <1>2, <1>4

\* The stages of a loop that starts with s and takes L steps in S.
StagesIn(S, s, L, step) ==
  {g \in [0 .. L -> S] : g[0] = s /\ \A n \in 1 .. L : g[n] = step[<<n, g[n - 1]>>]}

\* There are such stages.
LEMMA StagesExist ==
  ASSUME NEW S, NEW s \in S, NEW L \in Nat, NEW step \in [(1 .. L) \X S -> S]
  PROVE  StagesIn(S, s, L, step) # {}
<1> DEFINE Upto(m) == {g \in [0 .. m -> S] :
                         g[0] = s /\ \A n \in 1 .. m : g[n] = step[<<n, g[n - 1]>>]}
           T == {m \in Nat : m <= L => \E g \in [0 .. m -> S] : g \in Upto(m)}
<1>1. 0 \in T
  <2>1. PICK g : g = [n \in 0 .. 0 |-> s]
    OBVIOUS
  <2>2. g \in [0 .. 0 -> S] /\ g[0] = s /\ \A n \in 1 .. 0 : g[n] = step[<<n, g[n - 1]>>]
    BY <2>1
  <2> QED BY <2>2
<1>2. ASSUME NEW m \in Nat, m \in T PROVE m + 1 \in T
  <2> SUFFICES ASSUME m + 1 <= L PROVE \E g \in [0 .. m + 1 -> S] : g \in Upto(m + 1)
    OBVIOUS
  <2>1. m <= L
    OBVIOUS
  <2>2. PICK g \in [0 .. m -> S] : g \in Upto(m)
    BY <1>2, <2>1
  <2>3. g[m] \in S /\ m + 1 \in 1 .. L
    OBVIOUS
  <2>4. PICK x : x = step[<<m + 1, g[m]>>]
    OBVIOUS
  <2>5. x \in S
    BY <2>3, <2>4
  <2>6. PICK h : h = [n \in 0 .. m + 1 |-> IF n <= m THEN g[n] ELSE x]
    OBVIOUS
  <2>7. h \in [0 .. m + 1 -> S]
    BY <2>5, <2>6
  <2>8. h[0] = s
    BY <2>2, <2>6
  <2>9. ASSUME NEW n \in 1 .. m + 1 PROVE h[n] = step[<<n, h[n - 1]>>]
    <3>1. n - 1 \in 0 .. m /\ h[n - 1] = g[n - 1]
      BY <2>6
    <3>2. CASE n <= m
      <4>1. n \in 1 .. m /\ h[n] = g[n]
        BY <2>6, <3>2
      <4>2. g[n] = step[<<n, g[n - 1]>>]
        BY <2>2, <4>1
      <4> QED BY <3>1, <4>1, <4>2
    <3>3. CASE n = m + 1
      <4>1. n - 1 = m /\ h[n] = x /\ h[n - 1] = g[m]
        BY <2>6, <3>3
      <4> QED BY <2>4, <3>3, <4>1
    <3> QED BY <3>2, <3>3
  <2> QED BY <2>7, <2>8, <2>9
<1> HIDE DEF T
<1>3. L \in T
  BY <1>1, <1>2, InductiveSet
<1> QED BY <1>3 DEF T, StagesIn
=============================================================================
