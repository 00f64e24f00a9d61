------------------------------ MODULE LeastNumber ------------------------------
(* A set of natural numbers has a least one: what the other proofs do by     *)
(* induction, they do by looking for the least number for which a fact fails.*)
EXTENDS Naturals, WellFoundedInduction, TLAPS

\* Less-than on the naturals as a set of pairs, as the library's theorems take it.
Below == {p \in Nat \X Nat : p[1] < p[2]}

\* A nonempty set of naturals has a least element.
LEMMA LeastNatural ==
  ASSUME NEW T \in SUBSET Nat, T # {}
  PROVE  \E x \in T : \A y \in T : x <= y
<1>1. OpToRel(<, Nat) = Below
  BY Zenon DEF OpToRel, Below
<1>2. IsWellFoundedOn(Below, Nat)
  BY <1>1, NatLessThanWellFounded, Zenon
<1>3. PICK x \in T : \A y \in T : ~ (<<y, x>> \in Below)
  BY <1>2, WFMin
<1>4. \A y \in T : ~ (y < x)
  BY <1>3 DEF Below
<1> QED BY <1>4
===============================================================================
