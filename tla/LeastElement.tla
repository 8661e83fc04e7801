---------------------------- MODULE LeastElement ----------------------------
(***************************************************************************)
(* Induction over the naturals in the form the provers can use: a         *)
(* non-empty set of naturals has a least element.  A proof by induction   *)
(* names the set of counterexamples as a constant, takes its least        *)
(* element and derives a contradiction from the smaller cases.  This is   *)
(* what the facts about the recursive functions of the models (the        *)
(* escapes of embed.py, the duplicate filter of the profiling report)     *)
(* rest on.                                                                *)
(***************************************************************************)
EXTENDS Naturals, WellFoundedInduction, TLAPS

(* Every non-empty set of naturals has a least element: < is well-founded *)
(* on Nat.                                                                 *)
LEMMA NatMin ==
  ASSUME NEW T \in SUBSET Nat, T # {}
  PROVE  \E x \in T : \A y \in T : ~(y < x)
<1>1. IsWellFoundedOn(OpToRel(<, Nat), Nat)
  BY NatLessThanWellFounded, Zenon
<1>2. PICK R : R = OpToRel(<, Nat)
  BY Zenon
<1>3. \E x \in T : \A y \in T : ~(<<y, x>> \in R)
  BY <1>1, <1>2, WFMin, Zenon
<1>. QED
  BY <1>2, <1>3, Zenon DEF OpToRel
=============================================================================
