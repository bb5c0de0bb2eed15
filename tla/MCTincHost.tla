----------------------------- MODULE MCTincHost -----------------------------
(* Instances of TincHost for TLC. *)
EXTENDS TincHost, TLC

(* The code compares no key with another. *)
MCSymmetry == Permutations(Keys)
=============================================================================
