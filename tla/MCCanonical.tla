----------------------------- MODULE MCCanonical -----------------------------
(* An instance of Canonical for TLC: q is asked for, a and b are others. *)
EXTENDS Canonical, TLC

MCSymmetry == Permutations(Party \ {Queried})

==============================================================================
