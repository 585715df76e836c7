----------------------------- MODULE MCJWKSCache -----------------------------
(* Model-checking instances of JWKSCache. *)
EXTENDS JWKSCache, TLC

Symmetry == Permutations(Call) \cup Permutations(Issuer)
=============================================================================
