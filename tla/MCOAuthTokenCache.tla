-------------------------- MODULE MCOAuthTokenCache --------------------------
(* Model-checking instances of OAuthTokenCache. *)
EXTENDS OAuthTokenCache, TLC

Symmetry == Permutations(Call) \cup Permutations(Server)
=============================================================================
