---------------------------- MODULE Authorization ----------------------------
(***************************************************************************)
(* authorization.py: which rule applies to a token, and what it allows.    *)
(*                                                                         *)
(* A rule's claims map a claim name to a pattern, here the set of the      *)
(* values fnmatch lets it match.  A rule is a record                       *)
(*   [oidc_issuer, claims, servers, allowed_collections]                   *)
(* and a collection is known by its full name, namespace.name.             *)
(***************************************************************************)
EXTENDS Integers, Sequences, FiniteSets

NoRule == 0

\* All of the rule's claims are present in the token and match; the ones the
\* rule does not name are free.
RuleMatches(rule, claims, issuer) ==
    /\ rule.oidc_issuer = issuer
    /\ \A n \in DOMAIN rule.claims :
          n \in DOMAIN claims /\ claims[n] \in rule.claims[n]

Matching(rules, claims, issuer) ==
    {k \in 1 .. Len(rules) : RuleMatches(rules[k], claims, issuer)}

\* Mutation: the last matching rule wins.
FindLastRule(rules, claims, issuer) ==
    LET M == Matching(rules, claims, issuer)
    IN  IF M = {} THEN NoRule ELSE CHOOSE k \in M : \A j \in M : j <= k

\* The position of the first matching rule.
FindRule(rules, claims, issuer) ==
    LET M == Matching(rules, claims, issuer)
    IN  IF M = {} THEN NoRule ELSE CHOOSE k \in M : \A j \in M : k <= j

\* Only the rule found is asked: a later rule that matches too is not.
ServerAllowed(rule, server) == server \in rule.servers

CollectionAllowed(rule, fullname) == fullname \in rule.allowed_collections
=============================================================================
