--------------------------- MODULE Configuration ---------------------------
(***************************************************************************)
(* config.py: what load_config makes of a configuration file and of the    *)
(* environment.                                                            *)
(*                                                                         *)
(* A YAML mapping is a function on the keys that have a value Python takes *)
(* for true: the code asks "if not data.get(key)", so that a key left out, *)
(* null, "" and {} are the same to it.  Only authorization_rules is asked  *)
(* to be there and may be empty; it is a sequence.  Values are of the type *)
(* the code expects.  env is the set of the variables that are set, and    *)
(* not to an empty string.                                                 *)
(*                                                                         *)
(* The first problem met is raised.  Which of several servers' or issuers' *)
(* it is depends on their order in the file, which the model leaves open.  *)
(***************************************************************************)
EXTENDS Integers, Sequences

\* Where: a section, or the id or number of one of its items and the section.
Problem(where, key, why) == [where |-> where, key |-> key, why |-> why]

Missing(where, m, key) ==
    IF key \in DOMAIN m THEN <<>> ELSE <<Problem(where, key, "missing")>>

\* A variable that the mapping names is not set.
Unset(where, m, key, env) ==
    IF key \in DOMAIN m /\ m[key] \notin env
    THEN <<Problem(where, key, "unset")>> ELSE <<>>

OAuthSecret(where, m, env) ==
    Missing(where, m, "client_id") \o Unset(where, m, "client_id", env)
    \o Missing(where, m, "client_secret") \o Unset(where, m, "client_secret", env)
    \o Missing(where, m, "auth_url")

\* Mutation: that there is neither credential goes unnoticed.
CredentialsNotBoth(where, m) ==
    IF {"token", "oauth_secret"} \subseteq DOMAIN m
    THEN <<Problem(where, "token", "both")>> ELSE <<>>

Credentials(where, m) ==
    LET given == {"token", "oauth_secret"} \cap DOMAIN m
    IN  IF given = {"token", "oauth_secret"} THEN <<Problem(where, "token", "both")>>
        ELSE IF given = {} THEN <<Problem(where, "token", "neither")>> ELSE <<>>

Server(where, m, env) ==
    Missing(where, m, "base_url") \o Unset(where, m, "token", env)
    \o (IF "oauth_secret" \in DOMAIN m
        THEN OAuthSecret(where, m.oauth_secret, env) ELSE <<>>)
    \o Credentials(where, m)

OIDCIssuer(where, m) ==
    Missing(where, m, "issuer_url") \o Missing(where, m, "jwks_url")

AuthorizationRule(where, m) ==
    Missing(where, m, "oidc_issuer") \o Missing(where, m, "claims")
    \o Missing(where, m, "servers") \o Missing(where, m, "allowed_collections")

First(problems) == IF problems = <<>> THEN {} ELSE {Head(problems)}
Section(doc, key) == IF key \in DOMAIN doc THEN doc[key] ELSE <<>>

\* The problem of the first of the stages that has one.
Earliest(stages) ==
    LET raised == {n \in DOMAIN stages : stages[n] # {}}
    IN  IF raised = {} THEN {}
        ELSE stages[CHOOSE n \in raised : \A m \in raised : n <= m]

\* Config.from_dict: the problem that may be raised, {} when the file loads.
Problems(doc, env) ==
    LET issuers == Section(doc, "oidc_issuers")
        servers == Section(doc, "servers")
        rules == Section(doc, "authorization_rules")
    IN  Earliest(
          <<First(Missing("config", doc, "settings")),
            First(Missing("settings", Section(doc, "settings"), "audience")),
            First(Missing("config", doc, "oidc_issuers")),
            UNION {First(OIDCIssuer(<<"oidc_issuers", i>>, issuers[i])) :
                      i \in DOMAIN issuers},
            First(Missing("config", doc, "servers")),
            UNION {First(Server(<<"servers", s>>, servers[s], env)) :
                      s \in DOMAIN servers},
            First(Missing("config", doc, "authorization_rules")),
            Earliest([k \in DOMAIN rules |->
                First(AuthorizationRule(<<"authorization_rules", k>>, rules[k]))])>>)

Loads(doc, env) == Problems(doc, env) = {}

\* get_server_token of proxy.py: a server of a loaded configuration.
AuthType(server) ==
    IF "token" \in DOMAIN server THEN "Token"
    ELSE IF "oauth_secret" \in DOMAIN server THEN "Bearer" ELSE "ValueError"
=============================================================================
