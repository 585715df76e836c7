----------------------------- MODULE MCLifecycle -----------------------------
(***************************************************************************)
(* Instances of Lifecycle: four drafts, of which two can be loaded, and two*)
(* servers, one with a path in its base_url.                               *)
(***************************************************************************)
EXTENDS Lifecycle

Galaxy == [host |-> "ng", path |-> <<>>]
Hub == [host |-> "hub", path |-> <<"automation-hub">>]

Rule == [oidc_issuer |-> "gh", claims |-> "repo", servers |-> {"ng"},
         allowed_collections |-> {"a.x"}]
Document(servers, rules) ==
    [settings |-> [audience |-> "us"],
     oidc_issuers |-> [gh |-> [issuer_url |-> "u", jwks_url |-> "j"]],
     servers |-> servers, authorization_rules |-> rules]
Token(v) == [base_url |-> Galaxy, token |-> v]
Secret == [client_id |-> "HUB_ID", client_secret |-> "HUB_SECRET", auth_url |-> "sso"]

\* A token; a token and an oauth_secret, with no rules yet; the name of the
\* token's variable in braces; no credentials.
MCDraft ==
    <<Document([ng |-> Token("NG_TOKEN")], <<Rule>>),
      Document([ng |-> Token("NG_TOKEN"),
                hub |-> [base_url |-> Hub, oauth_secret |-> Secret]], <<>>),
      Document([ng |-> Token("${NG_TOKEN}")], <<Rule>>),
      Document([ng |-> [base_url |-> Galaxy]], <<Rule>>)>>

\* A server has the same base_url in each.
ASSUME DraftsAgreed == Agreed([ng |-> Galaxy, hub |-> Hub])

MCBare == [v \in {"NG_TOKEN", "HUB_ID", "HUB_SECRET", "${NG_TOKEN}"} |->
              IF v = "${NG_TOKEN}" THEN "NG_TOKEN" ELSE v]

\* A server whose base_url has a path names its tasks relative to it.
MCForm == [ng |-> {"root", "relative", "absolute", "none"}, hub |-> {"relative"}]
\* It names them from the root.
RootForm == [ng |-> {"root"}, hub |-> {"root"}]
=============================================================================
