------------------------------- MODULE Gateway -------------------------------
(***************************************************************************)
(* The request path of main.py: publish_collection and proxy_get_request,  *)
(* from a request's arrival to the answer its client gets.                 *)
(*                                                                         *)
(* A request runs alone until it awaits: the JWKS (unless cached), the     *)
(* upload's body, an OAuth token (unless the server has a static token or  *)
(* the cache a usable one), the Galaxy server's response.  Each action is  *)
(* the whole stretch between two awaits.                                   *)
(*                                                                         *)
(* Key sets come from KeySource, which JWKSCache implements.  Of           *)
(* OAuthTokenCache this module keeps what decides whose credentials are    *)
(* used: the key an entry is found under is the id of the Server object,   *)
(* so objects and the lifespans they live in are modelled; an entry may be *)
(* too old for any lookup.  Rules are Authorization's, uploads are         *)
(* Collection's.  The Galaxy servers and httpx are external.               *)
(***************************************************************************)
EXTENDS Integers, Sequences, FiniteSets

CONSTANTS
    Request,      \* identities of client requests
    Input,        \* the requests a client may send, as a sequence
    Issuers,      \* the configured OIDC issuers, in order: [id, issuer_url]
    Keys,         \* Keys[v]: the keys, in order, of an issuer's document v
    Server,       \* configured Galaxy servers
    OAuth,        \* those with an oauth_secret; the others have a token
    Rules,        \* the authorization rules, in order
    Audience,     \* settings.audience
    GalaxyBody,   \* kinds of response bodies Galaxy servers produce
    PostRedirect, \* whether a Galaxy server may answer a POST with a 302
    Id,           \* values of id() for Server objects
    TTL, MaxClock, MaxVersion,
    MaxLifespan   \* how often the application starts in one process

ASSUME GatewayAssumption ==
    /\ OAuth \subseteq Server
    /\ GalaxyBody \subseteq {"text", "undecodable"}
    /\ PostRedirect \in BOOLEAN
    /\ TTL \in Nat \ {0} /\ MaxLifespan \in Nat \ {0}

IsList(s) == Len(s) \in Nat /\ DOMAIN s = 1 .. Len(s)

\* What is searched for a first match has an order.
ASSUME OrderAssumption ==
    /\ IsList(Issuers) /\ IsList(Rules)
    /\ \A n \in 1 .. Len(Input) :
          LET parts == Input[n].upload.parts
          IN  IsList(parts) /\ \A k \in DOMAIN parts : IsList(parts[k].payload.members)

VARIABLES
    clock,    \* time, shared with KeySource
    born,     \* publication times of the issuers' documents
    served,   \* the JWKS calls of the requests, by request
    ids,      \* id() of the Server objects with an oauth_secret
    lifespan, \* how often the application has started
    oauth,    \* oauth_cache._cache: the server whose secret earned the token
    req,      \* requests that have arrived, and where they are
    wire,     \* requests whose Galaxy request is under way
    galaxy    \* requests Galaxy has received: what it did with them

vars == <<clock, born, served, ids, lifespan, oauth, req, wire, galaxy>>

Auth == INSTANCE Authorization
Coll == INSTANCE Collection

\* Key sets are asked for, and cached, by issuer_url.
Urls == {Issuers[n].issuer_url : n \in DOMAIN Issuers}
KeySource == INSTANCE KeySource WITH Call <- Request, Issuer <- Urls

Put(d, k, x) == [j \in DOMAIN d \cup {k} |-> IF j = k THEN x ELSE d[j]]
Injective(f) == \A a, b \in DOMAIN f : f[a] = f[b] => a = b

\* The record of a request holds the position of its input in Input.
\* An input is [method, server, scheme, token, upload], scheme being that of the
\* Authorization header, in lower case, or "none" when it has not two words.  A
\* token is [iss, key, kid, aud, exp, claims]: signed with key, naming it in its
\* header when kid; iss is "none" when it cannot be decoded or has none.  All
\* keys are of one kind that PyJWT supports, nbf and iat never object, and a
\* GET comes without a body.
NoReply == 0

Awaiting == {"keys", "body", "token", "sent", "replied"}
InFlight(r) == r \in DOMAIN req /\ req[r].st \in Awaiting

Arrived(n) == [in |-> n, st |-> "new", at |-> clock, checked |-> -1,
               rule |-> Auth!NoRule, cred |-> "none", reply |-> NoReply,
               body |-> "none", by |-> "none", code |-> 0]
In(rec) == Input[rec.in]

\* What _extract_collection makes of each input's upload.
Extracted == [n \in 1 .. Len(Input) |-> Coll!Extract(Input[n].upload)]

\* The record of a request that is answered by the proxy itself.
Refused(rec, code) == [rec EXCEPT !.st = "done", !.by = "gateway", !.code = code]

Init ==
    /\ KeySource!Init
    /\ ids \in {f \in [OAuth -> Id] : Injective(f)}
    /\ lifespan = 1
    /\ oauth = [i \in {} |-> {}]
    /\ req = [r \in {} |-> {}]
    /\ wire = {}
    /\ galaxy = [r \in {} |-> {}]
-----------------------------------------------------------------------------
\* extract_token_from_header, decode_jwt_unverified and the search for the
\* issuer: what is enough to ask for keys.
Acceptable(in) == in.scheme = "token" /\ in.token.iss \in Urls

\* The first configured issuer with the token's issuer_url: another one with
\* the same URL is never found.
IssuerId(url) ==
    LET N == {n \in DOMAIN Issuers : Issuers[n].issuer_url = url}
    IN  Issuers[CHOOSE n \in N : \A m \in N : n <= m].id

\* Mutation: the claims of decode_jwt_unverified are taken.
Unverified(token, doc) == TRUE
\* Mutation: the first key of the document is used for every token.
FirstKey(token, doc) == Keys[doc.ver][1] = token.key

\* validate_jwt picks the key that kid names or, without kid, the first one of
\* the document, if there is one; the signature verifies when that is the
\* signing key.
SignatureOk(token, doc) ==
    \E n \in DOMAIN Keys[doc.ver] :
        (token.kid \/ n = 1) /\ Keys[doc.ver][n] = token.key

TokenOk(token, doc) ==
    SignatureOk(token, doc) /\ token.aud = Audience /\ token.exp > clock

RuleOf(in) == Auth!FindRule(Rules, in.token.claims, IssuerId(in.token.iss))

\* _validate_auth_token from the moment the JWKS is there, without an await:
\* the request's record when it is refused, or allowed on by a rule.
Judged(rec, doc) ==
    LET in == In(rec)
        k == RuleOf(in)
        seen == [rec EXCEPT !.checked = clock]
    IN  IF ~TokenOk(in.token, doc) THEN Refused(seen, 401)
        ELSE IF k = Auth!NoRule \/ ~Auth!ServerAllowed(Rules[k], in.server)
             THEN Refused(seen, 403)
             ELSE [seen EXCEPT !.st = "allowed", !.rule = k]

\* The request is sent.  A GET's body is read only here, so that here a client
\* which has left is noticed, and nothing is sent.
Send(r, rec, cred) ==
    \/ /\ req' = Put(req, r, [rec EXCEPT !.st = "sent", !.cred = cred])
       /\ wire' = wire \cup {r}
    \/ /\ In(rec).method = "GET"
       /\ req' = Put(req, r, [rec EXCEPT !.st = "gone"])
       /\ UNCHANGED wire

\* _proxy_to_server up to its first await: the server's token, static, cached
\* or (when it is not cached, or too old) to be exchanged.
Proxy(r, rec) ==
    LET s == In(rec).server
    IN  /\ UNCHANGED oauth
        /\ \/ s \notin OAuth /\ Send(r, rec, s)
           \/ s \in OAuth /\ ids[s] \in DOMAIN oauth /\ Send(r, rec, oauth[ids[s]])
           \/ /\ s \in OAuth
              /\ req' = Put(req, r, [rec EXCEPT !.st = "token"])
              /\ UNCHANGED wire

\* What follows the verdict on the token, up to the next await.
Continue(r, rec) ==
    \/ /\ rec.st = "done"
       /\ req' = Put(req, r, rec)
       /\ UNCHANGED <<wire, oauth>>
    \/ /\ rec.st = "allowed" /\ In(rec).method = "POST"
       /\ req' = Put(req, r, [rec EXCEPT !.st = "body"])
       /\ UNCHANGED <<wire, oauth>>
    \/ rec.st = "allowed" /\ In(rec).method = "GET" /\ Proxy(r, rec)

\* The server is looked up before the token: an unknown one is a 404 to anyone.
RefuseAtOnce(r, n) ==
    /\ r \notin DOMAIN req
    /\ \/ /\ Input[n].server \notin Server
          /\ req' = Put(req, r, Refused(Arrived(n), 404))
       \/ /\ Input[n].server \in Server /\ ~Acceptable(Input[n])
          /\ req' = Put(req, r, Refused(Arrived(n), 401))
    /\ UNCHANGED <<clock, born, served, ids, lifespan, oauth, wire, galaxy>>

ArriveKeysCached(r, n) ==
    /\ r \notin DOMAIN req
    /\ Input[n].server \in Server /\ Acceptable(Input[n])
    /\ KeySource!AnswerAtOnce(r, Input[n].token.iss)
    /\ Continue(r, Judged(Arrived(n), served'[r].doc))
    /\ UNCHANGED <<ids, lifespan, galaxy>>

ArriveKeysMissing(r, n) ==
    /\ r \notin DOMAIN req
    /\ Input[n].server \in Server /\ Acceptable(Input[n])
    /\ KeySource!Ask(r, Input[n].token.iss)
    /\ req' = Put(req, r, [Arrived(n) EXCEPT !.st = "keys"])
    /\ UNCHANGED <<ids, lifespan, oauth, wire, galaxy>>

KeysFetched(r) ==
    /\ InFlight(r) /\ req[r].st = "keys"
    /\ KeySource!Answer(r)
    /\ Continue(r, Judged(req[r], served'[r].doc))
    /\ UNCHANGED <<ids, lifespan, galaxy>>

\* Any failure to get the JWKS is reported as a failure to authenticate.
KeysFailed(r) ==
    /\ InFlight(r) /\ req[r].st = "keys"
    /\ KeySource!Refuse(r)
    /\ req' = Put(req, r, Refused(req[r], 401))
    /\ UNCHANGED <<ids, lifespan, oauth, wire, galaxy>>

\* Mutation: the upload is forwarded before it is looked at.
BodyForwardedFirst(r) ==
    /\ InFlight(r) /\ req[r].st = "body"
    /\ IF Extracted[req[r].in].code = 400
       THEN req' = Put(req, r, Refused(req[r], 400)) /\ wire' = wire \cup {r}
            /\ UNCHANGED oauth
       ELSE Proxy(r, req[r])
    /\ UNCHANGED <<clock, born, served, ids, lifespan, galaxy>>

\* The upload has arrived: the tarball, its manifest, the collection's name.
BodyRead(r) ==
    /\ InFlight(r) /\ req[r].st = "body"
    /\ LET found == Extracted[req[r].in]
           allowed == Auth!CollectionAllowed(Rules[req[r].rule], found.collection)
           refuse(code) == /\ req' = Put(req, r, Refused(req[r], code))
                           /\ UNCHANGED <<wire, oauth>>
       IN  \/ found.code # 200 /\ refuse(found.code)
           \/ found.code = 200 /\ ~allowed /\ refuse(403)
           \/ found.code = 200 /\ allowed /\ Proxy(r, req[r])
    /\ UNCHANGED <<clock, born, served, ids, lifespan, galaxy>>

\* The client goes away while it uploads: nobody is left to answer.
Disconnect(r) ==
    /\ InFlight(r) /\ req[r].st = "body"
    /\ req' = Put(req, r, [req[r] EXCEPT !.st = "gone"])
    /\ UNCHANGED <<clock, born, served, ids, lifespan, oauth, wire, galaxy>>

TokenFetched(r) ==
    /\ InFlight(r) /\ req[r].st = "token"
    /\ LET s == In(req[r]).server
       IN  oauth' = Put(oauth, ids[s], s) /\ Send(r, req[r], s)
    /\ UNCHANGED <<clock, born, served, ids, lifespan, galaxy>>

\* Mutation: that the exchange failed is remembered.
TokenFailedCached(r) ==
    /\ InFlight(r) /\ req[r].st = "token"
    /\ req' = Put(req, r, Refused(req[r], 500))
    /\ oauth' = Put(oauth, ids[In(req[r]).server], "none")
    /\ UNCHANGED <<clock, born, served, ids, lifespan, wire, galaxy>>

TokenFailed(r) ==
    /\ InFlight(r) /\ req[r].st = "token"
    /\ req' = Put(req, r, Refused(req[r], 500))
    /\ UNCHANGED <<clock, born, served, ids, lifespan, oauth, wire, galaxy>>
-----------------------------------------------------------------------------
\* The Galaxy server receives the request and did what it records; the proxy
\* gets the reply if it still waits.
Receive(r, did, code, body) ==
    /\ r \in wire
    /\ wire' = wire \ {r}
    /\ galaxy' = Put(galaxy, r, did)
    /\ req' = IF req[r].st = "sent"
              THEN Put(req, r, [req[r] EXCEPT !.st = "replied",
                                           !.reply = code, !.body = body])
              ELSE req
    /\ UNCHANGED <<clock, born, served, ids, lifespan, oauth>>

\* The collections in an upload as Galaxy and its clients know it: those of the
\* manifests in the form's field "file".
Elements(seq) == {seq[n] : n \in DOMAIN seq}
Uploaded(upload) ==
    LET files == {p \in Elements(upload.parts) : p.field = "file"}
        members == UNION {Elements(p.payload.members) : p \in files}
    IN  {m.collection : m \in {n \in members : n.name = Coll!ManifestName}}

\* It publishes an upload that comes with its own credentials, answers a GET,
\* or refuses.  A redirect that keeps the method is not distinguished from no
\* redirect; a 302 makes httpx GET the new place, and nothing is published.
GalaxyAccepts(r) ==
    /\ r \in wire /\ In(req[r]).method = "POST" /\ req[r].cred = In(req[r]).server
    /\ \E b \in GalaxyBody : Receive(r, "published", 202, b)

GalaxyReads(r) ==
    /\ r \in wire /\ req[r].cred = In(req[r]).server
    /\ In(req[r]).method = "GET" \/ PostRedirect
    /\ Receive(r, "read", 200, "text")

GalaxyRefuses(r) ==
    /\ r \in wire
    /\ \E b \in GalaxyBody : Receive(r, "refused", 400, b)

\* Mutation: without a timeout a proxy waits for Galaxy.
TimeoutReading(r) ==
    /\ InFlight(r) /\ req[r].st = "replied"
    /\ req' = Put(req, r, Refused(req[r], 502))
    /\ UNCHANGED <<clock, born, served, ids, lifespan, oauth, wire, galaxy>>

\* The request cannot be sent, or no reply comes in time.  What is on the wire
\* may still arrive.
Timeout(r) ==
    /\ InFlight(r) /\ req[r].st \in {"sent", "replied"}
    /\ req' = Put(req, r, Refused(req[r], 502))
    /\ \/ UNCHANGED wire
       \/ wire' = wire \ {r}
    /\ UNCHANGED <<clock, born, served, ids, lifespan, oauth, galaxy>>

\* Mutation: an answer is repeated as a request when the reply is an error.
AnswerRetry(r) ==
    /\ InFlight(r) /\ req[r].st = "replied"
    /\ req' = Put(req, r, [req[r] EXCEPT !.st = "sent"])
    /\ wire' = wire \cup {r}
    /\ UNCHANGED <<clock, born, served, ids, lifespan, oauth, galaxy>>

\* Mutation: the client is told that what it uploaded was taken.
AnswerAccepted(r) ==
    /\ InFlight(r) /\ req[r].st = "replied"
    /\ req' = Put(req, r, [req[r] EXCEPT !.st = "done", !.by = "galaxy", !.code = 202])
    /\ UNCHANGED <<clock, born, served, ids, lifespan, oauth, wire, galaxy>>

\* The reply is passed on.  _rewrite_task_urls decodes the body of every reply
\* to a publish; an undecodable one raises what it does not catch.
Answer(r) ==
    /\ InFlight(r) /\ req[r].st = "replied"
    /\ req' = Put(req, r,
            IF In(req[r]).method = "POST" /\ req[r].body = "undecodable"
            THEN Refused(req[r], 500)
            ELSE [req[r] EXCEPT !.st = "done", !.by = "galaxy", !.code = req[r].reply])
    /\ UNCHANGED <<clock, born, served, ids, lifespan, oauth, wire, galaxy>>
-----------------------------------------------------------------------------
Time ==
    /\ KeySource!Tick \/ \E u \in Urls : KeySource!Publish(u)
    /\ UNCHANGED <<ids, lifespan, oauth, req, wire, galaxy>>

\* Mutation: the configuration is dropped at shutdown.
RestartFreed ==
    /\ lifespan < MaxLifespan
    /\ \A r \in Request : ~InFlight(r)
    /\ lifespan' = lifespan + 1
    /\ ids' \in {f \in [OAuth -> Id] : Injective(f)}
    /\ UNCHANGED <<clock, born, served, oauth, req, wire, galaxy>>

\* The application shuts down, when its requests have ended, and starts again
\* in the same process: the configuration is loaded anew, while app_config
\* still holds the old one, and the module's caches stay as they are.
Restart ==
    /\ lifespan < MaxLifespan
    /\ \A r \in Request : ~InFlight(r)
    /\ lifespan' = lifespan + 1
    /\ ids' \in {f \in [OAuth -> Id \ {ids[s] : s \in OAuth}] : Injective(f)}
    /\ UNCHANGED <<clock, born, served, oauth, req, wire, galaxy>>

\* All requests have been sent and have ended.
Over ==
    /\ \A r \in Request : r \in DOMAIN req /\ ~InFlight(r)
    /\ UNCHANGED vars

Next ==
    \/ Time
    \/ Restart
    \/ \E r \in Request :
          \/ \E n \in 1 .. Len(Input) :
                RefuseAtOnce(r, n) \/ ArriveKeysCached(r, n) \/ ArriveKeysMissing(r, n)
          \/ KeysFetched(r) \/ KeysFailed(r)
          \/ BodyRead(r) \/ Disconnect(r)
          \/ TokenFetched(r) \/ TokenFailed(r)
          \/ GalaxyAccepts(r) \/ GalaxyReads(r) \/ GalaxyRefuses(r)
          \/ Timeout(r) \/ Answer(r)
    \/ Over

Spec == Init /\ [][Next]_vars

\* The proxy resumes what has come, or what httpx has given up waiting for; the
\* client sends its body or goes away.  Galaxy need never answer.
FairSpec ==
    /\ Spec
    /\ \A r \in Request :
          /\ WF_vars(KeysFetched(r) \/ KeysFailed(r))
          /\ WF_vars(BodyRead(r) \/ Disconnect(r))
          /\ WF_vars(TokenFetched(r) \/ TokenFailed(r))
          /\ WF_vars(Timeout(r) \/ Answer(r))
-----------------------------------------------------------------------------
Record == [in : 1 .. Len(Input), st : Awaiting \cup {"done", "gone"}, at : Nat,
           checked : Nat \cup {-1}, rule : 0 .. Len(Rules),
           cred : Server \cup {"none"}, reply : Nat,
           body : GalaxyBody \cup {"none", "text"},
           by : {"none", "gateway", "galaxy"}, code : Nat]

\* The types of the state; only servers with an oauth_secret have cache entries.
TypeOK ==
    /\ ids \in [OAuth -> Id] /\ lifespan \in 1 .. MaxLifespan
    /\ DOMAIN oauth \subseteq Id /\ oauth \in [DOMAIN oauth -> OAuth]
    /\ DOMAIN req \subseteq Request /\ req \in [DOMAIN req -> Record]
    /\ wire \subseteq DOMAIN req
    /\ DOMAIN galaxy \subseteq DOMAIN req
    /\ galaxy \in [DOMAIN galaxy -> {"published", "read", "refused"}]

Forwarded(r) == r \in wire \/ r \in DOMAIN galaxy

\* A rule applies to tokens of its issuer, unless an earlier one has its URL.
Applies(k, token) ==
    \E n \in DOMAIN Issuers :
        /\ Issuers[n].issuer_url = token.iss
        /\ \A m \in 1 .. n - 1 : Issuers[m].issuer_url # token.iss
        /\ Auth!RuleMatches(Rules[k], token.claims, Issuers[n].id)

\* The collections in the parts that are marked as files.
Offered(upload) ==
    LET files == {p \in Elements(upload.parts) : p.file /\ p.payload.kind # "empty"}
        members == UNION {Elements(p.payload.members) : p \in files}
    IN  {m.collection : m \in {n \in members : n.name = Coll!ManifestName}}

\* An upload leaves no doubt about which part is the file, whatever else comes
\* with it, when the first part with content that is marked as a file is the
\* form's only "file", and all manifests in it name one collection.
Unambiguous(upload) ==
    /\ \E k \in DOMAIN upload.parts :
          /\ upload.parts[k].field = "file"
          /\ upload.parts[k].file /\ upload.parts[k].payload.kind # "empty"
          /\ \A j \in DOMAIN upload.parts \ {k} :
                LET part == upload.parts[j]
                IN  /\ part.field # "file"
                    /\ part.file /\ part.payload.kind # "empty" => k < j
    /\ \A c, d \in Uploaded(upload) : c = d

\* Whatever reaches a Galaxy server, or is on its way there, was allowed by the
\* first rule that matches its token: that rule lists the server and, for an
\* upload, a collection in one of its files; and that is the very collection
\* that Galaxy finds in it, if the upload leaves no doubt about its file; and
\* the token had not expired when it was checked, after the key set was there.
ForwardedIsAuthorized ==
    \A r \in DOMAIN req : Forwarded(r) =>
        LET in == In(req[r])
        IN  /\ \E k \in DOMAIN Rules :
                  /\ Applies(k, in.token) /\ \A j \in 1 .. k - 1 : ~Applies(j, in.token)
                  /\ in.server \in Rules[k].servers
                  /\ in.method = "POST" =>
                        /\ Offered(in.upload) \cap Rules[k].allowed_collections # {}
                        /\ Unambiguous(in.upload) =>
                              /\ Uploaded(in.upload) # {}
                              /\ Uploaded(in.upload) \subseteq Rules[k].allowed_collections
            /\ in.token.exp > req[r].checked

\* The key that signed a forwarded request's token was in a document that its
\* issuer still published less than TTL before the request arrived.
ForwardedKeyWasPublished ==
    \A r \in DOMAIN req : Forwarded(r) =>
        \E d \in KeySource!Docs(In(req[r]).token.iss) :
            /\ KeySource!Recent(d, req[r].at)
            /\ \E n \in DOMAIN Keys[d.ver] : Keys[d.ver][n] = In(req[r]).token.key

\* A token in force, for the right audience, whose header names its key is
\* refused only when that key was missing from a document published before the
\* check, and less than TTL before the request arrived, or when the JWKS could
\* not be had: no other publisher's rotation and no order of keys locks it out.
RefusalExplained ==
    \A r \in DOMAIN req :
        LET q == req[r]
            token == In(q).token
        IN  /\ q.by = "gateway" /\ q.code = 401 /\ q.checked >= 0
            /\ token.kid /\ token.aud = Audience /\ token.exp > q.checked
            => \E d \in KeySource!Docs(token.iss) :
                  /\ KeySource!Recent(d, q.at)
                  /\ born[token.iss][d.ver] <= q.checked
                  /\ \A n \in DOMAIN Keys[d.ver] : Keys[d.ver][n] # token.key

\* An upload as the clients of Galaxy build it: the part of the field "file",
\* and no other with content, is marked as a file; it is a tarball with one
\* manifest that says all it has to.
Proper(upload) ==
    /\ upload.multipart
    /\ \E k \in DOMAIN upload.parts :
          LET file == upload.parts[k]
              manifests == {m \in Elements(file.payload.members) :
                                m.name = Coll!ManifestName}
          IN  /\ file.field = "file" /\ file.file /\ file.payload.kind = "tarball"
              /\ \A j \in DOMAIN upload.parts \ {k} :
                    LET part == upload.parts[j]
                    IN  part.field # "file" /\ (part.file => part.payload.kind = "empty")
              /\ \E m \in manifests :
                    /\ manifests = {m}
                    /\ m.read = "content" /\ m.json = "object" /\ m.has = Coll!Fields

\* Such an upload is not refused for its form, in whatever order its parts and
\* the members of its tarball come; and one refused after the rule was found
\* holds a collection that the rule does not list.
UploadRefusalExplained ==
    \A r \in DOMAIN req :
        LET q == req[r]
            upload == In(q).upload
        IN  q.by = "gateway" /\ In(q).method = "POST" /\ Proper(upload) =>
                /\ q.code # 400
                /\ q.code = 403 /\ q.rule # Auth!NoRule =>
                      Uploaded(upload) \cap Rules[q.rule].allowed_collections = {}

\* A client that is told by the proxy itself that its request failed, with any
\* code but 502, can rely on it: Galaxy has not got it and never will.
OwnErrorMeansUntouched ==
    \A r \in DOMAIN req :
        req[r].by = "gateway" /\ req[r].code # 502 => ~Forwarded(r)

\* A client that gets Galaxy's answer to an upload learns from its code whether
\* the collection was published.
CodeTellsPublished ==
    \A r \in DOMAIN req :
        req[r].by = "galaxy" /\ In(req[r]).method = "POST" =>
            (req[r].code \in 200 .. 299 <=> galaxy[r] = "published")

\* The client gets the status of every reply that came in time, also when the
\* body of the reply cannot be parsed ("If we can't parse or modify, return
\* original", main.py line 117).
ReplyPassedOn ==
    \A r \in DOMAIN req :
        req[r].st = "done" /\ req[r].reply # NoReply /\ req[r].code # 502 =>
            req[r].by = "galaxy" /\ req[r].code = req[r].reply

\* A server gets its own credentials and no other server's.
OwnCredentials ==
    \A r \in DOMAIN req : Forwarded(r) => req[r].cred = In(req[r]).server

\* A request reaches Galaxy at most once, whatever the proxy is told or not
\* told about it; and what its client is answered is final.
ReachesGalaxyOnce ==
    [][/\ \A r \in DOMAIN galaxy : r \notin wire' /\ galaxy'[r] = galaxy[r]
       /\ \A r \in DOMAIN req : req[r].st = "done" => req'[r] = req[r]]_vars

\* Every request ends, even if JWKS, token endpoint and Galaxy are all silent.
EveryRequestEnds == \A r \in Request : InFlight(r) ~> ~InFlight(r)
=============================================================================
