---------------------------- MODULE GatewayProofs ----------------------------
(***************************************************************************)
(* Proofs about Gateway, for every configuration, every set of inputs, any *)
(* number of requests at once and any rotation of the publishers' keys.    *)
(*                                                                         *)
(* A request keeps what it has learned in local variables across awaits,   *)
(* so the argument is what is true of them at each place (Stage): a rule   *)
(* in hand means that its token was signed by a key of a recent document   *)
(* and had not expired (Granted); from the exchange of credentials on, the *)
(* server and what is uploaded are allowed (Cleared); an error of the      *)
(* proxy's own has grounds and came before sending (Grounds); what Galaxy  *)
(* says agrees with what it did (Says).  None of it depends on the caches: *)
(* what they return is KeySource's promise.  The credentials do: an entry  *)
(* is its server's as long as the ids in use are (OwnTokens).              *)
(***************************************************************************)
EXTENDS Gateway, TLAPS, WellFoundedInduction

\* What the loops that stop at the first match find: every set of positions has
\* a least one, and it is what they choose.
LEMMA Least ==
    ASSUME NEW S \in SUBSET Nat, S # {}
    PROVE  \E n \in S : \A m \in S : n <= m
<1>1. \E n \in S : \A m \in S : ~(<<m, n>> \in OpToRel(<, Nat))
  BY WFMin, NatLessThanWellFounded
<1>2. PICK n \in S : \A m \in S : ~(<<m, n>> \in OpToRel(<, Nat))
  BY <1>1
<1>3. \A m \in S : ~(m < n)
  BY <1>2 DEF OpToRel
<1> QED BY <1>3

LEMMA FirstIsLeast ==
    ASSUME NEW S \in SUBSET Nat, S # {}
    PROVE  Coll!First(S) \in S /\ \A m \in S : Coll!First(S) <= m
BY Least DEF Coll!First

\* find_authorization_rule returns the first rule that matches, and NoRule only
\* when none does.
LEMMA FindRuleFirst ==
    ASSUME NEW rules, Len(rules) \in Nat, NEW claims, NEW issuer,
           NEW k, k = Auth!FindRule(rules, claims, issuer)
    PROVE  /\ k \in 0 .. Len(rules)
           /\ k = Auth!NoRule <=> \A j \in 1 .. Len(rules) :
                                      ~Auth!RuleMatches(rules[j], claims, issuer)
           /\ k # Auth!NoRule =>
                 /\ k \in 1 .. Len(rules)
                 /\ Auth!RuleMatches(rules[k], claims, issuer)
                 /\ \A j \in 1 .. k - 1 : ~Auth!RuleMatches(rules[j], claims, issuer)
<1> DEFINE M == Auth!Matching(rules, claims, issuer)
<1>1. M \in SUBSET (1 .. Len(rules)) /\ M \in SUBSET Nat
  BY DEF Auth!Matching
<1>2. \A j \in 1 .. Len(rules) : j \in M <=> Auth!RuleMatches(rules[j], claims, issuer)
  BY DEF Auth!Matching
<1>3. k = IF M = {} THEN Auth!NoRule ELSE CHOOSE i \in M : \A j \in M : i <= j
  BY DEF Auth!FindRule
<1> HIDE DEF M
<1>4. CASE M = {}
  BY <1>2, <1>3, <1>4 DEF Auth!NoRule
<1>5. CASE M # {}
  <2>1. k \in M /\ \A j \in M : k <= j
    BY <1>1, <1>3, <1>5, Least
  <2>2. k \in 1 .. Len(rules) /\ Auth!RuleMatches(rules[k], claims, issuer)
    BY <2>1, <1>1, <1>2
  <2>3. \A j \in 1 .. k - 1 : j \in 1 .. Len(rules) /\ j \notin M
    BY <2>1, <2>2
  <2> QED BY <2>2, <2>3, <1>2 DEF Auth!NoRule
<1> QED BY <1>4, <1>5

\* A rule that is added at the end changes no verdict that an earlier rule gives.
THEOREM AppendedRule ==
    ASSUME NEW T, NEW rules \in Seq(T), NEW x \in T, NEW claims, NEW issuer,
           Auth!FindRule(rules, claims, issuer) # Auth!NoRule
    PROVE  Auth!FindRule(Append(rules, x), claims, issuer)
              = Auth!FindRule(rules, claims, issuer)
<1> DEFINE k == Auth!FindRule(rules, claims, issuer)
           more == Append(rules, x)
           l == Auth!FindRule(more, claims, issuer)
           Fits(rule) == Auth!RuleMatches(rule, claims, issuer)
<1>1. /\ Len(rules) \in Nat /\ Len(more) = Len(rules) + 1
      /\ \A j \in 1 .. Len(rules) : more[j] = rules[j]
      /\ Len(more) \in Nat
  OBVIOUS
<1>2. /\ k \in 1 .. Len(rules) /\ Fits(rules[k])
      /\ \A j \in 1 .. k - 1 : ~Fits(rules[j])
  BY <1>1, FindRuleFirst
<1> HIDE DEF more
<1>3. /\ l = Auth!NoRule => \A j \in 1 .. Len(more) : ~Fits(more[j])
      /\ l # Auth!NoRule => /\ l \in 1 .. Len(more) /\ Fits(more[l])
                            /\ \A j \in 1 .. l - 1 : ~Fits(more[j])
  BY <1>1, FindRuleFirst
<1> HIDE DEF k, l, Fits
<1>4. k \in 1 .. Len(more) /\ Fits(more[k])
  BY <1>1, <1>2
<1>5. /\ l \in 1 .. Len(more) /\ Fits(more[l])
      /\ \A j \in 1 .. l - 1 : ~Fits(more[j])
  BY <1>3, <1>4
<1>6. ~(k < l)
  BY <1>1, <1>4, <1>5
<1>7. ~(l < k)
  BY <1>1, <1>2, <1>5
<1>8. k = l
  BY <1>1, <1>2, <1>5, <1>6, <1>7
<1> QED BY <1>8 DEF k, l, more

\* The issuer whose rules apply is the first one configured with the token's URL.
LEMMA IssuerFirst ==
    ASSUME NEW url \in Urls
    PROVE  \E n \in DOMAIN Issuers :
              /\ Issuers[n].issuer_url = url /\ IssuerId(url) = Issuers[n].id
              /\ \A m \in 1 .. n - 1 : Issuers[m].issuer_url # url
<1> DEFINE N == {n \in DOMAIN Issuers : Issuers[n].issuer_url = url}
           first == CHOOSE n \in N : \A m \in N : n <= m
<1>1. N \in SUBSET Nat /\ N # {}
  BY OrderAssumption DEF IsList, Urls
<1>2. first \in N /\ \A m \in N : first <= m
  BY <1>1, Least
<1>3. IssuerId(url) = Issuers[first].id
  BY DEF IssuerId
<1> HIDE DEF first
<1>4. \A m \in 1 .. first - 1 : m \in DOMAIN Issuers /\ m \notin N
  BY <1>2, OrderAssumption DEF IsList
<1>5. /\ first \in DOMAIN Issuers /\ Issuers[first].issuer_url = url
      /\ \A m \in 1 .. first - 1 : Issuers[m].issuer_url # url
  BY <1>2, <1>4
<1> HIDE DEF N
<1> QED BY <1>3, <1>5

LEMMA AppliesToIssuer ==
    ASSUME NEW token, token.iss \in Urls, NEW k
    PROVE  Applies(k, token)
              <=> Auth!RuleMatches(Rules[k], token.claims, IssuerId(token.iss))
<1>1. PICK n \in DOMAIN Issuers :
              /\ Issuers[n].issuer_url = token.iss /\ IssuerId(token.iss) = Issuers[n].id
              /\ \A m \in 1 .. n - 1 : Issuers[m].issuer_url # token.iss
  BY IssuerFirst
<1>2. \A m \in DOMAIN Issuers : m # n /\ Issuers[m].issuer_url = token.iss
                                    => \E j \in 1 .. m - 1 : j = n
  BY <1>1, OrderAssumption DEF IsList
<1> QED BY <1>1, <1>2 DEF Applies

\* What becomes of an upload; a collection comes from a manifest in the part
\* that is taken for the file.
LEMMA ExtractCodes ==
    ASSUME NEW upload
    PROVE  Coll!Extract(upload).code \in {200, 400, 500}
<1>1. Coll!Invalid.code = 400 /\ Coll!Escapes.code = 500
  BY DEF Coll!Invalid, Coll!Escapes
<1>2. \A m : Coll!Parsed(m).code \in {200, 400, 500}
  BY <1>1 DEF Coll!Parsed, Coll!Found
<1>3. ASSUME NEW payload PROVE Coll!Manifest(payload).code \in {200, 400, 500}
  <2>1. PICK m : Coll!Manifest(payload) \in {Coll!Invalid, Coll!Escapes, Coll!Parsed(m)}
    BY DEF Coll!Manifest
  <2> QED BY <1>1, <1>2, <2>1
<1>4. PICK payload : Coll!Extract(upload) \in {Coll!Invalid, Coll!Manifest(payload)}
  BY DEF Coll!Extract
<1> QED BY <1>1, <1>3, <1>4

LEMMA ParsedFound ==
    ASSUME NEW m, Coll!Parsed(m).code = 200
    PROVE  Coll!Parsed(m).collection = m.collection
BY DEF Coll!Parsed, Coll!Found, Coll!Invalid, Coll!Escapes

\* An upload, its parts and their members in order.
Ordered(upload) ==
    /\ IsList(upload.parts)
    /\ \A k \in DOMAIN upload.parts : IsList(upload.parts[k].payload.members)

LEMMA ManifestFound ==
    ASSUME NEW payload, IsList(payload.members), Coll!Manifest(payload).code = 200
    PROVE  \E m \in Elements(payload.members) :
              /\ m.name = Coll!ManifestName
              /\ m.collection = Coll!Manifest(payload).collection
<1> DEFINE M == Coll!Manifests(payload)
           m == payload.members[Coll!First(M)]
<1>1. Coll!Invalid.code # 200 /\ Coll!Escapes.code # 200
  BY DEF Coll!Invalid, Coll!Escapes
<1>2. M # {} /\ Coll!Manifest(payload) = Coll!Parsed(m)
  <2>1. Coll!Manifest(payload) \notin {Coll!Invalid, Coll!Escapes}
    BY <1>1
  <2> QED BY <2>1 DEF Coll!Manifest
<1>3. M \in SUBSET Nat
  BY DEF IsList, Coll!Manifests
<1>4. Coll!First(M) \in M
  BY <1>2, <1>3, FirstIsLeast
<1>5. m \in Elements(payload.members) /\ m.name = Coll!ManifestName
  <2>1. PICK k : k = Coll!First(M)
    OBVIOUS
  <2>2. k \in DOMAIN payload.members /\ payload.members[k].name = Coll!ManifestName
    BY <1>4, <2>1 DEF Coll!Manifests
  <2> QED BY <2>1, <2>2 DEF Elements
<1>6. Coll!Parsed(m).code = 200
  BY <1>2
<1> HIDE DEF m
<1>7. m.collection = Coll!Parsed(m).collection
  BY <1>6, ParsedFound
<1> QED BY <1>2, <1>5, <1>7

LEMMA ExtractFound ==
    ASSUME NEW upload, Ordered(upload), Coll!Extract(upload).code = 200
    PROVE  \E p \in Elements(upload.parts) : \E m \in Elements(p.payload.members) :
              /\ p.file /\ p.payload.kind # "empty"
              /\ m.name = Coll!ManifestName
              /\ m.collection = Coll!Extract(upload).collection
<1> DEFINE F == Coll!FileParts(upload)
           k == Coll!First(F)
<1>1. F # {} /\ Coll!Extract(upload) = Coll!Manifest(upload.parts[k].payload)
  <2>1. Coll!Extract(upload) # Coll!Invalid
    BY DEF Coll!Invalid
  <2> QED BY <2>1 DEF Coll!Extract
<1>2. F \in SUBSET Nat
  BY DEF Ordered, IsList, Coll!FileParts
<1>3. k \in F
  BY <1>1, <1>2, FirstIsLeast
<1>4. /\ k \in DOMAIN upload.parts
      /\ upload.parts[k].file /\ upload.parts[k].payload.kind # "empty"
  BY <1>3 DEF Coll!FileParts
<1> HIDE DEF k
<1>5. PICK part : part = upload.parts[k]
  OBVIOUS
<1>6. part \in Elements(upload.parts) /\ part.file /\ part.payload.kind # "empty"
  BY <1>4, <1>5 DEF Elements
<1>7. IsList(part.payload.members)
  BY <1>4, <1>5 DEF Ordered
<1>8. Coll!Extract(upload) = Coll!Manifest(part.payload)
  BY <1>1, <1>5
<1>9. PICK m \in Elements(part.payload.members) :
          /\ m.name = Coll!ManifestName
          /\ m.collection = Coll!Manifest(part.payload).collection
  <2>1. Coll!Manifest(part.payload).code = 200
    BY <1>8
  <2> QED BY <1>7, <2>1, ManifestFound
<1> QED BY <1>6, <1>8, <1>9

\* What the proxy has read is in a part that is marked as a file.
LEMMA ExtractedIsOffered ==
    ASSUME NEW upload, Ordered(upload), Coll!Extract(upload).code = 200
    PROVE  Coll!Extract(upload).collection \in Offered(upload)
BY ExtractFound DEF Offered

\* What the proxy has read in an unambiguous upload is what Galaxy will.
LEMMA ExtractedIsUploaded ==
    ASSUME NEW upload, Ordered(upload), Unambiguous(upload),
           Coll!Extract(upload).code = 200
    PROVE  Uploaded(upload) = {Coll!Extract(upload).collection}
<1> DEFINE F == Coll!FileParts(upload)
<1>1. PICK k \in DOMAIN upload.parts :
          /\ upload.parts[k].field = "file"
          /\ upload.parts[k].file /\ upload.parts[k].payload.kind # "empty"
          /\ \A j \in DOMAIN upload.parts \ {k} :
                upload.parts[j].file /\ upload.parts[j].payload.kind # "empty" => k < j
  BY DEF Unambiguous
<1>2. F \in SUBSET Nat /\ k \in F /\ \A j \in F \ {k} : k < j
  BY <1>1 DEF Ordered, IsList, Coll!FileParts
<1>3. Coll!First(F) = k
  <2> HIDE DEF F
  <2>1. Coll!First(F) \in F /\ \A n \in F : Coll!First(F) <= n
    BY <1>2, FirstIsLeast
  <2>2. Coll!First(F) \in Nat /\ k \in Nat /\ Coll!First(F) <= k
    BY <1>2, <2>1
  <2> QED BY <1>2, <2>1, <2>2
<1>4. PICK part : part = upload.parts[k]
  OBVIOUS
<1>5. Coll!Extract(upload) = Coll!Manifest(part.payload)
  <2>1. Coll!Extract(upload) # Coll!Invalid
    BY DEF Coll!Invalid
  <2> QED BY <1>3, <1>4, <2>1 DEF Coll!Extract
<1>6. /\ part \in Elements(upload.parts) /\ part.field = "file"
      /\ IsList(part.payload.members)
  BY <1>1, <1>4 DEF Elements, Ordered
<1>7. PICK m \in Elements(part.payload.members) :
          /\ m.name = Coll!ManifestName
          /\ m.collection = Coll!Manifest(part.payload).collection
  BY <1>5, <1>6, ManifestFound
<1>8. Coll!Extract(upload).collection \in Uploaded(upload)
  BY <1>5, <1>6, <1>7 DEF Uploaded
<1> QED BY <1>8 DEF Unambiguous

\* What the clients of Galaxy build is taken for what it is.
LEMMA ProperIsFound ==
    ASSUME NEW upload, Ordered(upload), Proper(upload)
    PROVE  /\ Coll!Extract(upload).code = 200
           /\ Uploaded(upload) = {Coll!Extract(upload).collection}
<1>1. PICK k \in DOMAIN upload.parts :
          LET file == upload.parts[k]
              manifests == {m \in Elements(file.payload.members) :
                                m.name = Coll!ManifestName}
          IN  /\ file.field = "file" /\ file.file /\ file.payload.kind = "tarball"
              /\ \A j \in DOMAIN upload.parts \ {k} :
                    LET part == upload.parts[j]
                    IN  part.field # "file" /\ (part.file => part.payload.kind = "empty")
              /\ \E m \in manifests :
                    /\ manifests = {m}
                    /\ m.read = "content" /\ m.json = "object" /\ m.has = Coll!Fields
  BY DEF Proper
<1> DEFINE payload == upload.parts[k].payload
<1>2. PICK m : /\ {n \in Elements(payload.members) : n.name = Coll!ManifestName} = {m}
               /\ m.read = "content" /\ m.json = "object" /\ m.has = Coll!Fields
  BY <1>1
<1>3. Coll!FileParts(upload) = {k}
  BY <1>1 DEF Coll!FileParts
<1>4. Coll!First({k}) = k
  <2>1. {k} \in SUBSET Nat /\ {k} # {}
    BY DEF Ordered, IsList
  <2> QED BY <2>1, FirstIsLeast
<1>5. Coll!Extract(upload) = Coll!Manifest(payload)
  BY <1>1, <1>3, <1>4 DEF Coll!Extract, Proper
<1>6. Coll!Manifests(payload) # {}
  BY <1>2 DEF Coll!Manifests, Elements
<1>7. payload.members[Coll!First(Coll!Manifests(payload))] = m
  <2>1. Coll!Manifests(payload) \in SUBSET Nat
    BY <1>1 DEF Ordered, IsList, Coll!Manifests
  <2>2. Coll!First(Coll!Manifests(payload)) \in Coll!Manifests(payload)
    BY <1>6, <2>1, FirstIsLeast
  <2>3. \A n \in Coll!Manifests(payload) :
           /\ payload.members[n] \in Elements(payload.members)
           /\ payload.members[n].name = Coll!ManifestName
    BY DEF Coll!Manifests, Elements
  <2> HIDE DEF payload
  <2> QED BY <1>2, <2>2, <2>3
<1>8. Coll!Manifest(payload) = Coll!Found(m.collection)
  <2>1. Coll!Parsed(m) = Coll!Found(m.collection)
    BY <1>2 DEF Coll!Parsed
  <2>2. payload.kind = "tarball"
    BY <1>1
  <2> HIDE DEF payload
  <2> QED BY <1>2, <1>6, <1>7, <2>1, <2>2 DEF Coll!Manifest
<1>9. Uploaded(upload) = {m.collection}
  <2>1. {p \in Elements(upload.parts) : p.field = "file"} = {upload.parts[k]}
    BY <1>1 DEF Elements
  <2>2. UNION {Elements(p.payload.members) : p \in {upload.parts[k]}}
           = Elements(payload.members)
    OBVIOUS
  <2> QED BY <1>2, <2>1, <2>2 DEF Uploaded
<1> QED BY <1>5, <1>8, <1>9 DEF Coll!Found

-----------------------------------------------------------------------------
\* Nothing has been published in the future.
Past ==
    /\ clock \in Nat
    /\ born \in [Urls -> Seq(Nat)]
    /\ \A u \in Urls : \A v \in 1 .. Len(born[u]) : born[u][v] <= clock

\* A document that was recent enough when the request arrived, and with which
\* its token's signature verifies, or does not.
Signed(q) ==
    /\ In(q).token.iss \in Urls
    /\ \E d \in KeySource!Docs(In(q).token.iss) :
          KeySource!Recent(d, q.at) /\ SignatureOk(In(q).token, d)
Unsigned(q) ==
    /\ In(q).token.iss \in Urls
    /\ \E d \in KeySource!Docs(In(q).token.iss) :
          /\ KeySource!Recent(d, q.at) /\ ~SignatureOk(In(q).token, d)
          /\ born[In(q).token.iss][d.ver] <= q.checked

\* What holds of a request for which a rule has been found, and of one that may
\* be forwarded.
Granted(q) ==
    /\ q.rule = RuleOf(In(q)) /\ Auth!ServerAllowed(Rules[q.rule], In(q).server)
    /\ In(q).token.exp > q.checked
    /\ Signed(q)
Cleared(q) ==
    /\ q.rule # Auth!NoRule
    /\ In(q).method = "POST" =>
          LET found == Coll!Extract(In(q).upload)
          IN  found.code = 200 /\ Auth!CollectionAllowed(Rules[q.rule], found.collection)

\* What a code of Galaxy's says of what it did.
Says(q, code, did) ==
    \/ code = 202 /\ did = "published"
    \/ code = 200 /\ did = "read" /\ (In(q).method = "GET" \/ PostRedirect)
    \/ code = 400 /\ did = "refused"

\* What the proxy's own refusal of a request rests on.
Grounds(q) ==
    LET found == Coll!Extract(In(q).upload)
    IN  /\ q.code = 400 => found.code = 400
        /\ q.code = 403 /\ q.rule # Auth!NoRule =>
              found.code = 200 /\ ~Auth!CollectionAllowed(Rules[q.rule], found.collection)
        /\ q.code = 401 /\ q.checked >= 0 /\ In(q).token.aud = Audience
              /\ In(q).token.exp > q.checked => Unsigned(q)

Stage(r) ==
    LET q == req[r]
    IN  /\ q.at <= clock
        /\ q.rule # Auth!NoRule => Granted(q)
        /\ q.st \in Awaiting => In(q).server \in Server /\ In(q).token.iss \in Urls
        /\ q.st = "keys" =>
              /\ r \in DOMAIN served
              /\ served[r].iss = In(q).token.iss /\ served[r].now = q.at
              /\ q.checked = -1 /\ q.rule = Auth!NoRule
        /\ q.st = "body" => q.rule # Auth!NoRule /\ In(q).method = "POST"
        /\ q.st = "token" => In(q).server \in OAuth
        /\ q.st \in {"keys", "body", "token"} => ~Forwarded(r)
        /\ q.st \in {"token", "sent", "replied"} \/ Forwarded(r) => Cleared(q)
        /\ q.st = "replied" => r \in DOMAIN galaxy /\ Says(q, q.reply, galaxy[r])
        /\ q.st # "done" => q.by = "none"
        /\ q.by = "galaxy" => r \in DOMAIN galaxy /\ Says(q, q.code, galaxy[r])
        /\ q.by = "gateway" =>
              /\ Grounds(q)
              /\ Forwarded(r) =>
                    \/ q.code = 502
                    \/ q.code = 500 /\ In(q).method = "POST" /\ q.body = "undecodable"

IInv ==
    /\ TypeOK /\ Past
    /\ wire \cap DOMAIN galaxy = {}
    /\ \A r \in DOMAIN req : Stage(r)

-----------------------------------------------------------------------------
\* What the steps of one request leave alone.
Only(r) ==
    /\ UNCHANGED <<clock, born, ids, lifespan>>
    /\ DOMAIN req' = DOMAIN req \cup {r}
    /\ \A x \in DOMAIN req \ {r} :
          /\ req'[x] = req[x]
          /\ x \in DOMAIN served => x \in DOMAIN served' /\ served'[x] = served[x]
          /\ x \in wire' <=> x \in wire
          /\ x \in DOMAIN galaxy' <=> x \in DOMAIN galaxy
          /\ x \in DOMAIN galaxy => galaxy'[x] = galaxy[x]

\* Storing under a key extends a dictionary by that key and nothing else.
LEMMA PutType ==
    ASSUME NEW S, NEW T, NEW d, DOMAIN d \subseteq S, d \in [DOMAIN d -> T],
           NEW k \in S, NEW x \in T
    PROVE  /\ DOMAIN Put(d, k, x) = DOMAIN d \cup {k}
           /\ DOMAIN Put(d, k, x) \subseteq S
           /\ Put(d, k, x) \in [DOMAIN Put(d, k, x) -> T]
           /\ Put(d, k, x)[k] = x
           /\ \A j \in DOMAIN d : j # k => Put(d, k, x)[j] = d[j]
BY DEF Put

LEMMA PutRequest ==
    ASSUME TypeOK, NEW r \in Request, NEW q \in Record, req' = Put(req, r, q)
    PROVE  /\ DOMAIN req' = DOMAIN req \cup {r} /\ DOMAIN req' \subseteq Request
           /\ req' \in [DOMAIN req' -> Record]
           /\ req'[r] = q
           /\ \A x \in DOMAIN req \ {r} : req'[x] = req[x]
<1>1. DOMAIN req \subseteq Request /\ req \in [DOMAIN req -> Record]
  BY DEF TypeOK
<1>2. /\ DOMAIN Put(req, r, q) = DOMAIN req \cup {r}
      /\ DOMAIN Put(req, r, q) \subseteq Request
      /\ Put(req, r, q) \in [DOMAIN Put(req, r, q) -> Record]
      /\ Put(req, r, q)[r] = q
      /\ \A x \in DOMAIN req : x # r => Put(req, r, q)[x] = req[x]
  BY <1>1 DEF Put
<1> QED BY <1>2

\* A request whose state does not change stays where it is.
LEMMA OthersStay ==
    ASSUME IInv, NEW r \in Request, Only(r), Stage(r)'
    PROVE  \A x \in DOMAIN req' : Stage(x)'
<1> SUFFICES ASSUME NEW x \in DOMAIN req \ {r} PROVE Stage(x)'
  BY DEF Only
<1>1. Stage(x)
  BY DEF IInv
<1>2. /\ req'[x] = req[x] /\ (x \in DOMAIN galaxy => galaxy'[x] = galaxy[x])
      /\ x \in DOMAIN served => x \in DOMAIN served' /\ served'[x] = served[x]
      /\ Forwarded(x)' <=> Forwarded(x)
      /\ x \in DOMAIN galaxy' <=> x \in DOMAIN galaxy
      /\ clock' = clock /\ born' = born
  BY DEF Only, Forwarded
<1>3. /\ Signed(req[x])' <=> Signed(req[x])
      /\ Unsigned(req[x])' <=> Unsigned(req[x])
  BY <1>2 DEF Signed, Unsigned, KeySource!Docs, KeySource!Recent
<1>4. /\ Granted(req[x])' <=> Granted(req[x])
      /\ Grounds(req[x])' <=> Grounds(req[x])
  BY <1>2, <1>3 DEF Granted, Grounds
<1>5. Cleared(req[x])' <=> Cleared(req[x])
  BY <1>2 DEF Cleared
<1> QED BY <1>1, <1>2, <1>4, <1>5 DEF Stage

\* Documents only become older, and no document becomes too old for a call that
\* has begun.
LEMMA DocumentsStay ==
    ASSUME Past, KeySource!Tick \/ \E u \in Urls : KeySource!Publish(u)
    PROVE  /\ Past'
           /\ \A u \in Urls : \A d \in KeySource!Docs(u), t \in Nat :
                 t <= clock /\ KeySource!Recent(d, t) =>
                    /\ d \in KeySource!Docs(u)' /\ KeySource!Recent(d, t)'
                    /\ born'[u][d.ver] = born[u][d.ver]
<1>1. CASE KeySource!Tick
  BY <1>1 DEF KeySource!Tick, Past, KeySource!Docs, KeySource!Recent
<1>2. ASSUME NEW u \in Urls, KeySource!Publish(u)
      PROVE  /\ Past'
             /\ \A w \in Urls : \A d \in KeySource!Docs(w), t \in Nat :
                 t <= clock /\ KeySource!Recent(d, t) =>
                    /\ d \in KeySource!Docs(w)' /\ KeySource!Recent(d, t)'
                    /\ born'[w][d.ver] = born[w][d.ver]
  <2>1. /\ clock \in Nat /\ clock' = clock
        /\ born \in [Urls -> Seq(Nat)]
        /\ born' = [born EXCEPT ![u] = Append(@, clock)]
    BY <1>2 DEF KeySource!Publish, Past
  <2>2. /\ Len(born'[u]) = Len(born[u]) + 1
        /\ \A v \in 1 .. Len(born[u]) : born'[u][v] = born[u][v]
        /\ born'[u][Len(born[u]) + 1] = clock
        /\ Len(born[u]) \in Nat /\ born'[u] \in Seq(Nat)
    BY <2>1
  <2>3. \A w \in Urls : w # u => born'[w] = born[w]
    BY <2>1
  <2>4. Past'
    BY <2>1, <2>2, <2>3 DEF Past
  <2>5. ASSUME NEW w \in Urls, NEW d \in KeySource!Docs(w), NEW t \in Nat,
               t <= clock, KeySource!Recent(d, t)
        PROVE  /\ d \in KeySource!Docs(w)' /\ KeySource!Recent(d, t)'
               /\ born'[w][d.ver] = born[w][d.ver]
    <3>1. d.iss = w /\ d.ver \in 1 .. Len(born[w])
      BY <2>5 DEF KeySource!Docs
    <3>2. CASE w # u
      BY <2>5, <3>1, <3>2, <2>3 DEF KeySource!Docs, KeySource!Recent
    <3>3. CASE w = u
      <4>1. d.ver \in 1 .. Len(born'[u])
        BY <3>1, <3>3, <2>2
      <4>2. d \in KeySource!Docs(w)'
        BY <3>3, <4>1 DEF KeySource!Docs
      <4>3. CASE d.ver < Len(born[u])
        <5>1. d.ver + 1 \in 1 .. Len(born[u])
          BY <2>2, <3>1, <3>3, <4>3
        <5>2. born'[u][d.ver + 1] = born[u][d.ver + 1]
          BY <2>2, <5>1
        <5>3. born[u][d.ver + 1] + TTL > t
          BY <2>5, <3>1, <3>3, <4>3 DEF KeySource!Recent
        <5>4. KeySource!Recent(d, t)'
          BY <3>1, <3>3, <4>1, <5>2, <5>3 DEF KeySource!Recent
        <5> QED BY <2>2, <3>1, <3>3, <4>2, <5>4
      <4>4. CASE d.ver = Len(born[u])
        BY <2>1, <2>2, <2>5, <3>1, <3>3, <4>1, <4>2, <4>4, GatewayAssumption
        DEF KeySource!Recent
      <4> QED BY <2>2, <3>1, <3>3, <4>3, <4>4
    <3> QED BY <3>2, <3>3
  <2> QED BY <2>4, <2>5
<1> QED BY <1>1, <1>2

LEMMA TimeInvariant == IInv /\ Time => IInv'
<1> SUFFICES ASSUME IInv, Time PROVE IInv'
  OBVIOUS
<1>1. /\ UNCHANGED <<served, ids, lifespan, oauth, req, wire, galaxy>>
      /\ KeySource!Tick \/ \E u \in Urls : KeySource!Publish(u)
      /\ clock \in Nat /\ clock' \in Nat /\ clock <= clock'
  BY DEF Time, KeySource!Tick, KeySource!Publish, IInv, Past
<1>2. TypeOK' /\ (wire \cap DOMAIN galaxy = {})'
  BY <1>1 DEF IInv, TypeOK
<1>3. /\ Past'
      /\ \A u \in Urls : \A d \in KeySource!Docs(u), t \in Nat :
            t <= clock /\ KeySource!Recent(d, t) =>
               /\ d \in KeySource!Docs(u)' /\ KeySource!Recent(d, t)'
               /\ born'[u][d.ver] = born[u][d.ver]
  BY <1>1, DocumentsStay DEF IInv
<1>4. ASSUME NEW x \in DOMAIN req
      PROVE  Stage(x)'
  <2> DEFINE q == req[x]
  <2>1. Stage(x) /\ q.at \in Nat /\ q.at <= clock /\ q' = q
    BY <1>1 DEF IInv, TypeOK, Record, Stage
  <2>2. /\ Signed(q) => Signed(q)'
        /\ Unsigned(q) => Unsigned(q)'
    <3> DEFINE iss == In(q).token.iss
    <3>1. iss' = iss
      BY <2>1 DEF In
    <3>2. ASSUME Signed(q) PROVE Signed(q)'
      <4>1. iss \in Urls
        BY <3>2 DEF Signed
      <4>2. PICK d \in KeySource!Docs(iss) :
                KeySource!Recent(d, q.at) /\ SignatureOk(In(q).token, d)
        BY <3>2 DEF Signed
      <4>3. d \in KeySource!Docs(iss)' /\ KeySource!Recent(d, q.at)'
        BY <1>3, <2>1, <4>1, <4>2
      <4> QED BY <2>1, <4>1, <4>2, <4>3 DEF Signed
    <3>3. ASSUME Unsigned(q) PROVE Unsigned(q)'
      <4>1. iss \in Urls
        BY <3>3 DEF Unsigned
      <4>2. PICK d \in KeySource!Docs(iss) :
                /\ KeySource!Recent(d, q.at) /\ ~SignatureOk(In(q).token, d)
                /\ born[iss][d.ver] <= q.checked
        BY <3>3 DEF Unsigned
      <4>3. /\ d \in KeySource!Docs(iss)' /\ KeySource!Recent(d, q.at)'
            /\ born'[iss][d.ver] = born[iss][d.ver]
        BY <1>3, <2>1, <4>1, <4>2
      <4> QED BY <2>1, <3>1, <4>1, <4>2, <4>3 DEF Unsigned
    <3> QED BY <3>2, <3>3
  <2>3. /\ Granted(q) => Granted(q)'
        /\ Grounds(q) => Grounds(q)'
        /\ Cleared(q) => Cleared(q)'
    BY <2>1, <2>2 DEF Granted, Grounds, Cleared
  <2>4. q.at <= clock'
    BY <1>1, <2>1
  <2>5. (Forwarded(x)' <=> Forwarded(x)) /\ served' = served /\ galaxy' = galaxy
    BY <1>1 DEF Forwarded
  <2> QED BY <2>1, <2>3, <2>4, <2>5 DEF Stage
<1> QED BY <1>1, <1>2, <1>3, <1>4 DEF IInv

LEMMA RestartInvariant == IInv /\ Restart => IInv'
<1> SUFFICES ASSUME IInv, Restart PROVE IInv'
  OBVIOUS
<1>1. /\ UNCHANGED <<clock, born, served, oauth, req, wire, galaxy>>
      /\ ids' \in [OAuth -> Id] /\ lifespan' \in 1 .. MaxLifespan
  BY GatewayAssumption DEF Restart, IInv, TypeOK
<1>2. TypeOK' /\ Past' /\ (wire \cap DOMAIN galaxy = {})'
  BY <1>1 DEF IInv, TypeOK, Past
<1>3. ASSUME NEW x \in DOMAIN req PROVE Stage(x)'
  <2>1. Stage(x)
    BY DEF IInv
  <2> QED BY <1>1, <2>1 DEF Stage, Granted, Cleared, Grounds, Signed, Unsigned,
             Forwarded, KeySource!Docs, KeySource!Recent
<1> QED BY <1>1, <1>2, <1>3 DEF IInv

LEMMA InitInvariant == Init => IInv
<1> SUFFICES ASSUME Init PROVE IInv
  OBVIOUS
<1>1. DOMAIN req = {} /\ wire = {} /\ DOMAIN galaxy = {} /\ DOMAIN oauth = {}
  BY DEF Init
<1>2. TypeOK
  BY <1>1, GatewayAssumption DEF Init, TypeOK
<1>3. Past
  <2>1. clock = 0 /\ born = [u \in Urls |-> <<0>>]
    BY DEF Init, KeySource!Init
  <2>2. <<0>> \in Seq(Nat) /\ Len(<<0>>) = 1 /\ <<0>>[1] = 0
    OBVIOUS
  <2> QED BY <2>1, <2>2 DEF Past
<1> QED BY <1>1, <1>2, <1>3 DEF IInv

-----------------------------------------------------------------------------
\* What a step of one request, without Galaxy, has to show.
ServedBut(r) ==
    \A x \in DOMAIN served \ {r} : x \in DOMAIN served' /\ served'[x] = served[x]

LEMMA Moves ==
    ASSUME IInv, NEW r \in Request, NEW q \in Record, req' = Put(req, r, q),
           ServedBut(r), UNCHANGED <<clock, born, ids, lifespan, galaxy>>,
           wire' \in {wire, wire \cup {r}, wire \ {r}},
           r \in wire' => r \notin DOMAIN galaxy,
           DOMAIN oauth' \subseteq Id, oauth' \in [DOMAIN oauth' -> OAuth],
           Stage(r)'
    PROVE  IInv'
<1>1. /\ DOMAIN req' = DOMAIN req \cup {r} /\ DOMAIN req' \subseteq Request
      /\ req' \in [DOMAIN req' -> Record]
      /\ \A x \in DOMAIN req \ {r} : req'[x] = req[x]
  BY PutRequest DEF IInv
<1>2. TypeOK'
  BY <1>1 DEF IInv, TypeOK
<1>3. (wire \cap DOMAIN galaxy = {})' /\ Past'
  BY DEF IInv, Past
<1>4. Only(r)
  BY <1>1 DEF Only, ServedBut
<1> QED BY <1>2, <1>3, <1>4, OthersStay DEF IInv

\* A grant and a clearance rest on what a request keeps.
LEMMA Keeps ==
    ASSUME NEW r, NEW rec, born' = born,
           req'[r].in = rec.in, req'[r].at = rec.at, req'[r].rule = rec.rule,
           req'[r].checked = rec.checked
    PROVE  /\ Granted(rec) => Granted(req[r])'
           /\ Cleared(rec) => Cleared(req[r])'
BY DEF Granted, Cleared, Signed, In, KeySource!Docs, KeySource!Recent

\* The record of a request within a step.
Draft ==
    [in : 1 .. Len(Input), st : Awaiting \cup {"new", "allowed", "done", "gone"},
     at : Nat, checked : Nat \cup {-1}, rule : 0 .. Len(Rules),
     cred : Server \cup {"none"}, reply : Nat, body : GalaxyBody \cup {"none", "text"},
     by : {"none", "gateway", "galaxy"}, code : Nat]

LEMMA RecordIsDraft == ASSUME NEW q \in Record PROVE q \in Draft
BY DEF Record, Draft

LEMMA RefusedRecord ==
    ASSUME NEW rec \in Draft, NEW code \in Nat
    PROVE  LET q == Refused(rec, code)
           IN  /\ q \in Record
               /\ q.st = "done" /\ q.by = "gateway" /\ q.code = code
               /\ q.in = rec.in /\ q.at = rec.at /\ q.rule = rec.rule
               /\ q.checked = rec.checked /\ q.body = rec.body
BY DEF Draft, Record, Refused

\* The proxy refuses what it has not sent.
LEMMA Refuses ==
    ASSUME IInv, NEW r \in Request, NEW rec \in Draft, NEW code \in Nat,
           req' = Put(req, r, Refused(rec, code)),
           ServedBut(r), UNCHANGED <<clock, born, ids, lifespan, oauth, wire, galaxy>>,
           ~Forwarded(r), rec.at <= clock,
           rec.rule # Auth!NoRule => Granted(rec),
           req'[r] = Refused(rec, code) => Grounds(req[r])'
    PROVE  IInv'
<1> DEFINE q == Refused(rec, code)
<1>1. /\ q \in Record
      /\ q.st = "done" /\ q.by = "gateway" /\ q.code = code
      /\ q.in = rec.in /\ q.at = rec.at /\ q.rule = rec.rule /\ q.checked = rec.checked
  BY RefusedRecord
<1>2. req' = Put(req, r, q)
  OBVIOUS
<1>3. req'[r] = q
  BY <1>1, PutRequest DEF IInv
<1>4. Grounds(req[r])'
  BY <1>3
<1> HIDE DEF q
<1>5. ~Forwarded(r)'
  BY DEF Forwarded
<1>6. rec.rule # Auth!NoRule => Granted(req[r])'
  BY <1>1, <1>3, Keeps
<1>7. Stage(r)'
  BY <1>1, <1>3, <1>4, <1>5, <1>6 DEF Stage, Awaiting
<1> QED BY <1>1, <1>2, <1>7, Moves DEF Forwarded, IInv, TypeOK

LEMMA RuleOfType == ASSUME NEW in PROVE RuleOf(in) \in 0 .. Len(Rules)
BY FindRuleFirst, OrderAssumption DEF RuleOf, IsList

\* A request without the server's token sends it, or waits for the token, or
\* finds that its client is gone.
LEMMA ProxyRecord ==
    ASSUME TypeOK, NEW r, NEW rec \in Draft, Proxy(r, rec), In(rec).server \in Server
    PROVE  \E q \in Record :
              /\ req' = Put(req, r, q) /\ UNCHANGED oauth
              /\ q.in = rec.in /\ q.at = rec.at /\ q.rule = rec.rule
              /\ q.checked = rec.checked /\ q.by = rec.by
              /\ \/ q.st = "sent" /\ wire' = wire \cup {r}
                 \/ q.st = "gone" /\ wire' = wire
                 \/ q.st = "token" /\ wire' = wire /\ In(rec).server \in OAuth
<1>1. ASSUME NEW cred \in Server, Send(r, rec, cred), UNCHANGED oauth
      PROVE  \E q \in Record :
                /\ req' = Put(req, r, q) /\ UNCHANGED oauth
                /\ q.in = rec.in /\ q.at = rec.at /\ q.rule = rec.rule
                /\ q.checked = rec.checked /\ q.by = rec.by
                /\ \/ q.st = "sent" /\ wire' = wire \cup {r}
                   \/ q.st = "gone" /\ wire' = wire
  <2>1. CASE req' = Put(req, r, [rec EXCEPT !.st = "sent", !.cred = cred])
             /\ wire' = wire \cup {r}
    <3> DEFINE q == [rec EXCEPT !.st = "sent", !.cred = cred]
    <3>1. /\ q \in Record /\ q.st = "sent"
          /\ q.in = rec.in /\ q.at = rec.at /\ q.rule = rec.rule
          /\ q.checked = rec.checked /\ q.by = rec.by
      BY DEF Draft, Record, Awaiting
    <3> QED BY <1>1, <2>1, <3>1
  <2>2. CASE req' = Put(req, r, [rec EXCEPT !.st = "gone"]) /\ wire' = wire
    <3> DEFINE q == [rec EXCEPT !.st = "gone"]
    <3>1. /\ q \in Record /\ q.st = "gone"
          /\ q.in = rec.in /\ q.at = rec.at /\ q.rule = rec.rule
          /\ q.checked = rec.checked /\ q.by = rec.by
      BY DEF Draft, Record
    <3> QED BY <1>1, <2>2, <3>1
  <2> QED BY <1>1, <2>1, <2>2 DEF Send
<1>2. CASE In(rec).server \notin OAuth /\ Send(r, rec, In(rec).server)
  BY <1>1, <1>2 DEF Proxy
<1>3. CASE /\ In(rec).server \in OAuth /\ ids[In(rec).server] \in DOMAIN oauth
           /\ Send(r, rec, oauth[ids[In(rec).server]])
  <2>1. oauth[ids[In(rec).server]] \in Server
    BY <1>3, GatewayAssumption DEF TypeOK
  <2> QED BY <1>1, <1>3, <2>1 DEF Proxy
<1>4. CASE /\ In(rec).server \in OAuth
           /\ req' = Put(req, r, [rec EXCEPT !.st = "token"]) /\ wire' = wire
  <2> DEFINE q == [rec EXCEPT !.st = "token"]
  <2>1. /\ q \in Record /\ q.st = "token"
        /\ q.in = rec.in /\ q.at = rec.at /\ q.rule = rec.rule
        /\ q.checked = rec.checked /\ q.by = rec.by
    BY DEF Draft, Record, Awaiting
  <2> QED BY <1>4, <2>1 DEF Proxy
<1> QED BY <1>2, <1>3, <1>4 DEF Proxy

\* A request that may be forwarded is proxied.
LEMMA Proxies ==
    ASSUME IInv, NEW r \in Request, NEW rec \in Draft, Proxy(r, rec),
           ServedBut(r), UNCHANGED <<clock, born, ids, lifespan, galaxy>>,
           ~Forwarded(r), rec.by = "none", rec.at <= clock,
           In(rec).server \in Server, In(rec).token.iss \in Urls,
           Granted(rec), Cleared(rec)
    PROVE  IInv'
<1>1. PICK q \in Record :
              /\ req' = Put(req, r, q) /\ UNCHANGED oauth
              /\ q.in = rec.in /\ q.at = rec.at /\ q.rule = rec.rule
              /\ q.checked = rec.checked /\ q.by = rec.by
              /\ \/ q.st = "sent" /\ wire' = wire \cup {r}
                 \/ q.st = "gone" /\ wire' = wire
                 \/ q.st = "token" /\ wire' = wire /\ In(rec).server \in OAuth
  BY ProxyRecord DEF IInv
<1>2. req'[r] = q
  BY <1>1, PutRequest DEF IInv
<1>3. Granted(req[r])' /\ Cleared(req[r])'
  BY <1>1, <1>2, Keeps
<1>4. In(req[r])' = In(rec)
  BY <1>1, <1>2 DEF In
<1>5. q.st # "sent" => ~Forwarded(r)'
  BY <1>1 DEF Forwarded
<1>6. Stage(r)'
  BY <1>1, <1>2, <1>3, <1>4, <1>5 DEF Stage
<1> QED BY <1>1, <1>6, Moves DEF Forwarded, IInv, TypeOK

-----------------------------------------------------------------------------
LEMMA ArrivedRecord ==
    ASSUME IInv, NEW n \in 1 .. Len(Input)
    PROVE  LET q == Arrived(n)
           IN  /\ q \in Draft
               /\ q.in = n /\ q.st = "new" /\ q.at = clock /\ q.checked = -1
               /\ q.rule = Auth!NoRule /\ q.by = "none" /\ In(q) = Input[n]
BY DEF Arrived, Draft, In, IInv, Past, Auth!NoRule, NoReply

LEMMA NewRequest ==
    ASSUME IInv, NEW r, r \notin DOMAIN req
    PROVE  ~Forwarded(r)
BY DEF IInv, TypeOK, Forwarded

LEMMA RefuseAtOnceInvariant ==
    ASSUME IInv, NEW r \in Request, NEW n \in 1 .. Len(Input), RefuseAtOnce(r, n)
    PROVE  IInv'
<1>1. PICK code \in {401, 404} : req' = Put(req, r, Refused(Arrived(n), code))
  BY DEF RefuseAtOnce
<1> DEFINE rec == Arrived(n)
<1>2. rec \in Draft /\ rec.at = clock /\ rec.checked = -1 /\ rec.rule = Auth!NoRule
  BY ArrivedRecord
<1> HIDE DEF rec
<1>3. /\ Refused(rec, code) \in Record
      /\ Refused(rec, code).code = code /\ Refused(rec, code).checked = -1
      /\ Refused(rec, code).rule = Auth!NoRule
  BY <1>2, RefusedRecord
<1>4. req'[r] = Refused(rec, code)
  BY <1>1, <1>3, PutRequest DEF IInv, rec
<1>5. Grounds(req[r])'
  BY <1>3, <1>4 DEF Grounds
<1>6. ~Forwarded(r) /\ rec.at <= clock
  BY <1>2, NewRequest DEF RefuseAtOnce, IInv, Past
<1>7. ServedBut(r) /\ UNCHANGED <<clock, born, ids, lifespan, oauth, wire, galaxy>>
  BY DEF RefuseAtOnce, ServedBut
<1> QED BY <1>1, <1>2, <1>5, <1>6, <1>7, Refuses DEF rec

LEMMA ArriveKeysMissingInvariant ==
    ASSUME IInv, NEW r \in Request, NEW n \in 1 .. Len(Input), ArriveKeysMissing(r, n)
    PROVE  IInv'
<1> DEFINE rec == Arrived(n)
           q == [rec EXCEPT !.st = "keys"]
<1>1. /\ rec \in Draft /\ rec.at = clock /\ rec.checked = -1
      /\ rec.rule = Auth!NoRule /\ rec.by = "none" /\ In(rec) = Input[n]
  BY ArrivedRecord
<1>2. req' = Put(req, r, q)
  BY DEF ArriveKeysMissing
<1> HIDE DEF rec
<1>3. /\ q \in Record /\ q.st = "keys" /\ q.at = clock /\ q.checked = -1
      /\ q.rule = Auth!NoRule /\ q.by = "none" /\ In(q) = Input[n]
  BY <1>1 DEF Draft, Record, Awaiting, In
<1> HIDE DEF q
<1>4. req'[r] = q
  BY <1>2, <1>3, PutRequest DEF IInv
<1>5. /\ ServedBut(r) /\ UNCHANGED <<clock, born>> /\ r \in DOMAIN served'
      /\ served'[r].iss = Input[n].token.iss /\ served'[r].now = clock
  BY DEF ArriveKeysMissing, KeySource!Ask, KeySource!Record, ServedBut
<1>6. ~Forwarded(r)'
  BY NewRequest DEF ArriveKeysMissing, Forwarded
<1>7. Input[n].server \in Server /\ Input[n].token.iss \in Urls
  BY DEF ArriveKeysMissing, Acceptable
<1>8. In(req[r])' = Input[n] /\ clock <= clock'
  BY <1>3, <1>4, <1>5 DEF In, IInv, Past
<1>9. Stage(r)'
  BY <1>3, <1>4, <1>5, <1>6, <1>7, <1>8 DEF Stage
<1> QED BY <1>2, <1>3, <1>5, <1>9, Moves DEF ArriveKeysMissing, IInv, TypeOK

\* The verdict on a token, with a document that was recent enough.
LEMMA Judges ==
    ASSUME IInv, NEW r \in Request, NEW rec \in Draft,
           rec.rule = Auth!NoRule, rec.by = "none", rec.at <= clock,
           In(rec).server \in Server, In(rec).token.iss \in Urls, ~Forwarded(r),
           NEW d \in KeySource!Docs(In(rec).token.iss), KeySource!Recent(d, rec.at),
           Continue(r, Judged(rec, d)), ServedBut(r),
           UNCHANGED <<clock, born, ids, lifespan, galaxy>>
    PROVE  IInv'
<1> DEFINE in == In(rec)
           k == RuleOf(in)
           seen == [rec EXCEPT !.checked = clock]
<1>1. /\ seen \in Draft /\ seen.checked = clock /\ seen.in = rec.in
      /\ seen.at = rec.at /\ seen.rule = Auth!NoRule /\ In(seen) = in
  BY DEF Draft, In, IInv, Past
<1>2. clock \in Nat /\ born[in.token.iss][d.ver] <= clock
  BY DEF IInv, Past, KeySource!Docs
<1>3. ASSUME NEW code \in {401, 403}, Judged(rec, d) = Refused(seen, code),
             code = 401 => ~TokenOk(in.token, d)
      PROVE  IInv'
  <2> HIDE DEF seen
  <2>1. LET q == Refused(seen, code)
        IN  /\ q \in Record /\ q.st = "done" /\ q.by = "gateway" /\ q.code = code
            /\ q.in = rec.in /\ q.at = rec.at /\ q.rule = Auth!NoRule
            /\ q.checked = clock
    BY <1>1, RefusedRecord
  <2>2. req' = Put(req, r, Refused(seen, code)) /\ UNCHANGED <<wire, oauth>>
    BY <1>3, <2>1 DEF Continue
  <2>3. req'[r] = Refused(seen, code)
    BY <2>1, <2>2, PutRequest DEF IInv
  <2>4. In(req[r])' = in
    BY <2>1, <2>3 DEF In
  <2>5. CASE in.token.aud = Audience /\ in.token.exp > clock /\ code = 401
    <3>1. ~SignatureOk(in.token, d)
      BY <1>3, <2>5 DEF TokenOk
    <3>2. Unsigned(req[r])'
      BY <1>2, <2>1, <2>3, <2>4, <3>1
      DEF Unsigned, KeySource!Docs, KeySource!Recent
    <3> QED BY <2>1, <2>2, <2>3, <2>5, <3>2, <1>1, Refuses DEF Grounds
  <2>6. CASE ~(in.token.aud = Audience /\ in.token.exp > clock /\ code = 401)
    <3>1. Grounds(req[r])'
      BY <2>1, <2>3, <2>4, <2>6 DEF Grounds
    <3> QED BY <2>2, <3>1, <1>1, Refuses
  <2> QED BY <2>5, <2>6
<1>4. ASSUME TokenOk(in.token, d), k # Auth!NoRule,
             Auth!ServerAllowed(Rules[k], in.server),
             Judged(rec, d) = [seen EXCEPT !.st = "allowed", !.rule = k]
      PROVE  IInv'
  <2> DEFINE J == [seen EXCEPT !.st = "allowed", !.rule = k]
  <2>1. /\ J \in Draft /\ J.st = "allowed" /\ J.rule = k /\ J.checked = clock
        /\ J.in = rec.in /\ J.at = rec.at /\ J.by = "none" /\ In(J) = in
    <3>1. k \in 0 .. Len(Rules)
      BY RuleOfType
    <3> HIDE DEF k
    <3> QED BY <1>1, <3>1 DEF Draft, In
  <2>2. Granted(J)
    <3>1. SignatureOk(in.token, d) /\ in.token.exp > clock
      BY <1>4 DEF TokenOk
    <3>2. Signed(J)
      BY <2>1, <3>1 DEF Signed
    <3> HIDE DEF J
    <3> QED BY <1>4, <2>1, <3>1, <3>2 DEF Granted
  <2>3. Continue(r, J)
    BY <1>4
  <2> HIDE DEF J, seen, k
  <2>4. CASE In(J).method = "POST" /\ req' = Put(req, r, [J EXCEPT !.st = "body"])
             /\ UNCHANGED <<wire, oauth>>
    <3> DEFINE q == [J EXCEPT !.st = "body"]
    <3>1. /\ q \in Record /\ q.st = "body" /\ q.rule = J.rule /\ q.checked = J.checked
          /\ q.in = J.in /\ q.at = J.at /\ q.by = "none"
      BY <2>1 DEF Draft, Record, Awaiting
    <3>2. req' = Put(req, r, q)
      BY <2>4
    <3> HIDE DEF q
    <3>3. req'[r] = q
      BY <3>1, <3>2, PutRequest DEF IInv
    <3>4. Granted(req[r])'
      BY <2>2, <3>1, <3>3, Keeps
    <3>5. In(req[r])' = in /\ ~Forwarded(r)'
      BY <2>1, <2>4, <3>1, <3>3 DEF In, Forwarded
    <3>6. Stage(r)'
      BY <1>4, <2>1, <2>4, <3>1, <3>3, <3>4, <3>5 DEF Stage
    <3> QED BY <2>4, <3>1, <3>2, <3>6, Moves DEF Forwarded, IInv, TypeOK
  <2>5. CASE In(J).method = "GET" /\ Proxy(r, J)
    <3>1. Cleared(J)
      BY <1>4, <2>1, <2>5 DEF Cleared
    <3> QED BY <2>1, <2>2, <2>5, <3>1, Proxies
  <2> QED BY <2>1, <2>3, <2>4, <2>5 DEF Continue
<1>5. \/ ~TokenOk(in.token, d) /\ Judged(rec, d) = Refused(seen, 401)
      \/ TokenOk(in.token, d) /\ Judged(rec, d) = Refused(seen, 403)
      \/ /\ TokenOk(in.token, d)
         /\ Judged(rec, d) = [seen EXCEPT !.st = "allowed", !.rule = k]
         /\ k # Auth!NoRule /\ Auth!ServerAllowed(Rules[k], in.server)
  BY DEF Judged
<1> QED BY <1>3, <1>4, <1>5

LEMMA ArriveKeysCachedInvariant ==
    ASSUME IInv, NEW r \in Request, NEW n \in 1 .. Len(Input), ArriveKeysCached(r, n)
    PROVE  IInv'
<1>1. PICK d \in KeySource!Docs(Input[n].token.iss) :
          /\ KeySource!Recent(d, clock)
          /\ served'[r].doc = d
          /\ ServedBut(r) /\ UNCHANGED <<clock, born>>
  BY DEF ArriveKeysCached, KeySource!AnswerAtOnce, KeySource!Record, ServedBut
<1> DEFINE rec == Arrived(n)
<1>2. /\ rec \in Draft /\ rec.at = clock /\ rec.rule = Auth!NoRule
      /\ rec.by = "none" /\ In(rec) = Input[n]
  BY ArrivedRecord
<1>3. Continue(r, Judged(rec, d)) /\ UNCHANGED <<ids, lifespan, galaxy>>
  BY <1>1 DEF ArriveKeysCached
<1>4. /\ Input[n].server \in Server /\ Input[n].token.iss \in Urls
      /\ ~Forwarded(r)
  BY NewRequest DEF ArriveKeysCached, Acceptable
<1> HIDE DEF rec
<1>5. rec.at <= clock
  BY <1>2 DEF IInv, Past
<1> QED BY <1>1, <1>2, <1>3, <1>4, <1>5, Judges

\* What is known of a request that is under way.
LEMMA Waiting ==
    ASSUME IInv, NEW r, InFlight(r)
    PROVE  /\ r \in DOMAIN req /\ Stage(r) /\ req[r] \in Record /\ req[r] \in Draft
           /\ req[r].by = "none" /\ req[r].at <= clock
           /\ In(req[r]).server \in Server /\ In(req[r]).token.iss \in Urls
           /\ req[r].rule # Auth!NoRule => Granted(req[r])
<1>1. r \in DOMAIN req /\ Stage(r) /\ req[r] \in Record /\ req[r].st \in Awaiting
  BY DEF InFlight, IInv, TypeOK
<1> QED BY <1>1, RecordIsDraft DEF Stage, Awaiting

LEMMA KeysFetchedInvariant ==
    ASSUME IInv, NEW r \in Request, KeysFetched(r)
    PROVE  IInv'
<1> DEFINE rec == req[r]
<1>1. /\ rec \in Draft /\ rec.by = "none" /\ rec.at <= clock
      /\ In(rec).server \in Server /\ In(rec).token.iss \in Urls
      /\ Stage(r) /\ rec.st = "keys"
  BY Waiting DEF KeysFetched
<1>2. /\ served[r].iss = In(rec).token.iss /\ served[r].now = rec.at
      /\ rec.rule = Auth!NoRule /\ ~Forwarded(r)
  BY <1>1 DEF Stage
<1>3. PICK d \in KeySource!Docs(served[r].iss) :
          /\ KeySource!Recent(d, served[r].now)
          /\ served'[r].doc = d
          /\ ServedBut(r) /\ UNCHANGED <<clock, born>>
  BY DEF KeysFetched, KeySource!Answer, KeySource!Record, ServedBut
<1>4. Continue(r, Judged(rec, d)) /\ UNCHANGED <<ids, lifespan, galaxy>>
  BY <1>3 DEF KeysFetched
<1> HIDE DEF rec
<1> QED BY <1>1, <1>2, <1>3, <1>4, Judges

LEMMA KeysFailedInvariant ==
    ASSUME IInv, NEW r \in Request, KeysFailed(r)
    PROVE  IInv'
<1>0. PICK rec \in Draft : rec = req[r]
  BY Waiting DEF KeysFailed
<1>1. /\ rec \in Draft /\ rec.by = "none" /\ rec.at <= clock
      /\ Stage(r) /\ rec.st = "keys"
  BY <1>0, Waiting DEF KeysFailed
<1>2. rec.rule = Auth!NoRule /\ rec.checked = -1 /\ ~Forwarded(r)
  BY <1>0, <1>1 DEF Stage
<1>3. req' = Put(req, r, Refused(rec, 401))
  BY <1>0 DEF KeysFailed
<1>7. ServedBut(r) /\ UNCHANGED <<clock, born, ids, lifespan, oauth, wire, galaxy>>
  BY <1>0 DEF KeysFailed, KeySource!Refuse, KeySource!Record, ServedBut
<1>4. Refused(rec, 401).code = 401 /\ Refused(rec, 401).checked = -1
  BY <1>1, <1>2, RefusedRecord
<1>5. req'[r] = Refused(rec, 401) => Grounds(req[r])'
  BY <1>4 DEF Grounds
<1> QED BY <1>1, <1>2, <1>3, <1>5, <1>7, Refuses

LEMMA ExtractedOf ==
    ASSUME NEW rec \in Draft
    PROVE  Extracted[rec.in] = Coll!Extract(In(rec).upload)
BY DEF Draft, Extracted, In

LEMMA BodyReadInvariant ==
    ASSUME IInv, NEW r \in Request, BodyRead(r)
    PROVE  IInv'
<1>0. PICK rec \in Draft : rec = req[r]
  BY Waiting DEF BodyRead
<1> DEFINE found == Coll!Extract(In(rec).upload)
           allowed == Auth!CollectionAllowed(Rules[rec.rule], found.collection)
<1>1. /\ rec \in Draft /\ rec.by = "none" /\ rec.at <= clock
      /\ In(rec).server \in Server /\ In(rec).token.iss \in Urls
      /\ Stage(r) /\ rec.st = "body"
  BY <1>0, Waiting DEF BodyRead
<1>2. rec.rule # Auth!NoRule /\ Granted(rec) /\ ~Forwarded(r)
  BY <1>0, <1>1 DEF Stage
<1>3. /\ UNCHANGED <<clock, born, served, ids, lifespan, galaxy>>
      /\ \/ /\ found.code # 200 /\ req' = Put(req, r, Refused(rec, found.code))
            /\ UNCHANGED <<wire, oauth>>
         \/ /\ found.code = 200 /\ ~allowed /\ req' = Put(req, r, Refused(rec, 403))
            /\ UNCHANGED <<wire, oauth>>
         \/ found.code = 200 /\ allowed /\ Proxy(r, rec)
  <2>1. Extracted[req[r].in] = found
    BY <1>0, ExtractedOf
  <2> HIDE DEF found
  <2> QED BY <1>0, <2>1 DEF BodyRead
<1>4. ServedBut(r)
  BY <1>3 DEF ServedBut
<1>5. found.code \in {200, 400, 500}
  BY ExtractCodes
<1>6. ASSUME NEW code \in {400, 403, 500}, req' = Put(req, r, Refused(rec, code)),
             UNCHANGED <<wire, oauth>>,
             code = 400 => found.code = 400,
             code = 403 => found.code = 200 /\ ~allowed
      PROVE  IInv'
  <2>1. /\ Refused(rec, code) \in Record /\ Refused(rec, code).code = code
        /\ Refused(rec, code).in = rec.in /\ Refused(rec, code).rule = rec.rule
    BY <1>1, RefusedRecord
  <2>5. req' = Put(req, r, Refused(rec, code))
    BY <1>6
  <2>2. req'[r] = Refused(rec, code)
    BY <2>1, <2>5, PutRequest DEF IInv
  <2>3. In(req[r])' = In(rec)
    BY <2>1, <2>2 DEF In
  <2>4. Grounds(req[r])'
    BY <1>6, <2>1, <2>2, <2>3 DEF Grounds
  <2> QED BY <1>1, <1>2, <1>3, <1>4, <1>6, <2>4, Refuses
<1>7. CASE found.code = 200 /\ allowed /\ Proxy(r, rec)
  <2>1. Cleared(rec)
    BY <1>2, <1>7 DEF Cleared
  <2> QED BY <1>1, <1>2, <1>3, <1>4, <1>7, <2>1, Proxies
<1> HIDE DEF found, allowed
<1> QED BY <1>3, <1>5, <1>6, <1>7

LEMMA DisconnectInvariant ==
    ASSUME IInv, NEW r \in Request, Disconnect(r)
    PROVE  IInv'
<1> DEFINE rec == req[r]
           q == [rec EXCEPT !.st = "gone"]
<1>1. rec \in Draft /\ rec.by = "none" /\ rec.at <= clock /\ Stage(r) /\ rec.st = "body"
  BY Waiting DEF Disconnect
<1>2. rec.rule # Auth!NoRule /\ Granted(rec) /\ ~Forwarded(r)
  BY <1>1 DEF Stage
<1>3. req' = Put(req, r, q)
  BY DEF Disconnect
<1> HIDE DEF rec
<1>4. /\ q \in Record /\ q.st = "gone" /\ q.in = rec.in /\ q.at = rec.at
      /\ q.rule = rec.rule /\ q.checked = rec.checked /\ q.by = "none"
  BY <1>1 DEF Draft, Record
<1> HIDE DEF q
<1>5. req'[r] = q
  BY <1>3, <1>4, PutRequest DEF IInv
<1>6. UNCHANGED <<clock, born, served, ids, lifespan, oauth, wire, galaxy>>
  BY DEF Disconnect
<1>7. Granted(req[r])' /\ ~Forwarded(r)'
  BY <1>2, <1>4, <1>5, <1>6, Keeps DEF Forwarded
<1>8. Stage(r)'
  BY <1>1, <1>4, <1>5, <1>6, <1>7 DEF Stage, Awaiting
<1> QED BY <1>2, <1>3, <1>4, <1>6, <1>8, Moves DEF ServedBut, Forwarded, IInv, TypeOK

LEMMA TokenFailedInvariant ==
    ASSUME IInv, NEW r \in Request, TokenFailed(r)
    PROVE  IInv'
<1>0. PICK rec \in Draft : rec = req[r]
  BY Waiting DEF TokenFailed
<1>1. /\ rec \in Draft /\ rec.by = "none" /\ rec.at <= clock
      /\ Stage(r) /\ rec.st = "token"
      /\ rec.rule # Auth!NoRule => Granted(rec)
  BY <1>0, Waiting DEF TokenFailed
<1>2. ~Forwarded(r)
  BY <1>0, <1>1 DEF Stage
<1>3. req' = Put(req, r, Refused(rec, 500))
  BY <1>0 DEF TokenFailed
<1>7. ServedBut(r) /\ UNCHANGED <<clock, born, ids, lifespan, oauth, wire, galaxy>>
  BY <1>0 DEF TokenFailed, ServedBut
<1>4. Refused(rec, 500).code = 500
  BY <1>1, <1>2, RefusedRecord
<1>5. req'[r] = Refused(rec, 500) => Grounds(req[r])'
  BY <1>4 DEF Grounds
<1> QED BY <1>1, <1>2, <1>3, <1>5, <1>7, Refuses

LEMMA TokenFetchedInvariant ==
    ASSUME IInv, NEW r \in Request, TokenFetched(r)
    PROVE  IInv'
<1> DEFINE rec == req[r]
           s == In(rec).server
<1>1. /\ rec \in Draft /\ rec.by = "none" /\ rec.at <= clock
      /\ In(rec).server \in Server /\ In(rec).token.iss \in Urls
      /\ Stage(r) /\ rec.st = "token"
      /\ rec.rule # Auth!NoRule => Granted(rec)
  BY Waiting DEF TokenFetched
<1>2. Cleared(rec) /\ Granted(rec) /\ ~Forwarded(r) /\ s \in OAuth
  BY <1>1 DEF Stage, Cleared
<1>3. /\ oauth' = Put(oauth, ids[s], s) /\ Send(r, rec, s)
      /\ UNCHANGED <<clock, born, served, ids, lifespan, galaxy>>
  BY DEF TokenFetched
<1>4. DOMAIN oauth' \subseteq Id /\ oauth' \in [DOMAIN oauth' -> OAuth]
  BY <1>2, <1>3 DEF IInv, TypeOK, Put
<1>5. PICK q \in Record :
          /\ req' = Put(req, r, q)
          /\ q.in = rec.in /\ q.at = rec.at /\ q.rule = rec.rule
          /\ q.checked = rec.checked /\ q.by = "none"
          /\ \/ q.st = "sent" /\ wire' = wire \cup {r}
             \/ q.st = "gone" /\ wire' = wire
  <2> HIDE DEF rec
  <2>1. /\ [rec EXCEPT !.st = "sent", !.cred = s] \in Record
        /\ [rec EXCEPT !.st = "gone"] \in Record
    BY <1>1 DEF Draft, Record, Awaiting
  <2> QED BY <1>1, <1>3, <2>1 DEF Send, Draft
<1> HIDE DEF rec, s
<1>6. req'[r] = q
  BY <1>5, PutRequest DEF IInv
<1>7. Granted(req[r])' /\ Cleared(req[r])'
  BY <1>2, <1>3, <1>5, <1>6, Keeps
<1>8. In(req[r])' = In(rec) /\ (q.st # "sent" => ~Forwarded(r)')
  BY <1>2, <1>3, <1>5, <1>6 DEF In, Forwarded
<1>9. Stage(r)'
  BY <1>1, <1>3, <1>5, <1>6, <1>7, <1>8 DEF Stage
<1> QED BY <1>2, <1>3, <1>4, <1>5, <1>9, Moves DEF ServedBut, Forwarded, IInv, TypeOK

\* Galaxy gets a request; whether its reply is waited for or not.
LEMMA Receives ==
    ASSUME IInv, NEW r \in Request, NEW did \in {"published", "read", "refused"},
           NEW code \in Nat, NEW body \in GalaxyBody \cup {"text"},
           Receive(r, did, code, body), Says(req[r], code, did)
    PROVE  IInv'
<1>1. /\ r \in wire /\ wire' = wire \ {r} /\ galaxy' = Put(galaxy, r, did)
      /\ UNCHANGED <<clock, born, served, ids, lifespan, oauth>>
  BY DEF Receive
<1>2. /\ r \in DOMAIN req /\ r \notin DOMAIN galaxy /\ Forwarded(r)
      /\ Stage(r) /\ req[r] \in Record
  BY <1>1 DEF IInv, TypeOK, Forwarded
<1>3. /\ DOMAIN galaxy' = DOMAIN galaxy \cup {r} /\ galaxy'[r] = did
      /\ \A x \in DOMAIN galaxy : x # r => galaxy'[x] = galaxy[x]
      /\ galaxy' \in [DOMAIN galaxy' -> {"published", "read", "refused"}]
  BY <1>1 DEF Put, IInv, TypeOK
<1>4. Cleared(req[r]) /\ (req[r].rule # Auth!NoRule => Granted(req[r]))
  BY <1>2 DEF Stage
<1>5. PICK q \in Record :
         /\ req' \in [DOMAIN req -> Record] /\ req'[r] = q
         /\ \A x \in DOMAIN req \ {r} : req'[x] = req[x]
         /\ q.in = req[r].in /\ q.at = req[r].at /\ q.rule = req[r].rule
         /\ q.checked = req[r].checked /\ q.by = req[r].by /\ q.code = req[r].code
         /\ \/ q = req[r] /\ q.st # "sent"
            \/ q.st = "replied" /\ req[r].st = "sent" /\ q.reply = code
  <2>1. CASE req[r].st = "sent"
    <3> DEFINE q == [req[r] EXCEPT !.st = "replied", !.reply = code, !.body = body]
    <3>1. /\ q \in Record /\ q.st = "replied" /\ q.reply = code
          /\ q.in = req[r].in /\ q.at = req[r].at /\ q.rule = req[r].rule
          /\ q.checked = req[r].checked /\ q.by = req[r].by /\ q.code = req[r].code
      BY <1>2 DEF Record, Awaiting
    <3>2. req' = Put(req, r, q)
      BY <2>1 DEF Receive
    <3> HIDE DEF q
    <3>3. /\ req' \in [DOMAIN req -> Record] /\ req'[r] = q
          /\ \A x \in DOMAIN req \ {r} : req'[x] = req[x]
      <4>1. DOMAIN req \cup {r} = DOMAIN req
        BY <1>2
      <4> QED BY <3>1, <3>2, <4>1 DEF Put, IInv, TypeOK
    <3> QED BY <2>1, <3>1, <3>3
  <2>2. CASE req[r].st # "sent"
    <3>1. req' = req
      BY <2>2 DEF Receive
    <3> QED BY <1>2, <2>2, <3>1 DEF IInv, TypeOK
  <2> QED BY <2>1, <2>2
<1>6. /\ clock' = clock /\ born' = born /\ served' = served /\ oauth' = oauth
      /\ ids' = ids /\ lifespan' = lifespan
  BY <1>1
<1>7. TypeOK' /\ Past' /\ (wire \cap DOMAIN galaxy = {})'
  <2>1. /\ DOMAIN req' = DOMAIN req /\ req' \in [DOMAIN req' -> Record]
    BY <1>5
  <2>2. /\ DOMAIN req \subseteq Request /\ wire \subseteq DOMAIN req
        /\ DOMAIN galaxy \subseteq DOMAIN req
    BY DEF IInv, TypeOK
  <2>3. /\ wire' \subseteq DOMAIN req' /\ DOMAIN galaxy' \subseteq DOMAIN req'
        /\ DOMAIN req' \subseteq Request
    BY <1>1, <1>2, <1>3, <2>1, <2>2
  <2>4. TypeOK'
    BY <1>3, <1>6, <2>1, <2>3 DEF IInv, TypeOK
  <2>5. Past'
    BY <1>6 DEF IInv, Past
  <2>6. wire' \cap DOMAIN galaxy' = {}
    BY <1>1, <1>3 DEF IInv
  <2> QED BY <2>4, <2>5, <2>6
<1>8. Only(r)
  BY <1>1, <1>2, <1>3, <1>5, <1>6 DEF Only
<1>9. /\ Cleared(req[r])' /\ (req[r].rule # Auth!NoRule => Granted(req[r])')
  BY <1>4, <1>5, <1>6, Keeps
<1>10. /\ Forwarded(r)' /\ In(q) = In(req[r])
       /\ Says(q, code, did)
  BY <1>3, <1>5 DEF Forwarded, In, Says
<1>11. /\ req[r].st \notin {"keys", "body", "token", "replied"} /\ req[r].by # "galaxy"
       /\ req[r].st # "done" => req[r].by = "none"
       /\ req[r].at <= clock
       /\ req[r].st \in Awaiting => In(req[r]).server \in Server
                                   /\ In(req[r]).token.iss \in Urls
  BY <1>2 DEF Stage
<1>12. ASSUME q = req[r] /\ q.st # "sent" PROVE Stage(r)'
  <2>1. /\ req'[r] = req[r] /\ q.st \notin Awaiting
    BY <1>2, <1>5, <1>11, <1>12 DEF Awaiting
  <2>2. Grounds(req[r]) => Grounds(req[r])'
    BY <1>6, <2>1 DEF Grounds, Unsigned, KeySource!Docs, KeySource!Recent
  <2>3. req[r].by = "gateway" =>
           /\ Grounds(req[r])
           /\ \/ req[r].code = 502
              \/ /\ req[r].code = 500 /\ In(req[r]).method = "POST"
                 /\ req[r].body = "undecodable"
    BY <1>2 DEF Stage
  <2> QED BY <1>6, <1>9, <1>10, <1>11, <1>12, <2>1, <2>2, <2>3 DEF Stage, Awaiting
<1>13. ASSUME q.st = "replied" /\ req[r].st = "sent" /\ q.reply = code
       PROVE  Stage(r)'
  <2>1. Says(q, q.reply, galaxy'[r]) /\ r \in DOMAIN galaxy'
    BY <1>3, <1>10, <1>13
  <2>2. /\ q.by = "none" /\ In(q).server \in Server /\ In(q).token.iss \in Urls
        /\ q.at <= clock'
    BY <1>5, <1>6, <1>10, <1>11, <1>13 DEF Awaiting
  <2>3. req'[r] = q
    BY <1>5
  <2>4. In(req[r])' = In(q) /\ Says(req[r], req[r].reply, galaxy[r])'
    BY <2>1, <2>3 DEF In, Says
  <2> QED BY <1>5, <1>9, <1>10, <1>13, <2>1, <2>2, <2>3, <2>4 DEF Stage, Awaiting
<1>14. Stage(r)'
  BY <1>5, <1>12, <1>13
<1> QED BY <1>7, <1>8, <1>14, OthersStay DEF IInv

LEMMA GalaxyInvariant ==
    ASSUME IInv, NEW r \in Request,
           GalaxyAccepts(r) \/ GalaxyReads(r) \/ GalaxyRefuses(r)
    PROVE  IInv'
<1>1. PICK did \in {"published", "read", "refused"}, code \in Nat,
           body \in GalaxyBody \cup {"text"} :
         Receive(r, did, code, body) /\ Says(req[r], code, did)
  <2>1. CASE GalaxyAccepts(r)
    BY <2>1 DEF GalaxyAccepts, Says
  <2>2. CASE GalaxyReads(r)
    <3>1. In(req[r]).method = "GET" \/ PostRedirect
      BY <2>2 DEF GalaxyReads
    <3> QED BY <2>2, <3>1 DEF GalaxyReads, Says
  <2>3. CASE GalaxyRefuses(r)
    BY <2>3 DEF GalaxyRefuses, Says
  <2> QED BY <2>1, <2>2, <2>3
<1> QED BY <1>1, Receives

LEMMA TimeoutInvariant ==
    ASSUME IInv, NEW r \in Request, Timeout(r)
    PROVE  IInv'
<1>0. PICK rec \in Draft : rec = req[r]
  BY Waiting DEF Timeout
<1>1. /\ rec.by = "none" /\ rec.at <= clock
      /\ Stage(r) /\ rec.st \in {"sent", "replied"}
      /\ rec.rule # Auth!NoRule => Granted(rec)
  BY <1>0, Waiting DEF Timeout
<1>2. Cleared(rec)
  BY <1>0, <1>1 DEF Stage
<1>3. PICK code \in Nat : code = 502 /\ req' = Put(req, r, Refused(rec, code))
  BY <1>0 DEF Timeout
<1>4. PICK q \in Record :
         /\ q = Refused(rec, code)
         /\ q.st = "done" /\ q.by = "gateway" /\ q.code = code
         /\ q.in = rec.in /\ q.at = rec.at /\ q.rule = rec.rule
         /\ q.checked = rec.checked /\ q.body = rec.body
  BY <1>3, RefusedRecord
<1>5. req'[r] = q
  <2>1. req' = Put(req, r, q)
    BY <1>3, <1>4
  <2> QED BY <2>1, PutRequest DEF IInv
<1>6. /\ UNCHANGED <<clock, born, served, ids, lifespan, oauth, galaxy>>
      /\ wire' \in {wire, wire \ {r}}
  BY DEF Timeout
<1>7. Cleared(req[r])' /\ (rec.rule # Auth!NoRule => Granted(req[r])')
  BY <1>1, <1>2, <1>4, <1>5, <1>6, Keeps
<1>8. Grounds(req[r])'
  BY <1>3, <1>4, <1>5 DEF Grounds
<1>9. Stage(r)'
  BY <1>1, <1>3, <1>4, <1>5, <1>6, <1>7, <1>8 DEF Stage, Awaiting
<1>10. ServedBut(r) /\ req' = Put(req, r, q) /\ UNCHANGED <<clock, born, ids, lifespan, galaxy>>
  BY <1>3, <1>4, <1>6 DEF ServedBut
<1>11. /\ wire' \in {wire, wire \cup {r}, wire \ {r}}
       /\ r \in wire' => r \notin DOMAIN galaxy
       /\ DOMAIN oauth' \subseteq Id /\ oauth' \in [DOMAIN oauth' -> OAuth]
  BY <1>6 DEF IInv, TypeOK
<1> QED BY <1>4, <1>9, <1>10, <1>11, Moves

LEMMA AnswerInvariant ==
    ASSUME IInv, NEW r \in Request, Answer(r)
    PROVE  IInv'
<1>0. PICK rec \in Draft : rec = req[r]
  BY Waiting DEF Answer
<1>1. /\ rec.by = "none" /\ rec.at <= clock
      /\ Stage(r) /\ rec.st = "replied"
      /\ rec.rule # Auth!NoRule => Granted(rec)
  BY <1>0, Waiting DEF Answer
<1>2. Cleared(rec) /\ r \in DOMAIN galaxy /\ Says(rec, rec.reply, galaxy[r])
  BY <1>0, <1>1 DEF Stage
<1>3. PICK q \in Record :
         /\ req' = Put(req, r, q)
         /\ q.st = "done" /\ q.in = rec.in /\ q.at = rec.at /\ q.rule = rec.rule
         /\ q.checked = rec.checked /\ q.body = rec.body
         /\ \/ q.by = "galaxy" /\ q.code = rec.reply
            \/ /\ q.by = "gateway" /\ q.code = 500 /\ q.body = "undecodable"
               /\ In(rec).method = "POST"
  <2>1. CASE In(rec).method = "POST" /\ rec.body = "undecodable"
    <3>1. PICK code \in Nat : code = 500 /\ req' = Put(req, r, Refused(rec, code))
      BY <1>0, <2>1 DEF Answer
    <3>2. PICK q \in Record :
             /\ q = Refused(rec, code)
             /\ q.st = "done" /\ q.by = "gateway" /\ q.code = code
             /\ q.in = rec.in /\ q.at = rec.at /\ q.rule = rec.rule
             /\ q.checked = rec.checked /\ q.body = rec.body
      BY <3>1, RefusedRecord
    <3> QED BY <2>1, <3>1, <3>2
  <2>2. CASE ~(In(rec).method = "POST" /\ rec.body = "undecodable")
    <3> DEFINE q == [rec EXCEPT !.st = "done", !.by = "galaxy", !.code = rec.reply]
    <3>1. /\ q \in Record /\ q.by = "galaxy" /\ q.code = rec.reply
          /\ q.st = "done" /\ q.in = rec.in /\ q.at = rec.at /\ q.rule = rec.rule
          /\ q.checked = rec.checked /\ q.body = rec.body
      BY DEF Draft, Record
    <3>2. req' = Put(req, r, q)
      BY <1>0, <2>2 DEF Answer
    <3> QED BY <3>1, <3>2
  <2> QED BY <2>1, <2>2
<1>4. req'[r] = q
  BY <1>3, PutRequest DEF IInv
<1>5. UNCHANGED <<clock, born, served, ids, lifespan, oauth, wire, galaxy>>
  BY DEF Answer
<1>6. Cleared(req[r])' /\ (rec.rule # Auth!NoRule => Granted(req[r])')
  BY <1>1, <1>2, <1>3, <1>4, <1>5, Keeps
<1>7. In(req[r])' = In(rec)
  BY <1>3, <1>4 DEF In
<1>8. q.by = "galaxy" => r \in DOMAIN galaxy' /\ Says(req[r], req[r].code, galaxy[r])'
  BY <1>2, <1>3, <1>4, <1>5, <1>7 DEF Says
<1>9. q.by = "gateway" => Grounds(req[r])'
  BY <1>3, <1>4 DEF Grounds
<1>10. Stage(r)'
  BY <1>1, <1>3, <1>4, <1>5, <1>6, <1>7, <1>8, <1>9 DEF Stage, Awaiting
<1>11. r \in wire' => r \notin DOMAIN galaxy
  BY <1>5 DEF IInv
<1> QED BY <1>3, <1>5, <1>10, <1>11, Moves DEF ServedBut, IInv, TypeOK

LEMMA NextInvariant == IInv /\ [Next]_vars => IInv'
<1> SUFFICES ASSUME IInv, [Next]_vars PROVE IInv'
  OBVIOUS
<1>1. CASE Time
  BY <1>1, TimeInvariant
<1>2. CASE Restart
  BY <1>2, RestartInvariant
<1>3. ASSUME NEW r \in Request, NEW n \in 1 .. Len(Input),
             RefuseAtOnce(r, n) \/ ArriveKeysCached(r, n) \/ ArriveKeysMissing(r, n)
      PROVE  IInv'
  BY <1>3, RefuseAtOnceInvariant, ArriveKeysCachedInvariant, ArriveKeysMissingInvariant
<1>4. ASSUME NEW r \in Request, KeysFetched(r) \/ KeysFailed(r)
      PROVE  IInv'
  BY <1>4, KeysFetchedInvariant, KeysFailedInvariant
<1>5. ASSUME NEW r \in Request, BodyRead(r) \/ Disconnect(r)
      PROVE  IInv'
  BY <1>5, BodyReadInvariant, DisconnectInvariant
<1>6. ASSUME NEW r \in Request, TokenFetched(r) \/ TokenFailed(r)
      PROVE  IInv'
  BY <1>6, TokenFetchedInvariant, TokenFailedInvariant
<1>7. ASSUME NEW r \in Request, GalaxyAccepts(r) \/ GalaxyReads(r) \/ GalaxyRefuses(r)
      PROVE  IInv'
  BY <1>7, GalaxyInvariant
<1>8. ASSUME NEW r \in Request, Timeout(r) \/ Answer(r)
      PROVE  IInv'
  BY <1>8, TimeoutInvariant, AnswerInvariant
<1>9. CASE UNCHANGED vars
  <2>1. UNCHANGED <<clock, born, served, ids, lifespan, oauth, req, wire, galaxy>>
    BY <1>9 DEF vars
  <2>2. TypeOK' /\ Past' /\ (wire \cap DOMAIN galaxy = {})'
    BY <2>1 DEF IInv, TypeOK, Past
  <2>3. ASSUME NEW x \in DOMAIN req PROVE Stage(x)'
    <3>1. Stage(x)
      BY DEF IInv
    <3> QED BY <2>1, <3>1 DEF Stage, Granted, Cleared, Grounds, Signed, Unsigned,
               Forwarded, KeySource!Docs, KeySource!Recent
  <2> QED BY <2>1, <2>2, <2>3 DEF IInv
<1> QED BY <1>1, <1>2, <1>3, <1>4, <1>5, <1>6, <1>7, <1>8, <1>9 DEF Next, Over

\* The inductive invariant: each request is at a stage that its past explains,
\* and Galaxy has not answered what it has not yet got.
THEOREM Invariance == Spec => []IInv
BY InitInvariant, NextInvariant, PTL DEF Spec

\* Every step keeps to the types of the state.
THEOREM TypeCorrect == Spec => []TypeOK
<1>1. IInv => TypeOK
  BY DEF IInv
<1> QED BY <1>1, Invariance, PTL

-----------------------------------------------------------------------------
\* What follows of a request that has been forwarded, from the stage it is at.
LEMMA ForwardedStage ==
    ASSUME IInv, NEW r \in DOMAIN req, Forwarded(r)
    PROVE  /\ Granted(req[r]) /\ Cleared(req[r])
           /\ In(req[r]).token.iss \in Urls
           /\ req[r].in \in 1 .. Len(Input) /\ Ordered(In(req[r]).upload)
<1>1. Stage(r) /\ req[r] \in Record
  BY DEF IInv, TypeOK
<1>2. Cleared(req[r]) /\ Granted(req[r])
  BY <1>1 DEF Stage, Cleared
<1>3. req[r].in \in 1 .. Len(Input)
  BY <1>1 DEF Record
<1>4. Ordered(Input[req[r].in].upload)
  BY <1>3, OrderAssumption DEF Ordered
<1> QED BY <1>2, <1>3, <1>4 DEF Granted, Signed, In

\* The rule that let a request pass is the first that applies to its token.
LEMMA GrantedByFirstRule ==
    ASSUME NEW q, Granted(q), q.rule # Auth!NoRule
    PROVE  /\ q.rule \in DOMAIN Rules /\ Applies(q.rule, In(q).token)
           /\ \A j \in 1 .. q.rule - 1 : ~Applies(j, In(q).token)
           /\ In(q).server \in Rules[q.rule].servers
<1> DEFINE token == In(q).token
           k == Auth!FindRule(Rules, token.claims, IssuerId(token.iss))
<1>1. q.rule = k /\ token.iss \in Urls
  BY DEF Granted, Signed, RuleOf
<1>2. Len(Rules) \in Nat /\ DOMAIN Rules = 1 .. Len(Rules)
  BY OrderAssumption DEF IsList
<1>3. /\ k \in 1 .. Len(Rules)
      /\ Auth!RuleMatches(Rules[k], token.claims, IssuerId(token.iss))
      /\ \A j \in 1 .. k - 1 : ~Auth!RuleMatches(Rules[j], token.claims, IssuerId(token.iss))
  BY <1>1, <1>2, FindRuleFirst
<1> HIDE DEF k
<1>4. Applies(k, token) /\ \A j \in 1 .. k - 1 : ~Applies(j, token)
  BY <1>1, <1>3, AppliesToIssuer
<1> QED BY <1>1, <1>2, <1>3, <1>4 DEF Granted, Auth!ServerAllowed

\* Whatever is forwarded was allowed by the first rule that matches its token,
\* for the server and for a collection in the upload, whatever the client sends:
\* for the one that Galaxy will find, when there is no doubt which part it is in.
THEOREM Authorized == Spec => []ForwardedIsAuthorized
<1>1. ASSUME IInv PROVE ForwardedIsAuthorized
  <2> SUFFICES ASSUME NEW r \in DOMAIN req, Forwarded(r)
               PROVE  LET in == In(req[r])
                      IN  /\ \E k \in DOMAIN Rules :
                                /\ Applies(k, in.token)
                                /\ \A j \in 1 .. k - 1 : ~Applies(j, in.token)
                                /\ in.server \in Rules[k].servers
                                /\ in.method = "POST" =>
                                      /\ Offered(in.upload)
                                            \cap Rules[k].allowed_collections # {}
                                      /\ Unambiguous(in.upload) =>
                                            /\ Uploaded(in.upload) # {}
                                            /\ Uploaded(in.upload)
                                                  \subseteq Rules[k].allowed_collections
                          /\ in.token.exp > req[r].checked
    BY DEF ForwardedIsAuthorized
  <2> DEFINE q == req[r]
             upload == In(q).upload
  <2>1. Granted(q) /\ Cleared(q) /\ q.in \in 1 .. Len(Input) /\ Ordered(upload)
    BY <1>1, ForwardedStage
  <2>2. /\ q.rule \in DOMAIN Rules /\ Applies(q.rule, In(q).token)
        /\ \A j \in 1 .. q.rule - 1 : ~Applies(j, In(q).token)
        /\ In(q).server \in Rules[q.rule].servers
    BY <2>1, GrantedByFirstRule DEF Cleared
  <2>3. ASSUME In(q).method = "POST"
        PROVE  /\ Offered(upload) \cap Rules[q.rule].allowed_collections # {}
               /\ Unambiguous(upload) =>
                     /\ Uploaded(upload) # {}
                     /\ Uploaded(upload) \subseteq Rules[q.rule].allowed_collections
    <3>1. /\ Coll!Extract(upload).code = 200
          /\ Coll!Extract(upload).collection \in Rules[q.rule].allowed_collections
      BY <2>1, <2>3 DEF Cleared, Auth!CollectionAllowed
    <3>2. Coll!Extract(upload).collection \in Offered(upload)
      BY <2>1, <3>1, ExtractedIsOffered
    <3>3. Unambiguous(upload) => Uploaded(upload) = {Coll!Extract(upload).collection}
      BY <2>1, <3>1, ExtractedIsUploaded
    <3> QED BY <3>1, <3>2, <3>3
  <2>4. In(q).token.exp > q.checked
    BY <2>1 DEF Granted
  <2> QED BY <2>2, <2>3, <2>4
<1> QED BY <1>1, Invariance, PTL

\* The key that signed a forwarded request's token was published, by its issuer,
\* in a document that was current less than TTL before the request arrived.
THEOREM SignedByPublishedKey == Spec => []ForwardedKeyWasPublished
<1>1. ASSUME IInv PROVE ForwardedKeyWasPublished
  <2> SUFFICES ASSUME NEW r \in DOMAIN req, Forwarded(r)
               PROVE  \E d \in KeySource!Docs(In(req[r]).token.iss) :
                         /\ KeySource!Recent(d, req[r].at)
                         /\ \E n \in DOMAIN Keys[d.ver] :
                               Keys[d.ver][n] = In(req[r]).token.key
    BY DEF ForwardedKeyWasPublished
  <2> QED BY <1>1, ForwardedStage DEF Granted, Signed, SignatureOk
<1> QED BY <1>1, Invariance, PTL

\* A token in force that names its key is refused only for a document that its
\* own issuer published before the check, not TTL before the request arrived,
\* and that lacks the key, or because there was no key set.
THEOREM RefusedForMissingKey == Spec => []RefusalExplained
<1>1. ASSUME IInv PROVE RefusalExplained
  <2> SUFFICES ASSUME NEW r \in DOMAIN req,
                      req[r].by = "gateway", req[r].code = 401, req[r].checked >= 0,
                      In(req[r]).token.kid, In(req[r]).token.aud = Audience,
                      In(req[r]).token.exp > req[r].checked
               PROVE  \E d \in KeySource!Docs(In(req[r]).token.iss) :
                         /\ KeySource!Recent(d, req[r].at)
                         /\ born[In(req[r]).token.iss][d.ver] <= req[r].checked
                         /\ \A n \in DOMAIN Keys[d.ver] :
                               Keys[d.ver][n] # In(req[r]).token.key
    BY DEF RefusalExplained
  <2>1. Stage(r)
    BY <1>1 DEF IInv
  <2>2. Unsigned(req[r])
    BY <2>1 DEF Stage, Grounds
  <2> QED BY <2>2 DEF Unsigned, SignatureOk
<1> QED BY <1>1, Invariance, PTL

\* An upload as Galaxy's clients build it is not refused for its form, in any
\* order of its parts and members; one that is refused after a rule was found
\* holds a collection which that rule does not list.
THEOREM UploadRefusedForCollection == Spec => []UploadRefusalExplained
<1>1. ASSUME IInv PROVE UploadRefusalExplained
  <2> SUFFICES ASSUME NEW r \in DOMAIN req, req[r].by = "gateway",
                      Proper(In(req[r]).upload)
               PROVE  /\ req[r].code # 400
                      /\ req[r].code = 403 /\ req[r].rule # Auth!NoRule =>
                            Uploaded(In(req[r]).upload)
                               \cap Rules[req[r].rule].allowed_collections = {}
    BY DEF UploadRefusalExplained
  <2> DEFINE upload == In(req[r]).upload
  <2>1. Stage(r) /\ req[r] \in Record
    BY <1>1 DEF IInv, TypeOK
  <2>2. Grounds(req[r])
    BY <2>1 DEF Stage
  <2>3. Ordered(upload)
    BY <2>1, OrderAssumption DEF Record, In, Ordered
  <2>4. /\ Coll!Extract(upload).code = 200
        /\ Uploaded(upload) = {Coll!Extract(upload).collection}
    BY <2>3, ProperIsFound
  <2> QED BY <2>2, <2>4 DEF Grounds, Auth!CollectionAllowed
<1> QED BY <1>1, Invariance, PTL

\* With replies that decode, an error of the proxy's own, but for 502, means
\* that Galaxy never gets the request.
THEOREM OwnErrorUntouched ==
    ASSUME "undecodable" \notin GalaxyBody
    PROVE  Spec => []OwnErrorMeansUntouched
<1>1. ASSUME IInv PROVE OwnErrorMeansUntouched
  <2> SUFFICES ASSUME NEW r \in DOMAIN req,
                      req[r].by = "gateway", req[r].code # 502, Forwarded(r)
               PROVE  FALSE
    BY DEF OwnErrorMeansUntouched
  <2>1. Stage(r) /\ req[r] \in Record
    BY <1>1 DEF IInv, TypeOK
  <2>2. req[r].body # "undecodable"
    BY <2>1 DEF Record
  <2> QED BY <2>1, <2>2 DEF Stage
<1> QED BY <1>1, Invariance, PTL

\* Without redirects of a POST, the code that Galaxy answers an upload with, as
\* the client sees it, is a success exactly when the collection was published.
THEOREM CodeTells ==
    ASSUME PostRedirect = FALSE
    PROVE  Spec => []CodeTellsPublished
<1>1. ASSUME IInv PROVE CodeTellsPublished
  <2> SUFFICES ASSUME NEW r \in DOMAIN req,
                      req[r].by = "galaxy", In(req[r]).method = "POST"
               PROVE  req[r].code \in 200 .. 299 <=> galaxy[r] = "published"
    BY DEF CodeTellsPublished
  <2>1. Stage(r)
    BY <1>1 DEF IInv
  <2>2. Says(req[r], req[r].code, galaxy[r])
    BY <2>1 DEF Stage
  <2> QED BY <2>2 DEF Says
<1> QED BY <1>1, Invariance, PTL

-----------------------------------------------------------------------------
\* No step changes what Galaxy did, or the record of a request that has ended.
Lasts ==
    /\ \A x \in DOMAIN galaxy : x \in DOMAIN galaxy' /\ galaxy'[x] = galaxy[x]
    /\ \A x \in DOMAIN req : req[x].st = "done" => req'[x] = req[x]

LEMMA PutLasts ==
    ASSUME NEW r, NEW q, req' = Put(req, r, q), UNCHANGED galaxy,
           r \in DOMAIN req => req[r].st # "done"
    PROVE  Lasts
BY DEF Put, Lasts

LEMMA ProxyPuts ==
    ASSUME NEW r, NEW rec, Proxy(r, rec)
    PROVE  \E q : req' = Put(req, r, q)
BY DEF Proxy, Send

LEMMA ContinuePuts ==
    ASSUME NEW r, NEW rec, Continue(r, rec)
    PROVE  \E q : req' = Put(req, r, q)
BY ProxyPuts DEF Continue

LEMMA StepLasts ==
    ASSUME IInv, [Next]_vars
    PROVE  Lasts
<1>1. CASE Time \/ Restart \/ UNCHANGED vars
  BY <1>1 DEF Time, Restart, vars, Lasts
<1>2. ASSUME NEW r \in Request, NEW n \in 1 .. Len(Input),
             \/ RefuseAtOnce(r, n)
             \/ ArriveKeysCached(r, n)
             \/ ArriveKeysMissing(r, n)
      PROVE  Lasts
  <2>1. (\E q : req' = Put(req, r, q)) /\ UNCHANGED galaxy /\ r \notin DOMAIN req
    BY <1>2, ContinuePuts DEF RefuseAtOnce, ArriveKeysCached, ArriveKeysMissing
  <2> QED BY <2>1, PutLasts
<1>3. ASSUME NEW r \in Request,
             KeysFetched(r) \/ KeysFailed(r) \/ BodyRead(r) \/ Disconnect(r)
      PROVE  Lasts
  <2>1. (\E q : req' = Put(req, r, q)) /\ UNCHANGED galaxy
    BY <1>3, ContinuePuts, ProxyPuts DEF KeysFetched, KeysFailed, BodyRead, Disconnect
  <2>2. req[r].st # "done"
    BY <1>3 DEF KeysFetched, KeysFailed, BodyRead, Disconnect
  <2> QED BY <2>1, <2>2, PutLasts
<1>4. ASSUME NEW r \in Request,
             TokenFetched(r) \/ TokenFailed(r) \/ Timeout(r) \/ Answer(r)
      PROVE  Lasts
  <2>1. (\E q : req' = Put(req, r, q)) /\ UNCHANGED galaxy
    BY <1>4 DEF TokenFetched, Send, TokenFailed, Timeout, Answer
  <2>2. req[r].st # "done"
    BY <1>4 DEF TokenFetched, TokenFailed, Timeout, Answer
  <2> QED BY <2>1, <2>2, PutLasts
<1>5. ASSUME NEW r \in Request, GalaxyAccepts(r) \/ GalaxyReads(r) \/ GalaxyRefuses(r)
      PROVE  Lasts
  <2>1. PICK did, code, body : Receive(r, did, code, body)
    BY <1>5 DEF GalaxyAccepts, GalaxyReads, GalaxyRefuses
  <2>2. /\ r \notin DOMAIN galaxy /\ galaxy' = Put(galaxy, r, did)
        /\ \/ \E q : req' = Put(req, r, q) /\ req[r].st = "sent"
           \/ req' = req
    BY <2>1 DEF Receive, IInv
  <2>3. \A x \in DOMAIN galaxy : x \in DOMAIN galaxy' /\ galaxy'[x] = galaxy[x]
    BY <2>2 DEF Put
  <2>4. \A x \in DOMAIN req : req[x].st = "done" => req'[x] = req[x]
    BY <2>2 DEF Put
  <2> QED BY <2>3, <2>4 DEF Lasts
<1> QED BY <1>1, <1>2, <1>3, <1>4, <1>5 DEF Next, Over

\* A request reaches Galaxy at most once: what Galaxy did about it stays, and it
\* is not on the wire again.  What its client was answered stays as well.
THEOREM ReachesOnce == Spec => ReachesGalaxyOnce
<1>1. ASSUME IInv, IInv', [Next]_vars
      PROVE  [/\ \A r \in DOMAIN galaxy : r \notin wire' /\ galaxy'[r] = galaxy[r]
              /\ \A r \in DOMAIN req : req[r].st = "done" => req'[r] = req[r]]_vars
  <2>1. Lasts
    BY <1>1, StepLasts
  <2>2. \A r \in DOMAIN galaxy : r \notin wire'
    BY <1>1, <2>1 DEF Lasts, IInv
  <2> QED BY <2>1, <2>2 DEF Lasts
<1> QED BY <1>1, Invariance, PTL DEF Spec, ReachesGalaxyOnce

-----------------------------------------------------------------------------
\* The tokens the cache holds under the ids of today's Server objects are those
\* objects' own; in the first lifespan there are no others, so that the objects
\* of a second one, which get new ids, find nothing.
OwnEntries ==
    /\ Injective(ids)
    /\ \A s \in OAuth : ids[s] \in DOMAIN oauth => oauth[ids[s]] = s
    /\ lifespan = 1 => DOMAIN oauth \subseteq {ids[s] : s \in OAuth}

Owned(r) ==
    req[r].st \in {"sent", "replied"} \/ Forwarded(r) => req[r].cred = In(req[r]).server

OwnTokens == OwnEntries /\ \A r \in DOMAIN req : Owned(r)

\* A step that stores q for r, and sends it only with its server's credentials.
Sends(r, q) ==
    /\ req' = Put(req, r, q) /\ wire' \in {wire, wire \cup {r}}
    /\ q.st \in {"sent", "replied"} \/ wire' # wire => q.cred = In(q).server

LEMMA OwnedPut ==
    ASSUME \A x \in DOMAIN req : Owned(x), NEW r, NEW q, req' = Put(req, r, q),
           UNCHANGED galaxy, wire' \in {wire, wire \cup {r}, wire \ {r}},
           q.st \in {"sent", "replied"} \/ Forwarded(r)' => q.cred = In(q).server
    PROVE  \A x \in DOMAIN req' : Owned(x)'
<1> SUFFICES ASSUME NEW x \in DOMAIN req' PROVE Owned(x)'
  OBVIOUS
<1>1. CASE x = r
  <2>1. req'[r] = q
    BY DEF Put
  <2> QED BY <1>1, <2>1 DEF Owned, In
<1>2. CASE x # r
  <2>1. x \in DOMAIN req /\ req'[x] = req[x]
    BY <1>2 DEF Put
  <2>2. Owned(x) /\ (Forwarded(x)' <=> Forwarded(x))
    BY <1>2, <2>1 DEF Forwarded
  <2> QED BY <2>1, <2>2 DEF Owned, In
<1> QED BY <1>1, <1>2

LEMMA SendOwned ==
    ASSUME NEW r, NEW rec \in Draft, NEW cred, cred = In(rec).server, Send(r, rec, cred)
    PROVE  \E q : Sends(r, q)
<1>1. CASE /\ req' = Put(req, r, [rec EXCEPT !.st = "sent", !.cred = cred])
           /\ wire' = wire \cup {r}
  <2> DEFINE q == [rec EXCEPT !.st = "sent", !.cred = cred]
  <2>1. q.cred = cred /\ q.in = rec.in
    BY DEF Draft
  <2>2. q.cred = In(q).server
    BY <2>1 DEF In
  <2>3. Sends(r, q)
    BY <1>1, <2>2 DEF Sends
  <2> QED BY <2>3
<1>2. CASE req' = Put(req, r, [rec EXCEPT !.st = "gone"]) /\ wire' = wire
  <2> DEFINE q == [rec EXCEPT !.st = "gone"]
  <2>1. q.st = "gone"
    BY DEF Draft
  <2>2. Sends(r, q)
    BY <1>2, <2>1 DEF Sends
  <2> QED BY <2>2
<1> QED BY <1>1, <1>2 DEF Send

LEMMA ProxyOwned ==
    ASSUME OwnEntries, NEW r, NEW rec \in Draft, Proxy(r, rec)
    PROVE  (\E q : Sends(r, q)) /\ UNCHANGED oauth
<1>1. CASE In(rec).server \notin OAuth /\ Send(r, rec, In(rec).server)
  BY <1>1, SendOwned DEF Proxy
<1>2. CASE /\ In(rec).server \in OAuth /\ ids[In(rec).server] \in DOMAIN oauth
           /\ Send(r, rec, oauth[ids[In(rec).server]])
  <2>1. oauth[ids[In(rec).server]] = In(rec).server
    BY <1>2 DEF OwnEntries
  <2> QED BY <1>2, <2>1, SendOwned DEF Proxy
<1>3. CASE req' = Put(req, r, [rec EXCEPT !.st = "token"]) /\ wire' = wire
  <2> DEFINE q == [rec EXCEPT !.st = "token"]
  <2>1. q.st = "token"
    BY DEF Draft
  <2>2. Sends(r, q)
    BY <1>3, <2>1 DEF Sends
  <2> QED BY <2>2 DEF Proxy
<1> QED BY <1>1, <1>2, <1>3 DEF Proxy

LEMMA JudgedDraft ==
    ASSUME IInv, NEW rec \in Draft, NEW doc
    PROVE  Judged(rec, doc) \in Draft
<1> DEFINE seen == [rec EXCEPT !.checked = clock]
           k == RuleOf(In(rec))
<1>1. seen \in Draft
  BY DEF Draft, IInv, Past
<1>2. k \in 0 .. Len(Rules)
  BY RuleOfType
<1>3. \A code \in Nat : Refused(seen, code) \in Draft
  BY <1>1, RefusedRecord, RecordIsDraft
<1> HIDE DEF seen, k
<1>4. [seen EXCEPT !.st = "allowed", !.rule = k] \in Draft
  BY <1>1, <1>2 DEF Draft
<1>5. 401 \in Nat /\ 403 \in Nat
  OBVIOUS
<1>6. Judged(rec, doc) \in {Refused(seen, 401), Refused(seen, 403),
                            [seen EXCEPT !.st = "allowed", !.rule = k]}
  BY DEF Judged, seen, k
<1> QED BY <1>3, <1>4, <1>5, <1>6

LEMMA ContinueOwned ==
    ASSUME OwnEntries, NEW r, NEW rec \in Draft, Continue(r, rec)
    PROVE  (\E q : Sends(r, q)) /\ UNCHANGED oauth
<1>1. CASE rec.st = "done" /\ req' = Put(req, r, rec) /\ UNCHANGED <<wire, oauth>>
  <2>1. Sends(r, rec)
    BY <1>1 DEF Sends
  <2> QED BY <1>1, <2>1
<1>2. CASE req' = Put(req, r, [rec EXCEPT !.st = "body"]) /\ UNCHANGED <<wire, oauth>>
  <2> DEFINE q == [rec EXCEPT !.st = "body"]
  <2>1. q.st = "body"
    BY DEF Draft
  <2>2. Sends(r, q)
    BY <1>2, <2>1 DEF Sends
  <2> QED BY <1>2, <2>2
<1>3. CASE Proxy(r, rec)
  BY <1>3, ProxyOwned
<1> QED BY <1>1, <1>2, <1>3 DEF Continue

\* A request that waits for keys, a body or a token has not been forwarded.
LEMMA SentOnceReady ==
    ASSUME OwnTokens, NEW r, ~Forwarded(r), UNCHANGED <<ids, lifespan, galaxy>>,
           \E q : Sends(r, q), OwnEntries'
    PROVE  OwnTokens'
<1>1. PICK q : Sends(r, q)
  OBVIOUS
<1>2. Forwarded(r)' => wire' # wire
  BY DEF Forwarded
<1>3. q.st \in {"sent", "replied"} \/ Forwarded(r)' => q.cred = In(q).server
  BY <1>1, <1>2 DEF Sends
<1>4. req' = Put(req, r, q) /\ wire' \in {wire, wire \cup {r}, wire \ {r}}
  BY <1>1 DEF Sends
<1>5. \A x \in DOMAIN req' : Owned(x)'
  BY <1>3, <1>4, OwnedPut DEF OwnTokens
<1> QED BY <1>5 DEF OwnTokens

LEMMA OwnEntriesKept ==
    ASSUME OwnEntries, UNCHANGED <<ids, lifespan, oauth>> PROVE OwnEntries'
BY DEF OwnEntries, Injective

LEMMA RefusedSends ==
    ASSUME NEW r, NEW rec \in Draft, NEW code \in Nat,
           req' = Put(req, r, Refused(rec, code)), UNCHANGED wire
    PROVE  \E q : Sends(r, q)
<1>1. Refused(rec, code).st = "done"
  BY RefusedRecord
<1>2. Sends(r, Refused(rec, code))
  BY <1>1 DEF Sends
<1> QED BY <1>2

LEMMA ArrivalOwned ==
    ASSUME IInv, OwnTokens, NEW r \in Request, NEW n \in 1 .. Len(Input),
           \/ RefuseAtOnce(r, n)
           \/ ArriveKeysCached(r, n)
           \/ ArriveKeysMissing(r, n)
    PROVE  OwnTokens'
<1> DEFINE rec == Arrived(n)
<1>1. rec \in Draft
  BY ArrivedRecord
<1>2. ~Forwarded(r) /\ UNCHANGED <<ids, lifespan, galaxy>>
  BY NewRequest DEF RefuseAtOnce, ArriveKeysCached, ArriveKeysMissing
<1>3. (\E q : Sends(r, q)) /\ UNCHANGED oauth
  <2>1. CASE RefuseAtOnce(r, n)
    <3>1. PICK code \in Nat : req' = Put(req, r, Refused(rec, code))
      BY <2>1 DEF RefuseAtOnce
    <3> HIDE DEF rec
    <3> QED BY <2>1, <1>1, <3>1, RefusedSends DEF RefuseAtOnce
  <2>2. CASE ArriveKeysCached(r, n)
    <3>1. PICK doc : Continue(r, Judged(rec, doc))
      BY <2>2 DEF ArriveKeysCached
    <3> HIDE DEF rec
    <3>2. Judged(rec, doc) \in Draft
      BY <1>1, JudgedDraft
    <3> QED BY <3>1, <3>2, ContinueOwned DEF OwnTokens
  <2>3. CASE ArriveKeysMissing(r, n)
    <3> DEFINE q == [rec EXCEPT !.st = "keys"]
    <3>1. req' = Put(req, r, q) /\ UNCHANGED <<wire, oauth>>
      BY <2>3 DEF ArriveKeysMissing
    <3> HIDE DEF rec
    <3>2. q.st = "keys"
      BY <1>1 DEF Draft
    <3>3. Sends(r, q)
      BY <3>1, <3>2 DEF Sends
    <3> QED BY <3>1, <3>3
  <2> QED BY <2>1, <2>2, <2>3
<1> QED BY <1>2, <1>3, SentOnceReady, OwnEntriesKept DEF OwnTokens

LEMMA NotYetForwarded ==
    ASSUME IInv, NEW r, InFlight(r), req[r].st \in {"keys", "body", "token"}
    PROVE  ~Forwarded(r) /\ req[r] \in Draft
<1>1. Stage(r) /\ req[r] \in Draft
  BY Waiting
<1> QED BY <1>1 DEF Stage

LEMMA WaitingOwned ==
    ASSUME IInv, OwnTokens, NEW r \in Request,
           KeysFetched(r) \/ KeysFailed(r) \/ BodyRead(r) \/ Disconnect(r) \/ TokenFailed(r)
    PROVE  OwnTokens'
<1>0. PICK rec : rec = req[r]
  OBVIOUS
<1>1. ~Forwarded(r) /\ rec \in Draft
  BY <1>0, NotYetForwarded DEF KeysFetched, KeysFailed, BodyRead, Disconnect, TokenFailed
<1>2. UNCHANGED <<ids, lifespan, galaxy>>
  BY DEF KeysFetched, KeysFailed, BodyRead, Disconnect, TokenFailed
<1>3. (\E q : Sends(r, q)) /\ UNCHANGED oauth
  <2>1. CASE KeysFetched(r)
    <3>1. PICK doc : Continue(r, Judged(rec, doc))
      BY <1>0, <2>1 DEF KeysFetched
    <3>2. Judged(rec, doc) \in Draft
      BY <1>1, JudgedDraft
    <3> QED BY <3>1, <3>2, ContinueOwned DEF OwnTokens
  <2>2. CASE KeysFailed(r) \/ TokenFailed(r)
    <3>1. PICK code \in Nat : req' = Put(req, r, Refused(rec, code))
      BY <1>0, <2>2 DEF KeysFailed, TokenFailed
    <3> QED BY <1>1, <2>2, <3>1, RefusedSends DEF KeysFailed, TokenFailed
  <2>3. CASE BodyRead(r)
    <3>1. \/ Proxy(r, rec)
          \/ \E code \in Nat : req' = Put(req, r, Refused(rec, code))
                               /\ UNCHANGED <<wire, oauth>>
      <4>1. Extracted[req[r].in].code \in Nat
        BY <1>0, <1>1, ExtractedOf, ExtractCodes
      <4>2. 403 \in Nat
        OBVIOUS
      <4> QED BY <1>0, <2>3, <4>1, <4>2 DEF BodyRead
    <3> QED BY <1>1, <3>1, ProxyOwned, RefusedSends DEF OwnTokens
  <2>4. CASE Disconnect(r)
    <3> DEFINE q == [rec EXCEPT !.st = "gone"]
    <3>1. req' = Put(req, r, q) /\ UNCHANGED <<wire, oauth>>
      BY <1>0, <2>4 DEF Disconnect
    <3>2. q.st = "gone"
      BY <1>1 DEF Draft
    <3>3. Sends(r, q)
      BY <3>1, <3>2 DEF Sends
    <3> QED BY <3>1, <3>3
  <2> QED BY <2>1, <2>2, <2>3, <2>4
<1> QED BY <1>1, <1>2, <1>3, SentOnceReady, OwnEntriesKept DEF OwnTokens

LEMMA TokenFetchedOwned ==
    ASSUME IInv, OwnTokens, NEW r \in Request, TokenFetched(r)
    PROVE  OwnTokens'
<1> DEFINE rec == req[r]
           s == In(rec).server
<1>1. ~Forwarded(r) /\ rec \in Draft
  BY NotYetForwarded DEF TokenFetched
<1>2. s \in OAuth
  BY Waiting DEF TokenFetched, Stage
<1>3. /\ oauth' = Put(oauth, ids[s], s) /\ Send(r, rec, s)
      /\ UNCHANGED <<ids, lifespan, galaxy>>
  BY DEF TokenFetched
<1>4. DOMAIN ids = OAuth
  BY DEF IInv, TypeOK
<1> HIDE DEF rec
<1>5. \E q : Sends(r, q)
  BY <1>1, <1>3, SendOwned
<1> HIDE DEF s
<1>6. OwnEntries'
  <2>1. /\ DOMAIN oauth' = DOMAIN oauth \cup {ids[s]} /\ oauth'[ids[s]] = s
        /\ \A i \in DOMAIN oauth : i # ids[s] => oauth'[i] = oauth[i]
    BY <1>3 DEF Put
  <2>2. \A t \in OAuth : ids[t] = ids[s] => t = s
    BY <1>2, <1>4 DEF OwnTokens, OwnEntries, Injective
  <2>3. \A t \in OAuth : ids[t] \in DOMAIN oauth' => oauth'[ids[t]] = t
    BY <2>1, <2>2 DEF OwnTokens, OwnEntries
  <2>4. lifespan = 1 => DOMAIN oauth' \subseteq {ids[t] : t \in OAuth}
    BY <1>2, <2>1 DEF OwnTokens, OwnEntries
  <2> QED BY <1>3, <2>3, <2>4 DEF OwnTokens, OwnEntries, Injective
<1> QED BY <1>1, <1>3, <1>5, <1>6, SentOnceReady

LEMMA EndOwned ==
    ASSUME IInv, OwnTokens, NEW r \in Request, Timeout(r) \/ Answer(r)
    PROVE  OwnTokens'
<1> DEFINE rec == req[r]
<1>1. /\ rec \in Draft /\ rec.cred = In(rec).server
      /\ UNCHANGED <<ids, lifespan, oauth, galaxy>>
      /\ wire' \in {wire, wire \cup {r}, wire \ {r}}
  BY Waiting DEF Timeout, Answer, OwnTokens, Owned
<1>2. PICK q : req' = Put(req, r, q) /\ q.cred = rec.cred /\ q.in = rec.in
  <2> HIDE DEF rec
  <2>1. ASSUME NEW code, req' = Put(req, r, Refused(rec, code))
        PROVE  \E q : req' = Put(req, r, q) /\ q.cred = rec.cred /\ q.in = rec.in
    <3>1. Refused(rec, code).cred = rec.cred /\ Refused(rec, code).in = rec.in
      BY <1>1 DEF Refused, Draft
    <3> QED BY <2>1, <3>1
  <2>2. ASSUME req' = Put(req, r, [rec EXCEPT !.st = "done", !.by = "galaxy",
                                              !.code = rec.reply])
        PROVE  \E q : req' = Put(req, r, q) /\ q.cred = rec.cred /\ q.in = rec.in
    <3> DEFINE q == [rec EXCEPT !.st = "done", !.by = "galaxy", !.code = rec.reply]
    <3>1. q.cred = rec.cred /\ q.in = rec.in
      BY <1>1 DEF Draft
    <3> QED BY <2>2, <3>1
  <2> QED BY <2>1, <2>2 DEF rec, Timeout, Answer
<1>3. q.cred = In(q).server
  BY <1>1, <1>2 DEF In
<1>4. \A x \in DOMAIN req' : Owned(x)'
  BY <1>1, <1>2, <1>3, OwnedPut DEF OwnTokens
<1> QED BY <1>1, <1>4, OwnEntriesKept DEF OwnTokens

LEMMA GalaxyOwned ==
    ASSUME IInv, OwnTokens, NEW r \in Request,
           GalaxyAccepts(r) \/ GalaxyReads(r) \/ GalaxyRefuses(r)
    PROVE  OwnTokens'
<1>1. PICK did, code, body : Receive(r, did, code, body)
  BY DEF GalaxyAccepts, GalaxyReads, GalaxyRefuses
<1>2. /\ r \in wire /\ wire' = wire \ {r} /\ galaxy' = Put(galaxy, r, did)
      /\ UNCHANGED <<ids, lifespan, oauth>>
  BY <1>1 DEF Receive
<1>3. \A x : Forwarded(x)' <=> Forwarded(x)
  BY <1>2 DEF Forwarded, Put
<1>4. r \in DOMAIN req /\ Forwarded(r) /\ req[r] \in Draft
  BY <1>2, RecordIsDraft DEF IInv, TypeOK, Forwarded
<1>5. ASSUME NEW x \in DOMAIN req' PROVE Owned(x)'
  <2>1. CASE req' = req
    <3>1. Owned(x)
      BY <2>1 DEF OwnTokens
    <3> QED BY <1>3, <2>1, <3>1 DEF Owned, In
  <2>2. CASE req' # req
    <3> DEFINE q == [req[r] EXCEPT !.st = "replied", !.reply = code, !.body = body]
    <3>1. req' = Put(req, r, q)
      BY <1>1, <2>2 DEF Receive
    <3>2. q.cred = req[r].cred /\ q.in = req[r].in
      BY <1>4 DEF Draft
    <3> HIDE DEF q
    <3>3. DOMAIN req' = DOMAIN req /\ req'[r] = q
      BY <1>4, <3>1 DEF Put
    <3>4. x # r => req'[x] = req[x]
      BY <3>1 DEF Put
    <3>5. Owned(x) /\ Owned(r)
      BY <1>4, <3>3 DEF OwnTokens
    <3>6. CASE x = r
      BY <1>4, <3>2, <3>3, <3>5, <3>6 DEF Owned, In
    <3>7. CASE x # r
      BY <1>3, <3>4, <3>5, <3>7 DEF Owned, In
    <3> QED BY <3>6, <3>7
  <2> QED BY <2>1, <2>2
<1> QED BY <1>2, <1>5, OwnEntriesKept DEF OwnTokens

LEMMA RestartOwned ==
    ASSUME MaxLifespan <= 2, IInv, OwnTokens, Restart
    PROVE  OwnTokens'
<1>1. UNCHANGED <<oauth, req, wire, galaxy>> /\ lifespan' = lifespan + 1
  BY DEF Restart
<1>2. lifespan = 1 /\ lifespan' = 2
  BY <1>1, GatewayAssumption DEF Restart, IInv, TypeOK
<1>3. Injective(ids') /\ \A s \in OAuth : ids'[s] \notin {ids[t] : t \in OAuth}
  BY DEF Restart
<1>4. OwnEntries'
  BY <1>1, <1>2, <1>3 DEF OwnTokens, OwnEntries, Injective
<1>5. ASSUME NEW x \in DOMAIN req PROVE Owned(x)'
  <2>1. Owned(x)
    BY DEF OwnTokens
  <2> QED BY <1>1, <2>1 DEF Owned, Forwarded, In
<1> QED BY <1>1, <1>4, <1>5 DEF OwnTokens

\* In two lifespans of the application, a Galaxy server gets its own credentials
\* and never another's.
THEOREM OwnCredentialsOnly ==
    ASSUME MaxLifespan <= 2
    PROVE  Spec => []OwnCredentials
<1>1. Init => OwnTokens
  BY DEF Init, OwnTokens, OwnEntries
<1>2. ASSUME IInv, OwnTokens, [Next]_vars PROVE OwnTokens'
  <2>1. CASE Time \/ UNCHANGED vars
    <3>1. UNCHANGED <<ids, lifespan, oauth, req, wire, galaxy>>
      BY <2>1 DEF Time, vars
    <3>2. ASSUME NEW x \in DOMAIN req PROVE Owned(x)'
      <4>1. Owned(x)
        BY <1>2 DEF OwnTokens
      <4> QED BY <3>1, <4>1 DEF Owned, Forwarded, In
    <3> QED BY <1>2, <3>1, <3>2, OwnEntriesKept DEF OwnTokens
  <2>2. CASE Restart
    BY <1>2, <2>2, RestartOwned
  <2>3. ASSUME NEW r \in Request, NEW n \in 1 .. Len(Input),
               \/ RefuseAtOnce(r, n)
               \/ ArriveKeysCached(r, n)
               \/ ArriveKeysMissing(r, n)
        PROVE  OwnTokens'
    BY <1>2, <2>3, ArrivalOwned
  <2>4. ASSUME NEW r \in Request,
               KeysFetched(r) \/ KeysFailed(r) \/ BodyRead(r) \/ Disconnect(r)
                  \/ TokenFailed(r)
        PROVE  OwnTokens'
    BY <1>2, <2>4, WaitingOwned
  <2>5. ASSUME NEW r \in Request, TokenFetched(r) PROVE OwnTokens'
    BY <1>2, <2>5, TokenFetchedOwned
  <2>6. ASSUME NEW r \in Request, GalaxyAccepts(r) \/ GalaxyReads(r) \/ GalaxyRefuses(r)
        PROVE  OwnTokens'
    BY <1>2, <2>6, GalaxyOwned
  <2>7. ASSUME NEW r \in Request, Timeout(r) \/ Answer(r) PROVE OwnTokens'
    BY <1>2, <2>7, EndOwned
  <2> QED BY <1>2, <2>1, <2>2, <2>3, <2>4, <2>5, <2>6, <2>7 DEF Next, Over
<1>3. OwnTokens => OwnCredentials
  BY DEF OwnTokens, Owned, OwnCredentials
<1> QED BY <1>1, <1>2, <1>3, Invariance, PTL DEF Spec
=============================================================================
