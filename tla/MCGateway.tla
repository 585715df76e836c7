------------------------------ MODULE MCGateway ------------------------------
(***************************************************************************)
(* Model-checking instances of Gateway.  Of two keys in the issuer's first *)
(* document, its second replaces one and keeps the other.  Rule 2 lets     *)
(* repository a publish a.x to hub only; rule 3 matches it as well.        *)
(***************************************************************************)
EXTENDS Gateway, TLC

MCKeys == <<<<"k0", "k1">>, <<"k2", "k1">>>>

\* The second entry for u1 is never found, and neither is its generous rule.
MCIssuers == <<[id |-> "i1", issuer_url |-> "u1"], [id |-> "i0", issuer_url |-> "u1"]>>

MCRules ==
    <<[oidc_issuer |-> "i0", claims |-> [repo |-> {"a", "b"}],
       servers |-> {"hub", "ng"}, allowed_collections |-> {"a.x", "b.y"}],
      [oidc_issuer |-> "i1", claims |-> [repo |-> {"a"}],
       servers |-> {"hub"}, allowed_collections |-> {"a.x"}],
      [oidc_issuer |-> "i1", claims |-> [repo |-> {"a", "b"}],
       servers |-> {"hub", "ng"}, allowed_collections |-> {"a.x", "b.y"}]>>

Member(name, collection, has) ==
    [name |-> name, read |-> "content", json |-> "object", has |-> has,
     collection |-> collection]
Readme == [Member("README.md", "none", {}) EXCEPT !.json = "malformed"]
Manifest(collection) == Member("MANIFEST.json", collection, Coll!Fields)

Payload(kind, members) == [kind |-> kind, members |-> members]
Tarball(members) == Payload("tarball", members)
File(payload) == [field |-> "file", file |-> TRUE, payload |-> payload]
Sum == [field |-> "sha256", file |-> FALSE, payload |-> Payload("other", <<>>)]
Signature == [field |-> "signature", file |-> TRUE, payload |-> Payload("other", <<>>)]
Empty == [field |-> "signature", file |-> TRUE, payload |-> Payload("empty", <<>>)]
Form(parts) == [multipart |-> TRUE, parts |-> parts]

NoBody == [multipart |-> FALSE, parts |-> <<>>]
Raw(collection) == [multipart |-> FALSE, parts |-> <<File(Tarball(<<Manifest(collection)>>))>>]
FileFirst(collection) == Form(<<File(Tarball(<<Manifest(collection), Readme>>)), Sum>>)
Signed(collection) == Form(<<File(Tarball(<<Manifest(collection), Readme>>)), Signature>>)
Both(one, other) == Form(<<File(Tarball(<<Manifest(one)>>)), File(Tarball(<<Manifest(other)>>))>>)
FileLast(collection) == Form(<<Empty, Sum, File(Tarball(<<Readme, Manifest(collection)>>))>>)
Truncated == Form(<<File(Payload("truncated", <<>>))>>)
Nameless == Form(<<File(Tarball(<<Member("MANIFEST.json", "b.y", {"collection_info"})>>))>>)

Token(repo, key, kid, exp) ==
    [iss |-> "u1", key |-> key, kid |-> kid, aud |-> "us", exp |-> exp,
     claims |-> [repo |-> repo]]

Later == MaxClock + 1
Post(server, token, upload) ==
    [method |-> "POST", server |-> server, scheme |-> "token", token |-> token,
     upload |-> upload]
Get(server, token) ==
    [method |-> "GET", server |-> server, scheme |-> "token", token |-> token,
     upload |-> NoBody]
Bearer(input) == [input EXCEPT !.scheme = "bearer"]

\* One input per way a request may go: published, refused at each stage,
\* shadowed by the first rule, signed with an old, a new or an unnamed key,
\* expiring while the key set is fetched; parts and members in either order, a
\* second file with the first, and two collections sent at once.
MCInput ==
    <<Post("hub", Token("a", "k1", TRUE, Later), Both("a.x", "b.y")),
      Post("hub", Token("a", "k2", FALSE, Later), Signed("b.y")),
      Post("hub", Token("b", "k2", TRUE, 1), Raw("a.x")),
      Post("ng", Token("b", "k0", FALSE, Later), FileLast("b.y")),
      Post("ng", Token("b", "k2", TRUE, Later), Truncated),
      Post("ng", Token("b", "k1", FALSE, Later), Nameless),
      Get("ng", Token("a", "k1", TRUE, Later)),
      Get("hub", Token("b", "k0", TRUE, 1)),
      Get("nowhere", Token("a", "k1", TRUE, Later)),
      Bearer(Get("hub", Token("a", "k1", TRUE, Later)))>>

\* For the question whose credentials are used, two plain inputs suffice.
PlainInput ==
    <<Post("hub", Token("a", "k1", TRUE, Later), FileFirst("a.x")),
      Get("cert", Token("a", "k1", TRUE, Later))>>

PlainIssuers == <<[id |-> "i1", issuer_url |-> "u1"]>>

PlainRules ==
    <<[oidc_issuer |-> "i1", claims |-> [repo |-> {"a"}],
       servers |-> {"hub", "cert"}, allowed_collections |-> {"a.x"}]>>

Symmetry == Permutations(Request)
=============================================================================
