------------------------------ MODULE JWKSCache ------------------------------
(***************************************************************************)
(* JWKSCache.get of cache.py, called by concurrent requests.               *)
(*                                                                         *)
(* The event loop runs one request at a time and switches only at an       *)
(* await.  A call of get is therefore atomic up to its HTTP request (a hit *)
(* never awaits), and again from the response to its return.  Between      *)
(* these two, other calls run, the clock advances and the issuer may       *)
(* publish another document.  Nothing serialises two misses of the same    *)
(* issuer: their responses are stored in whatever order they arrive.       *)
(*                                                                         *)
(* An issuer's documents are numbered in the order it publishes them.      *)
(***************************************************************************)
EXTENDS Integers, Sequences

CONSTANTS
    Call,       \* identities of concurrent calls of get
    Issuer,     \* OIDC issuers, by issuer_url (the cache key)
    TTL,        \* the default of get's parameter ttl, 24 hours
    MaxClock,   \* bound on the clock
    MaxVersion  \* bound on the number of documents an issuer publishes

ASSUME TTLAssumption == TTL \in Nat \ {0}
ASSUME BoundAssumption == MaxClock \in Nat /\ MaxVersion \in Nat \ {0}

VARIABLES
    clock,      \* time.time(), in ticks
    born,       \* born[i][v]: when issuer i published its document number v
    cache,      \* self._cache: a partial function of Issuer
    call        \* call[c]: the latest call of get made under identity c

vars == <<clock, born, cache, call>>

Doc == [iss : Issuer, ver : Nat]      \* document number ver of an issuer
NoDoc(i) == [iss |-> i, ver |-> 0]    \* none yet
Entry == [value : Doc, expires_at : Nat]

\* fetching: awaits client.get; answered: the endpoint has produced the
\* response, which the call has not seen yet; done, failed: get has ended.
State == {"fetching", "answered", "done", "failed"}
CallRecord == [st : State, iss : Issuer, now : Nat, doc : Doc]

Busy(c) == c \in DOMAIN call /\ call[c].st \in {"fetching", "answered"}

\* The dictionary d with key k set to x.
Put(d, k, x) == [j \in DOMAIN d \cup {k} |-> IF j = k THEN x ELSE d[j]]

\* Mutations of the hit test: an off-by-one, and no expiry at all.
CacheHitAtExpiry(i, now) == i \in DOMAIN cache /\ cache[i].expires_at >= now
CacheHitForever(i, now) == i \in DOMAIN cache

CacheHit(i, now) == i \in DOMAIN cache /\ cache[i].expires_at > now

Init ==
    /\ clock = 0
    /\ born = [i \in Issuer |-> <<0>>]
    /\ cache = [i \in {} |-> {}]
    /\ call = [c \in {} |-> {}]

Tick ==
    /\ clock < MaxClock
    /\ clock' = clock + 1
    /\ UNCHANGED <<born, cache, call>>

\* The issuer rotates its keys: it replaces the document at its jwks_url.
Publish(i) ==
    /\ Len(born[i]) < MaxVersion
    /\ born' = [born EXCEPT ![i] = Append(@, clock)]
    /\ UNCHANGED <<clock, cache, call>>

Hit(c, i) ==
    /\ ~Busy(c)
    /\ CacheHit(i, clock)
    /\ call' = Put(call, c, [st |-> "done", iss |-> i, now |-> clock,
                             doc |-> cache[i].value])
    /\ UNCHANGED <<clock, born, cache>>

\* now is read here, before the request leaves.
Miss(c, i) ==
    /\ ~Busy(c)
    /\ ~CacheHit(i, clock)
    /\ call' = Put(call, c, [st |-> "fetching", iss |-> i, now |-> clock,
                             doc |-> NoDoc(i)])
    /\ UNCHANGED <<clock, born, cache>>

\* The JWKS endpoint answers with the document it publishes at this moment.
Respond(c) ==
    /\ Busy(c) /\ call[c].st = "fetching"
    /\ LET i == call[c].iss
       IN  call' = [call EXCEPT ![c].st = "answered",
                                ![c].doc = [iss |-> i, ver |-> Len(born[i])]]
    /\ UNCHANGED <<clock, born, cache>>

\* Mutations of the store: the clock is read after the fetch, as a reader
\* might expect; the lifetime is subtracted.
StoreAtLateClock(c) ==
    /\ Busy(c) /\ call[c].st = "answered"
    /\ cache' = Put(cache, call[c].iss,
                    [value |-> call[c].doc, expires_at |-> clock + TTL])
    /\ call' = [call EXCEPT ![c].st = "done"]
    /\ UNCHANGED <<clock, born>>

StoreExpired(c) ==
    /\ Busy(c) /\ call[c].st = "answered"
    /\ cache' = Put(cache, call[c].iss,
                    [value |-> call[c].doc, expires_at |-> call[c].now - TTL])
    /\ call' = [call EXCEPT ![c].st = "done"]
    /\ UNCHANGED <<clock, born>>

\* The call resumes, stores the document under its own now and returns it.
Store(c) ==
    /\ Busy(c) /\ call[c].st = "answered"
    /\ cache' = Put(cache, call[c].iss,
                    [value |-> call[c].doc, expires_at |-> call[c].now + TTL])
    /\ call' = [call EXCEPT ![c].st = "done"]
    /\ UNCHANGED <<clock, born>>

\* Mutation of the failure: what arrived is stored before raise_for_status.
FailCached(c) ==
    /\ Busy(c)
    /\ cache' = Put(cache, call[c].iss, [value |-> NoDoc(call[c].iss),
                                         expires_at |-> call[c].now + TTL])
    /\ call' = Put(call, c, [st |-> "failed", iss |-> call[c].iss,
                             now |-> call[c].now, doc |-> NoDoc(call[c].iss)])
    /\ UNCHANGED <<clock, born>>

\* The request times out or the connection breaks, at any moment before the
\* response has arrived, or raise_for_status or json() rejects the response.
\* The cache keeps what it holds.
Fail(c) ==
    /\ Busy(c)
    /\ call' = Put(call, c, [st |-> "failed", iss |-> call[c].iss,
                             now |-> call[c].now, doc |-> NoDoc(call[c].iss)])
    /\ UNCHANGED <<clock, born, cache>>

Next ==
    \/ Tick
    \/ \E i \in Issuer : Publish(i)
    \/ \E c \in Call :
          \/ \E i \in Issuer : Hit(c, i) \/ Miss(c, i)
          \/ Respond(c)
          \/ Store(c)
          \/ Fail(c)

Spec == Init /\ [][Next]_vars
-----------------------------------------------------------------------------
TypeOK ==
    /\ clock \in Nat
    /\ born \in [Issuer -> Seq(Nat)]
    /\ DOMAIN cache \subseteq Issuer
    /\ cache \in [DOMAIN cache -> Entry]
    /\ DOMAIN call \subseteq Call
    /\ call \in [DOMAIN call -> CallRecord]

\* d is a document of issuer i, and it was still the published one at some
\* moment not before t (a document is withdrawn when the next one is born).
PublishedAfter(d, i, t) ==
    /\ d.iss = i
    /\ d.ver \in 1 .. Len(born[i])
    /\ d.ver < Len(born[i]) => born[i][d.ver + 1] >= t

\* Whatever order concurrent responses are stored in, an entry stops being
\* served at the latest TTL after its document was withdrawn: expires_at is
\* computed from a time read before the fetch (cache.py, lines 53 and 75).
EntryExpires ==
    \A i \in DOMAIN cache :
        PublishedAfter(cache[i].value, i, cache[i].expires_at - TTL)

\* A call of get that returns, from the cache or from a fetch, returns a
\* document of its issuer that was published less than TTL before the call
\* began.  Seen from the issuer: a withdrawn key is trusted, and a new key is
\* unknown, in no call begun TTL or more after the rotation.
BoundedStaleness ==
    \A c \in DOMAIN call :
        call[c].st = "done" =>
            PublishedAfter(call[c].doc, call[c].iss, call[c].now - TTL + 1)

\* The cache may go back to an older document, but only when the call that
\* stores it began no later than the newer one was published: a call begun
\* after a rotation never undoes it.
RegressesOnlyByOverlap ==
    [][\A i \in DOMAIN cache :
          cache'[i].value.ver < cache[i].value.ver =>
              \E c \in DOMAIN call :
                  /\ Busy(c) /\ ~Busy(c)'
                  /\ call[c].now <= born[i][cache[i].value.ver]]_vars

\* What a caller sees of a call: one whose response is under way is open.
Seen(r) ==
    IF r.st \in {"fetching", "answered"}
    THEN [st |-> "asked", iss |-> r.iss, now |-> r.now, doc |-> NoDoc(r.iss)]
    ELSE r

Served == [c \in DOMAIN call |-> Seen(call[c])]

Source == INSTANCE KeySource WITH served <- Served

\* Every behaviour of the cache is one of the abstract key source: a caller
\* cannot tell get from a source whose answers are less than TTL old.
ImplementsKeySource == Source!Spec
=============================================================================
