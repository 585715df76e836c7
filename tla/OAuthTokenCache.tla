--------------------------- MODULE OAuthTokenCache ---------------------------
(***************************************************************************)
(* OAuthTokenCache.get_token of cache.py, called by concurrent requests.   *)
(*                                                                         *)
(* As in JWKSCache, a call is atomic up to its HTTP request and again from *)
(* the response to its return, a hit never awaits, and nothing serialises  *)
(* two exchanges for one server.  Here the response names its own          *)
(* lifetime (expires_in, or nothing), and an entry is reused only while    *)
(* it has more than Buffer to live.                                        *)
(*                                                                         *)
(* Tokens are numbered in the order the token endpoints issue them.        *)
(***************************************************************************)
EXTENDS Integers, Sequences

CONSTANTS
    Call,          \* identities of concurrent calls of get_token
    Server,        \* Galaxy servers, by server_id (the cache key)
    Buffer,        \* 300 s: what a reused token must exceed
    DefaultExpiry, \* 3600 s: assumed when the response has no expires_in
    Lifetime,      \* lifetimes a token endpoint may state
    UnstatedLife,  \* lifetimes of tokens issued without expires_in
    MaxClock,      \* bound on the clock
    MaxToken       \* bound on the number of tokens issued

ASSUME NumberAssumption ==
    /\ Buffer \in Nat /\ DefaultExpiry \in Nat
    /\ MaxClock \in Nat /\ MaxToken \in Nat
    /\ Lifetime \subseteq Nat /\ UnstatedLife \subseteq Nat

\* What the default stands for: an endpoint that states no lifetime issues
\* tokens that live at least that long.
ASSUME DefaultAssumption == \A l \in UnstatedLife : l >= DefaultExpiry

VARIABLES
    clock,      \* time.time(), in ticks
    issued,     \* issued[k]: the server of token k, its birth and its death
    cache,      \* self._cache: a partial function of Server
    call        \* call[c]: the latest call of get_token under identity c

vars == <<clock, issued, cache, call>>

Omitted == -1       \* no expires_in in the response
NoToken == 0        \* no token yet
Token == [srv : Server, born : Nat, dies : Nat]
Entry == [value : Nat, expires_at : Nat]
State == {"exchanging", "answered", "done", "failed"}
CallRecord == [st : State, srv : Server, now : Nat, tok : Nat,
               stated : Nat \cup {Omitted}, reused : BOOLEAN]

Busy(c) == c \in DOMAIN call /\ call[c].st \in {"exchanging", "answered"}

\* The dictionary d with key k set to x.
Put(d, k, x) == [j \in DOMAIN d \cup {k} |-> IF j = k THEN x ELSE d[j]]

\* Mutation of the hit test: an off-by-one.
HitAtBuffer(s, now) == s \in DOMAIN cache /\ cache[s].expires_at >= now + Buffer

CacheHit(s, now) == s \in DOMAIN cache /\ cache[s].expires_at > now + Buffer

\* Mutation of the default: none is applied.
ExpiresInAsStated(stated) == stated

ExpiresIn(stated) == IF stated = Omitted THEN DefaultExpiry ELSE stated

Init ==
    /\ clock = 0
    /\ issued = << >>
    /\ cache = [s \in {} |-> {}]
    /\ call = [c \in {} |-> {}]

Tick ==
    /\ clock < MaxClock
    /\ clock' = clock + 1
    /\ UNCHANGED <<issued, cache, call>>

Hit(c, s) ==
    /\ ~Busy(c)
    /\ CacheHit(s, clock)
    /\ call' = Put(call, c, [st |-> "done", srv |-> s, now |-> clock,
                             tok |-> cache[s].value, stated |-> Omitted,
                             reused |-> TRUE])
    /\ UNCHANGED <<clock, issued, cache>>

\* now is read here, before the credentials are sent.
Miss(c, s) ==
    /\ ~Busy(c)
    /\ ~CacheHit(s, clock)
    /\ call' = Put(call, c, [st |-> "exchanging", srv |-> s, now |-> clock,
                             tok |-> NoToken, stated |-> Omitted,
                             reused |-> FALSE])
    /\ UNCHANGED <<clock, issued, cache>>

\* The token endpoint issues a token that lives for life, counted from now,
\* and states its lifetime or does not.
Issue(c, life, stated) ==
    /\ Busy(c) /\ call[c].st = "exchanging"
    /\ Len(issued) < MaxToken
    /\ issued' = Append(issued, [srv |-> call[c].srv, born |-> clock,
                                 dies |-> clock + life])
    /\ call' = Put(call, c, [st |-> "answered", srv |-> call[c].srv,
                             now |-> call[c].now, tok |-> Len(issued) + 1,
                             stated |-> stated, reused |-> FALSE])
    /\ UNCHANGED <<clock, cache>>

Exchange(c) ==
    \/ \E l \in Lifetime : Issue(c, l, l)
    \/ \E l \in UnstatedLife : Issue(c, l, Omitted)

\* What a Store that computes expires_at as e records.
StoreUntil(c, s, e) ==
    /\ Busy(c) /\ call[c].st = "answered"
    /\ cache' = Put(cache, s, [value |-> call[c].tok, expires_at |-> e])
    /\ call' = Put(call, c, [call[c] EXCEPT !.st = "done"])
    /\ UNCHANGED <<clock, issued>>

\* Mutation of the store: the clock is read after the exchange.
StoreAtLateClock(c) == StoreUntil(c, call[c].srv, clock + ExpiresIn(call[c].stated))

\* The call resumes, stores the token under its own now and returns it.
Store(c) == StoreUntil(c, call[c].srv, call[c].now + ExpiresIn(call[c].stated))

\* The exchange times out or is refused, or the response is no JSON or holds
\* no access_token.  The cache keeps what it holds.
Fail(c) ==
    /\ Busy(c)
    /\ call' = Put(call, c, [call[c] EXCEPT !.st = "failed"])
    /\ UNCHANGED <<clock, issued, cache>>

Next ==
    \/ Tick
    \/ \E c \in Call :
          \/ \E s \in Server : Hit(c, s) \/ Miss(c, s)
          \/ Exchange(c)
          \/ Store(c)
          \/ Fail(c)

Spec == Init /\ [][Next]_vars
-----------------------------------------------------------------------------
TypeOK ==
    /\ clock \in Nat
    /\ issued \in Seq(Token)
    /\ DOMAIN cache \subseteq Server
    /\ cache \in [DOMAIN cache -> Entry]
    /\ DOMAIN call \subseteq Call
    /\ call \in [DOMAIN call -> CallRecord]

\* The cache never believes a token outlives its issuer's view of it: an entry
\* holds a token of its own server, and expires_at is no later than the time
\* the endpoint stops honouring the token, however long the exchange took and
\* whichever of two concurrent exchanges was stored last.
EntryWithinLife ==
    \A s \in DOMAIN cache :
        /\ cache[s].value \in 1 .. Len(issued)
        /\ issued[cache[s].value].srv = s
        /\ issued[cache[s].value].dies >= cache[s].expires_at

\* A token taken from the cache belongs to the server asked for and has more
\* than the buffer left to live, by the endpoint's clock: the Galaxy request
\* that follows has that long to reach Galaxy.
ReusedTokenUsable ==
    \A c \in DOMAIN call :
        call[c].st = "done" /\ call[c].reused =>
            /\ call[c].tok \in 1 .. Len(issued)
            /\ issued[call[c].tok].srv = call[c].srv
            /\ issued[call[c].tok].dies > call[c].now + Buffer
=============================================================================
