------------------------ MODULE OAuthTokenCacheProofs ------------------------
(***************************************************************************)
(* Proofs about OAuthTokenCache, for every set of calls and servers, every *)
(* buffer and every lifetime.  What makes the invariants inductive is that *)
(* a response under way holds a token of the call's server, born when the  *)
(* call read its clock or later, that lives at least as long as the cache  *)
(* will assume: DefaultAssumption is what covers a response that states    *)
(* no lifetime.                                                            *)
(***************************************************************************)
EXTENDS OAuthTokenCache, TLAPS

\* Token k belongs to server s and dies no earlier than t.
LivesUntil(k, s, t) ==
    /\ k \in 1 .. Len(issued)
    /\ issued[k].srv = s
    /\ issued[k].dies >= t

ResponseHonest ==
    \A c \in DOMAIN call :
        call[c].st = "answered" =>
            LivesUntil(call[c].tok, call[c].srv,
                       call[c].now + ExpiresIn(call[c].stated))

ReusedLives ==
    \A c \in DOMAIN call :
        call[c].st = "done" /\ call[c].reused =>
            LivesUntil(call[c].tok, call[c].srv, call[c].now + Buffer + 1)

\* A call reuses a token only in the past or present of its birth.
NothingInFuture ==
    /\ \A k \in 1 .. Len(issued) : issued[k].born <= clock
    /\ \A c \in DOMAIN call : call[c].now <= clock
    /\ \A c \in DOMAIN call :
          call[c].st = "done" /\ call[c].reused =>
              issued[call[c].tok].born <= call[c].now
    /\ \A c \in DOMAIN call : call[c].st # "done" => ~call[c].reused

IInv ==
    TypeOK /\ EntryWithinLife /\ ResponseHonest /\ ReusedLives /\ NothingInFuture

\* Storing under a key keeps a dictionary well formed.
LEMMA PutType ==
    ASSUME NEW S, NEW T, NEW d, DOMAIN d \subseteq S, d \in [DOMAIN d -> T],
           NEW k \in S, NEW x \in T
    PROVE  /\ DOMAIN Put(d, k, x) \subseteq S
           /\ Put(d, k, x) \in [DOMAIN Put(d, k, x) -> T]
  BY DEF Put

\* The lifetime the cache assumes is a number, stated or not.
LEMMA ExpiresInType ==
    ASSUME NEW n \in Nat \cup {Omitted} PROVE ExpiresIn(n) \in Nat
  BY NumberAssumption DEF ExpiresIn, Omitted

\* A token that has been issued has a server, a birth and a death.
LEMMA TokenType ==
    ASSUME issued \in Seq(Token), NEW k \in 1 .. Len(issued)
    PROVE  /\ issued[k] \in Token
           /\ issued[k].born \in Nat
           /\ issued[k].dies \in Nat
<1>1. issued[k] \in Token
  OBVIOUS
<1> QED
  BY <1>1 DEF Token

\* The invariant holds of an empty cache that no call has asked yet.
LEMMA InitIInv == Init => IInv
<1> SUFFICES ASSUME Init PROVE IInv
  OBVIOUS
<1>1. DOMAIN cache = {} /\ DOMAIN call = {} /\ issued = << >> /\ clock = 0
  BY DEF Init
<1>2. TypeOK
  BY <1>1 DEF TypeOK
<1>3. 1 .. Len(issued) = {}
  BY <1>1
<1> QED
  BY <1>1, <1>2, <1>3
     DEF IInv, EntryWithinLife, ResponseHonest, ReusedLives, NothingInFuture

\* The step of a call that issues no token: what it records, in its own record
\* and in the cache, need only be a token alive until the time it is bounded by.
LEMMA RecordIInv ==
    ASSUME IInv, UNCHANGED <<clock, issued>>,
           NEW c \in Call, NEW r \in CallRecord,
           call' = Put(call, c, r),
           r.now <= clock,
           r.st # "answered",
           r.st = "done" /\ r.reused =>
               /\ LivesUntil(r.tok, r.srv, r.now + Buffer + 1)
               /\ issued[r.tok].born <= r.now,
           r.st # "done" => ~r.reused,
           \/ cache' = cache
           \/ \E s \in Server, e \in Entry :
                 cache' = Put(cache, s, e) /\ LivesUntil(e.value, s, e.expires_at)
    PROVE  IInv'
<1>1. TypeOK /\ NothingInFuture
  BY DEF IInv
<1>2. /\ DOMAIN call' = DOMAIN call \cup {c}
      /\ call'[c] = r
      /\ \A x \in DOMAIN call : x # c => call'[x] = call[x]
  BY DEF Put
<1>3. DOMAIN call' \subseteq Call /\ call' \in [DOMAIN call' -> CallRecord]
  BY <1>1, PutType DEF TypeOK
<1>4. /\ DOMAIN cache' \subseteq Server /\ cache' \in [DOMAIN cache' -> Entry]
      /\ EntryWithinLife'
  <2>1. CASE cache' = cache
    BY <1>1, <2>1 DEF IInv, TypeOK, EntryWithinLife
  <2>2. ASSUME NEW s \in Server, NEW e \in Entry, cache' = Put(cache, s, e),
               LivesUntil(e.value, s, e.expires_at)
        PROVE  /\ DOMAIN cache' \subseteq Server /\ cache' \in [DOMAIN cache' -> Entry]
               /\ EntryWithinLife'
    <3>1. /\ DOMAIN cache' = DOMAIN cache \cup {s}
          /\ cache'[s] = e
          /\ \A j \in DOMAIN cache : j # s => cache'[j] = cache[j]
      BY <2>2 DEF Put
    <3>2. DOMAIN cache' \subseteq Server /\ cache' \in [DOMAIN cache' -> Entry]
      BY <1>1, <2>2, PutType DEF TypeOK
    <3>3. EntryWithinLife'
      BY <2>2, <3>1 DEF IInv, EntryWithinLife, LivesUntil
    <3> QED
      BY <3>2, <3>3
  <2> QED
    BY <2>1, <2>2
<1>5. TypeOK'
  BY <1>1, <1>3, <1>4 DEF TypeOK
<1>6. ResponseHonest'
  BY <1>2 DEF IInv, ResponseHonest, LivesUntil
<1>7. ReusedLives'
  BY <1>2 DEF IInv, ReusedLives, LivesUntil
<1>8. NothingInFuture'
  BY <1>1, <1>2 DEF NothingInFuture
<1> QED
  BY <1>4, <1>5, <1>6, <1>7, <1>8 DEF IInv

\* Issuing a token adds it to the tokens and leaves the others as they are.
LEMMA IssueIInv ==
    ASSUME IInv, NEW c \in Call, NEW l \in Nat, NEW n \in Nat \cup {Omitted},
           ExpiresIn(n) <= l, Issue(c, l, n)
    PROVE  IInv'
<1> DEFINE t == [srv |-> call[c].srv, born |-> clock, dies |-> clock + l]
           r == [st |-> "answered", srv |-> call[c].srv, now |-> call[c].now,
                 tok |-> Len(issued) + 1, stated |-> n, reused |-> FALSE]
<1>1. /\ TypeOK /\ NothingInFuture /\ clock \in Nat /\ issued \in Seq(Token)
      /\ c \in DOMAIN call /\ call[c] \in CallRecord
      /\ call[c].srv \in Server /\ call[c].now \in Nat /\ call[c].now <= clock
      /\ issued' = Append(issued, t) /\ call' = Put(call, c, r)
      /\ UNCHANGED <<clock, cache>>
  BY DEF IInv, TypeOK, NothingInFuture, Issue, Busy, CallRecord
<1>2. t \in Token /\ t.dies = clock + l /\ t.born = clock /\ t.srv = call[c].srv
  BY <1>1 DEF Token
<1>3. /\ r \in CallRecord /\ r.st = "answered" /\ r.reused = FALSE /\ r.now = call[c].now
      /\ r.srv = call[c].srv /\ r.tok = Len(issued) + 1 /\ r.stated = n
  BY <1>1 DEF CallRecord, State
<1> HIDE DEF t, r
<1>4. /\ issued' \in Seq(Token) /\ Len(issued') = Len(issued) + 1
      /\ Len(issued) \in Nat
      /\ issued'[Len(issued) + 1] = t
      /\ \A k \in 1 .. Len(issued) : issued'[k] = issued[k]
  BY <1>1, <1>2
<1>5. /\ DOMAIN call' = DOMAIN call \cup {c}
      /\ call'[c] = r
      /\ \A x \in DOMAIN call : x # c => call'[x] = call[x]
  BY <1>1 DEF Put
<1>6. \A k \in 1 .. Len(issued) : k \in 1 .. Len(issued')
  BY <1>4
<1>7. TypeOK'
  <2>1. DOMAIN call' \subseteq Call /\ call' \in [DOMAIN call' -> CallRecord]
    BY <1>1, <1>3, PutType DEF TypeOK
  <2> QED
    BY <1>1, <1>4, <2>1 DEF TypeOK
<1>8. EntryWithinLife'
  BY <1>1, <1>4, <1>6 DEF IInv, EntryWithinLife
<1>9. ResponseHonest'
  <2>1. ExpiresIn(n) \in Nat
    BY ExpiresInType
  <2>2. /\ call'[c].tok \in 1 .. Len(issued')
        /\ issued'[call'[c].tok].srv = call'[c].srv
        /\ issued'[call'[c].tok].dies >= call'[c].now + ExpiresIn(call'[c].stated)
    BY <1>1, <1>2, <1>3, <1>4, <1>5, <2>1
  <2>3. ASSUME NEW x \in DOMAIN call, x # c, call[x].st = "answered"
        PROVE  /\ call'[x].tok \in 1 .. Len(issued')
               /\ issued'[call'[x].tok].srv = call'[x].srv
               /\ issued'[call'[x].tok].dies >= call'[x].now + ExpiresIn(call'[x].stated)
    <3>1. LivesUntil(call[x].tok, call[x].srv, call[x].now + ExpiresIn(call[x].stated))
      BY <2>3 DEF IInv, ResponseHonest
    <3> QED
      BY <1>4, <1>5, <1>6, <2>3, <3>1 DEF LivesUntil
  <2> QED
    BY <1>5, <2>2, <2>3 DEF ResponseHonest, LivesUntil
<1>10. ReusedLives'
  BY <1>3, <1>4, <1>5, <1>6 DEF IInv, ReusedLives, LivesUntil
<1>11. NothingInFuture'
  <2>1. \A k \in 1 .. Len(issued') : issued'[k].born <= clock
    BY <1>1, <1>2, <1>4 DEF NothingInFuture
  <2>2. \A x \in DOMAIN call' : call'[x].now <= clock
    BY <1>1, <1>3, <1>5 DEF NothingInFuture
  <2>3. ASSUME NEW x \in DOMAIN call', call'[x].st = "done", call'[x].reused
        PROVE  issued'[call'[x].tok].born <= call'[x].now
    <3>1. x \in DOMAIN call /\ call'[x] = call[x]
      BY <1>3, <1>5, <2>3
    <3>2. call[x].tok \in 1 .. Len(issued)
      BY <2>3, <3>1 DEF IInv, ReusedLives, LivesUntil
    <3> QED
      BY <1>1, <1>4, <2>3, <3>1, <3>2 DEF NothingInFuture
  <2>4. \A x \in DOMAIN call' : call'[x].st # "done" => ~call'[x].reused
    BY <1>1, <1>3, <1>5 DEF NothingInFuture
  <2> QED
    BY <1>1, <2>1, <2>2, <2>3, <2>4 DEF NothingInFuture
<1> QED
  BY <1>7, <1>8, <1>9, <1>10, <1>11 DEF IInv

\* The invariant survives a hit: what is reused outlives the buffer.
LEMMA HitIInv ==
    ASSUME IInv, NEW c \in Call, NEW s \in Server, Hit(c, s)
    PROVE  IInv'
<1> DEFINE r == [st |-> "done", srv |-> s, now |-> clock, tok |-> cache[s].value,
                 stated |-> Omitted, reused |-> TRUE]
<1>1. /\ TypeOK /\ NothingInFuture /\ clock \in Nat /\ issued \in Seq(Token)
      /\ s \in DOMAIN cache /\ cache[s] \in Entry
      /\ cache[s].expires_at > clock + Buffer
      /\ UNCHANGED <<clock, issued, cache>> /\ call' = Put(call, c, r)
  BY DEF IInv, TypeOK, Hit, CacheHit
<1>2. r \in CallRecord
  BY <1>1 DEF CallRecord, State, Entry
<1>3. /\ cache[s].value \in 1 .. Len(issued)
      /\ issued[cache[s].value].srv = s
      /\ issued[cache[s].value].dies >= cache[s].expires_at
  BY <1>1 DEF IInv, EntryWithinLife
<1>4. issued[cache[s].value] \in Token /\ issued[cache[s].value].dies \in Nat
  BY <1>1, <1>3, TokenType
<1>5. issued[cache[s].value].dies >= clock + Buffer + 1
  BY <1>1, <1>3, <1>4, NumberAssumption DEF Entry
<1>6. LivesUntil(r.tok, r.srv, r.now + Buffer + 1) /\ issued[r.tok].born <= r.now
  BY <1>1, <1>3, <1>5 DEF LivesUntil, NothingInFuture
<1>7. r.now <= clock /\ r.st = "done"
  BY <1>1
<1> HIDE DEF r
<1> QED
  BY <1>1, <1>2, <1>6, <1>7, RecordIInv

\* The invariant survives the end of an exchange: the entry that Store writes
\* expires with its token, or before.
LEMMA EndIInv ==
    ASSUME IInv, NEW c \in Call, Store(c) \/ Fail(c)
    PROVE  IInv'
<1>1. /\ Busy(c) /\ c \in DOMAIN call /\ call[c] \in CallRecord /\ TypeOK
      /\ call[c].now <= clock /\ call[c].reused = FALSE
      /\ UNCHANGED <<clock, issued>>
  BY DEF IInv, TypeOK, NothingInFuture, Store, StoreUntil, Fail, Busy, CallRecord
<1>2. CASE Store(c)
  <2> DEFINE r == [call[c] EXCEPT !.st = "done"]
             e == [value |-> call[c].tok,
                   expires_at |-> call[c].now + ExpiresIn(call[c].stated)]
  <2>1. call[c].st = "answered" /\ cache' = Put(cache, call[c].srv, e)
        /\ call' = Put(call, c, r)
    BY <1>2 DEF Store, StoreUntil
  <2>2. r \in CallRecord /\ r.st = "done" /\ r.reused = FALSE /\ r.now = call[c].now
    BY <1>1 DEF CallRecord, State
  <2>3. ExpiresIn(call[c].stated) \in Nat
    BY <1>1, ExpiresInType DEF CallRecord
  <2>4. e \in Entry /\ call[c].srv \in Server
    BY <1>1, <2>3 DEF Entry, CallRecord
  <2>5. LivesUntil(e.value, call[c].srv, e.expires_at)
    BY <1>1, <2>1 DEF IInv, ResponseHonest
  <2> HIDE DEF r, e
  <2> QED
    BY <1>1, <2>1, <2>2, <2>4, <2>5, RecordIInv
<1>3. CASE Fail(c)
  <2> DEFINE r == [call[c] EXCEPT !.st = "failed"]
  <2>1. r \in CallRecord /\ r.st = "failed" /\ r.reused = FALSE /\ r.now = call[c].now
    BY <1>1 DEF CallRecord, State
  <2>2. call' = Put(call, c, r) /\ cache' = cache
    BY <1>3 DEF Fail
  <2> HIDE DEF r
  <2> QED
    BY <1>1, <2>1, <2>2, RecordIInv
<1> QED
  BY <1>2, <1>3

\* Every step preserves the invariant: one case for each action of the cache,
\* its callers, the endpoint and the clock.
LEMMA NextIInv == IInv /\ [Next]_vars => IInv'
<1> SUFFICES ASSUME IInv, [Next]_vars PROVE IInv'
  OBVIOUS
<1>1. TypeOK /\ NothingInFuture
  BY DEF IInv
<1>2. CASE UNCHANGED vars
  BY <1>2 DEF vars, IInv, TypeOK, EntryWithinLife, ResponseHonest, ReusedLives,
              NothingInFuture, LivesUntil
<1>3. CASE Tick
  <2>1. clock \in Nat /\ clock' = clock + 1 /\ UNCHANGED <<issued, cache, call>>
    BY <1>1, <1>3 DEF Tick, TypeOK
  <2>2. TypeOK'
    BY <1>1, <2>1 DEF TypeOK
  <2>3. NothingInFuture'
    <3>1. \A k \in 1 .. Len(issued) : issued[k].born \in Nat
      BY <1>1, TokenType DEF TypeOK
    <3>2. \A c \in DOMAIN call : call[c].now \in Nat
      BY <1>1 DEF TypeOK, CallRecord
    <3> QED
      BY <1>1, <2>1, <3>1, <3>2 DEF NothingInFuture
  <2> QED
    BY <2>1, <2>2, <2>3 DEF IInv, EntryWithinLife, ResponseHonest, ReusedLives, LivesUntil
<1>4. ASSUME NEW c \in Call, NEW s \in Server, Hit(c, s) PROVE IInv'
  BY <1>4, HitIInv
<1>5. ASSUME NEW c \in Call, NEW s \in Server, Miss(c, s) PROVE IInv'
  <2> DEFINE r == [st |-> "exchanging", srv |-> s, now |-> clock, tok |-> NoToken,
                   stated |-> Omitted, reused |-> FALSE]
  <2>1. r \in CallRecord /\ r.st = "exchanging" /\ r.reused = FALSE /\ r.now <= clock
    BY <1>1 DEF CallRecord, State, NoToken, TypeOK
  <2>2. call' = Put(call, c, r) /\ UNCHANGED <<clock, issued, cache>>
    BY <1>5 DEF Miss
  <2> HIDE DEF r
  <2> QED
    BY <2>1, <2>2, RecordIInv
<1>6. ASSUME NEW c \in Call, Exchange(c) PROVE IInv'
  <2>1. ASSUME NEW l \in Lifetime, Issue(c, l, l) PROVE IInv'
    <3>1. l \in Nat /\ ExpiresIn(l) <= l /\ l \in Nat \cup {Omitted}
      BY NumberAssumption DEF ExpiresIn, Omitted
    <3> QED
      BY <2>1, <3>1, IssueIInv
  <2>2. ASSUME NEW l \in UnstatedLife, Issue(c, l, Omitted) PROVE IInv'
    <3>1. l \in Nat /\ ExpiresIn(Omitted) <= l
      BY NumberAssumption, DefaultAssumption DEF ExpiresIn
    <3> QED
      BY <2>2, <3>1, IssueIInv
  <2> QED
    BY <1>6, <2>1, <2>2 DEF Exchange
<1>7. ASSUME NEW c \in Call, Store(c) \/ Fail(c) PROVE IInv'
  BY <1>7, EndIInv
<1> QED
  BY <1>2, <1>3, <1>4, <1>5, <1>6, <1>7 DEF Next

\* IInv is an invariant of the cache.
THEOREM Invariance == Spec => []IInv
<1>1. Init => IInv
  BY InitIInv
<1>2. IInv /\ [Next]_vars => IInv'
  BY NextIInv
<1> QED
  BY <1>1, <1>2, PTL DEF Spec

\* The cache and the calls are well formed.
THEOREM TypeCorrect == Spec => []TypeOK
<1>1. IInv => TypeOK
  BY DEF IInv
<1> QED
  BY <1>1, Invariance, PTL

\* The cache never believes that a token outlives its issuer's view of it.
THEOREM EntriesWithinLife == Spec => []EntryWithinLife
<1>1. IInv => EntryWithinLife
  BY DEF IInv
<1> QED
  BY <1>1, Invariance, PTL

\* A token taken from the cache has more than the buffer left to live.
THEOREM ReusedTokensUsable == Spec => []ReusedTokenUsable
<1>1. IInv => ReusedTokenUsable
  <2> SUFFICES ASSUME IInv, NEW c \in DOMAIN call,
                      call[c].st = "done", call[c].reused
               PROVE  /\ call[c].tok \in 1 .. Len(issued)
                      /\ issued[call[c].tok].srv = call[c].srv
                      /\ issued[call[c].tok].dies > call[c].now + Buffer
    BY DEF ReusedTokenUsable
  <2>1. LivesUntil(call[c].tok, call[c].srv, call[c].now + Buffer + 1)
    BY DEF IInv, ReusedLives
  <2>2. call[c].now \in Nat /\ issued \in Seq(Token)
    BY DEF IInv, TypeOK, CallRecord
  <2>3. issued[call[c].tok].dies \in Nat
    BY <2>1, <2>2, TokenType DEF LivesUntil
  <2> QED
    BY <2>1, <2>2, <2>3, NumberAssumption DEF LivesUntil
<1> QED
  BY <1>1, Invariance, PTL

=============================================================================
