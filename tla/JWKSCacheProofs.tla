--------------------------- MODULE JWKSCacheProofs ---------------------------
(***************************************************************************)
(* Proofs about JWKSCache, for every set of calls and issuers, every TTL   *)
(* and every bound.  The inductive invariant IInv adds to the two          *)
(* staleness invariants what makes them inductive: nothing recorded lies   *)
(* in the future (a rotation happens at clock, so it must not already be   *)
(* too old for what is cached), documents are numbered in the order of     *)
(* their publication, and a response under way holds a document that was   *)
(* published when the call read its clock, or later.                       *)
(***************************************************************************)
EXTENDS JWKSCache, TLAPS

Past ==
    /\ \A i \in Issuer :
          /\ \A v \in 1 .. Len(born[i]) : born[i][v] <= clock
          /\ \A v, w \in 1 .. Len(born[i]) : v <= w => born[i][v] <= born[i][w]
    /\ \A i \in Issuer : Len(born[i]) > 0
    /\ \A i \in DOMAIN cache : cache[i].expires_at <= clock + TTL
    /\ \A c \in DOMAIN call : call[c].now <= clock

\* A response holds a document published when its call began, or later.
ResponseTimely ==
    \A c \in DOMAIN call :
        call[c].st = "answered" =>
            PublishedAfter(call[c].doc, call[c].iss, call[c].now)

IInv == TypeOK /\ Past /\ EntryExpires /\ ResponseTimely /\ BoundedStaleness

\* Storing under a key extends a dictionary by that key and nothing else.
LEMMA PutType ==
    ASSUME NEW S, NEW T, NEW d, DOMAIN d \subseteq S, d \in [DOMAIN d -> T],
           NEW k \in S, NEW x \in T
    PROVE  /\ DOMAIN Put(d, k, x) = DOMAIN d \cup {k}
           /\ DOMAIN Put(d, k, x) \subseteq S
           /\ Put(d, k, x) \in [DOMAIN Put(d, k, x) -> T]
           /\ Put(d, k, x)[k] = x
           /\ \A j \in DOMAIN d : j # k => Put(d, k, x)[j] = d[j]
  BY DEF Put

\* The invariant holds of an empty cache that no call has asked yet.
LEMMA InitIInv == Init => IInv
<1> SUFFICES ASSUME Init PROVE IInv
  OBVIOUS
<1>1. DOMAIN cache = {} /\ DOMAIN call = {}
  BY DEF Init
<1>2. TypeOK
  BY <1>1 DEF Init, TypeOK
<1>3. \A i \in Issuer : born[i] = <<0>>
  BY DEF Init
<1>4. Past
  BY <1>1, <1>3 DEF Init, Past
<1> QED
  BY <1>1, <1>2, <1>4 DEF IInv, EntryExpires, ResponseTimely, BoundedStaleness

\* A rotation at clock leaves every document published after a time t that is
\* not in the future published after t.
LEMMA PublishKeeps ==
    ASSUME TypeOK, NEW i \in Issuer, Publish(i),
           NEW d \in Doc, NEW j \in Issuer, NEW t \in Int, t <= clock,
           PublishedAfter(d, j, t)
    PROVE  PublishedAfter(d, j, t)'
<1>1. CASE i = j
  <2>1. born'[j] = Append(born[j], clock)
    BY <1>1 DEF Publish, TypeOK
  <2>2. born[j] \in Seq(Nat) /\ clock \in Nat
    BY DEF TypeOK
  <2>3. /\ Len(born'[j]) = Len(born[j]) + 1
        /\ \A v \in 1 .. Len(born[j]) : born'[j][v] = born[j][v]
        /\ born'[j][Len(born[j]) + 1] = clock
    BY <2>1, <2>2
  <2>4. /\ d.iss = j /\ d.ver \in 1 .. Len(born[j])
        /\ d.ver < Len(born[j]) => born[j][d.ver + 1] >= t
    BY DEF PublishedAfter
  <2>5. d.ver \in 1 .. Len(born'[j])
    BY <2>2, <2>3, <2>4
  <2>6. ASSUME d.ver < Len(born'[j]) PROVE born'[j][d.ver + 1] >= t
    <3>1. CASE d.ver = Len(born[j])
      BY <2>2, <2>3, <3>1
    <3>2. CASE d.ver < Len(born[j])
      <4>1. d.ver + 1 \in 1 .. Len(born[j])
        BY <2>2, <2>4, <3>2
      <4> QED
        BY <2>3, <2>4, <3>2, <4>1
    <3> QED
      BY <2>2, <2>3, <2>4, <2>6, <3>1, <3>2
  <2> QED
    BY <2>4, <2>5, <2>6 DEF PublishedAfter
<1>2. CASE i # j
  <2>1. born'[j] = born[j]
    BY <1>2 DEF Publish, TypeOK
  <2> QED
    BY <2>1 DEF PublishedAfter
<1> QED
  BY <1>1, <1>2

\* Likewise the dates of publication stay ordered and out of the future.
LEMMA PublishPast ==
    ASSUME IInv, NEW i \in Issuer, Publish(i)
    PROVE  TypeOK' /\ Past'
<1> USE TTLAssumption
<1>1. /\ born \in [Issuer -> Seq(Nat)] /\ clock \in Nat
      /\ born' = [born EXCEPT ![i] = Append(born[i], clock)]
      /\ UNCHANGED <<clock, cache, call>>
  BY DEF IInv, TypeOK, Publish
<1>2. born' \in [Issuer -> Seq(Nat)]
  BY <1>1
<1>3. TypeOK'
  BY <1>1, <1>2 DEF IInv, TypeOK
<1>4. ASSUME NEW j \in Issuer
      PROVE  /\ Len(born'[j]) > 0
             /\ \A v \in 1 .. Len(born'[j]) : born'[j][v] <= clock'
             /\ \A v, w \in 1 .. Len(born'[j]) :
                   v <= w => born'[j][v] <= born'[j][w]
  <2>1. /\ born[j] \in Seq(Nat) /\ Len(born[j]) > 0
        /\ \A v \in 1 .. Len(born[j]) : born[j][v] <= clock
        /\ \A v, w \in 1 .. Len(born[j]) : v <= w => born[j][v] <= born[j][w]
    BY <1>1 DEF IInv, Past
  <2>2. CASE j = i
    <3>1. born'[j] = Append(born[j], clock)
      BY <1>1, <2>2
    <3> QED
      BY <1>1, <2>1, <3>1
  <2>3. CASE j # i
    BY <1>1, <2>1, <2>3
  <2> QED
    BY <2>2, <2>3
<1> QED
  BY <1>1, <1>3, <1>4 DEF IInv, Past

\* The invariant survives a rotation.
LEMMA PublishIInv ==
    ASSUME IInv, NEW i \in Issuer, Publish(i)
    PROVE  IInv'
<1> USE TTLAssumption
<1>1. TypeOK' /\ Past'
  BY PublishPast
<1>2. TypeOK /\ Past /\ UNCHANGED <<clock, cache, call>> /\ clock \in Nat
  BY DEF IInv, TypeOK, Publish
<1>3. EntryExpires'
  <2> SUFFICES ASSUME NEW j \in DOMAIN cache
               PROVE  PublishedAfter(cache[j].value, j, cache[j].expires_at - TTL)'
    BY <1>2 DEF EntryExpires
  <2>1. PICK d, t : d = cache[j].value /\ t = cache[j].expires_at - TTL
    OBVIOUS
  <2>2. d \in Doc /\ j \in Issuer /\ t \in Int /\ t <= clock
    BY <1>2, <2>1 DEF TypeOK, Past, Entry
  <2>3. PublishedAfter(d, j, t)
    BY <2>1 DEF IInv, EntryExpires
  <2>4. PublishedAfter(d, j, t)'
    BY <1>2, <2>2, <2>3, PublishKeeps
  <2> QED
    BY <1>2, <2>1, <2>4 DEF PublishedAfter
<1>4. ASSUME NEW c \in DOMAIN call, NEW t \in Int, t <= clock,
             PublishedAfter(call[c].doc, call[c].iss, t)
      PROVE  PublishedAfter(call[c].doc, call[c].iss, t)'
  <2>1. PICK d, j : d = call[c].doc /\ j = call[c].iss
    OBVIOUS
  <2>2. d \in Doc /\ j \in Issuer
    BY <1>2, <2>1 DEF TypeOK, CallRecord
  <2>3. PublishedAfter(d, j, t)'
    BY <1>2, <1>4, <2>1, <2>2, PublishKeeps
  <2> QED
    BY <1>2, <2>1, <2>3 DEF PublishedAfter
<1>5. \A c \in DOMAIN call : call[c].now \in Nat /\ call[c].now <= clock
  BY <1>2 DEF TypeOK, CallRecord, Past
<1>6. ResponseTimely'
  BY <1>2, <1>4, <1>5 DEF IInv, ResponseTimely, PublishedAfter
<1>7. \A c \in DOMAIN call : /\ call[c].now - TTL + 1 \in Int
                              /\ call[c].now - TTL + 1 <= clock
  BY <1>2, <1>5
<1>8. BoundedStaleness'
  BY <1>2, <1>4, <1>7 DEF IInv, BoundedStaleness, PublishedAfter
<1> QED
  BY <1>1, <1>3, <1>6, <1>8 DEF IInv

\* What a step of a call records, in its own record and in the cache, need
\* only be a document published after the time its record is bounded by.
LEMMA RecordIInv ==
    ASSUME IInv, UNCHANGED <<clock, born>>,
           NEW c \in Call, NEW r \in CallRecord,
           call' = Put(call, c, r),
           r.now <= clock,
           r.st = "answered" => PublishedAfter(r.doc, r.iss, r.now),
           r.st = "done" => PublishedAfter(r.doc, r.iss, r.now - TTL + 1),
           \/ cache' = cache
           \/ \E i \in Issuer, e \in Entry :
                 /\ cache' = Put(cache, i, e)
                 /\ e.expires_at <= clock + TTL
                 /\ PublishedAfter(e.value, i, e.expires_at - TTL)
    PROVE  IInv'
<1>1. TypeOK /\ Past
  BY DEF IInv
<1>2. /\ DOMAIN call' = DOMAIN call \cup {c}
      /\ call'[c] = r
      /\ \A x \in DOMAIN call : x # c => call'[x] = call[x]
  BY DEF Put
<1>3. /\ DOMAIN call' \subseteq Call
      /\ call' \in [DOMAIN call' -> CallRecord]
  BY <1>1, PutType DEF TypeOK
<1>4. /\ DOMAIN cache' \subseteq Issuer
      /\ cache' \in [DOMAIN cache' -> Entry]
      /\ \A i \in DOMAIN cache' : cache'[i].expires_at <= clock + TTL
      /\ EntryExpires'
  <2>1. CASE cache' = cache
    BY <1>1, <2>1 DEF IInv, TypeOK, Past, EntryExpires, PublishedAfter
  <2>2. ASSUME NEW i \in Issuer, NEW e \in Entry, cache' = Put(cache, i, e),
               e.expires_at <= clock + TTL,
               PublishedAfter(e.value, i, e.expires_at - TTL)
        PROVE  /\ DOMAIN cache' \subseteq Issuer
               /\ cache' \in [DOMAIN cache' -> Entry]
               /\ \A j \in DOMAIN cache' : cache'[j].expires_at <= clock + TTL
               /\ EntryExpires'
    <3>1. /\ DOMAIN cache' = DOMAIN cache \cup {i}
          /\ cache'[i] = e
          /\ \A j \in DOMAIN cache : j # i => cache'[j] = cache[j]
      BY <2>2 DEF Put
    <3>2. /\ DOMAIN cache' \subseteq Issuer
          /\ cache' \in [DOMAIN cache' -> Entry]
      BY <1>1, <2>2, PutType DEF TypeOK
    <3>3. \A j \in DOMAIN cache' : cache'[j].expires_at <= clock + TTL
      BY <1>1, <2>2, <3>1 DEF Past
    <3>4. EntryExpires'
      BY <2>2, <3>1 DEF IInv, EntryExpires, PublishedAfter
    <3> QED
      BY <3>2, <3>3, <3>4
  <2> QED
    BY <2>1, <2>2
<1>5. TypeOK' /\ Past'
  BY <1>1, <1>2, <1>3, <1>4 DEF TypeOK, Past
<1>6. ResponseTimely'
  BY <1>2 DEF IInv, ResponseTimely, PublishedAfter
<1>7. BoundedStaleness'
  BY <1>2 DEF IInv, BoundedStaleness, PublishedAfter
<1> QED
  BY <1>4, <1>5, <1>6, <1>7 DEF IInv

\* A step of a call replaces the call's record and, in Store, one entry.
LEMMA CallIInv ==
    ASSUME IInv, NEW c \in Call,
           \/ \E i \in Issuer : Hit(c, i) \/ Miss(c, i)
           \/ Respond(c) \/ Store(c) \/ Fail(c)
    PROVE  IInv'
<1> USE TTLAssumption
<1>1. /\ TypeOK /\ Past /\ clock \in Nat
      /\ born \in [Issuer -> Seq(Nat)]
      /\ UNCHANGED <<clock, born>>
  BY DEF IInv, TypeOK, Hit, Miss, Respond, Store, Fail
<1>2. ASSUME Busy(c)
      PROVE  /\ c \in DOMAIN call /\ call[c] \in CallRecord
             /\ call[c].now <= clock
             /\ call[c].st = "answered" =>
                   PublishedAfter(call[c].doc, call[c].iss, call[c].now)
  BY <1>1, <1>2 DEF Busy, TypeOK, Past, IInv, ResponseTimely
<1>3. ASSUME NEW r \in CallRecord, c \in DOMAIN call,
             call' = [call EXCEPT ![c] = r]
      PROVE  call' = Put(call, c, r)
  BY <1>1, <1>3 DEF Put, TypeOK
<1>4. ASSUME NEW i \in Issuer, Hit(c, i) PROVE IInv'
  <2>1. /\ cache[i] \in Entry /\ cache[i].expires_at > clock
        /\ PublishedAfter(cache[i].value, i, cache[i].expires_at - TTL)
    BY <1>1, <1>4 DEF Hit, CacheHit, IInv, EntryExpires, TypeOK
  <2> DEFINE r == [st |-> "done", iss |-> i, now |-> clock, doc |-> cache[i].value]
  <2>2. r \in CallRecord
    BY <1>1, <2>1 DEF CallRecord, State, Entry
  <2>3. PublishedAfter(r.doc, r.iss, r.now - TTL + 1)
    BY <1>1, <2>1 DEF PublishedAfter, Entry, Doc
  <2>4. call' = Put(call, c, r) /\ cache' = cache
    BY <1>4 DEF Hit
  <2>5. r.now <= clock /\ r.st = "done"
    BY <1>1
  <2> HIDE DEF r
  <2> QED
    BY <1>1, <2>2, <2>3, <2>4, <2>5, RecordIInv
<1>5. ASSUME NEW i \in Issuer, Miss(c, i) PROVE IInv'
  <2> DEFINE r == [st |-> "fetching", iss |-> i, now |-> clock, doc |-> NoDoc(i)]
  <2>1. r \in CallRecord /\ r.now <= clock /\ r.st = "fetching"
    BY <1>1 DEF CallRecord, State, NoDoc, Doc
  <2>2. call' = Put(call, c, r) /\ cache' = cache
    BY <1>5 DEF Miss
  <2> HIDE DEF r
  <2> QED
    BY <1>1, <2>1, <2>2, RecordIInv
<1>6. CASE Respond(c)
  <2> DEFINE i == call[c].iss
             d == [iss |-> i, ver |-> Len(born[i])]
             r == [call[c] EXCEPT !.st = "answered", !.doc = d]
  <2>1. Busy(c) /\ i \in Issuer /\ call[c] \in CallRecord /\ call[c].now <= clock
    BY <1>2, <1>6 DEF Respond, CallRecord
  <2>2. /\ r \in CallRecord /\ r.st = "answered" /\ r.iss = i
        /\ r.now = call[c].now /\ r.doc = d
    <3>1. d \in Doc
      BY <1>1, <2>1 DEF Doc
    <3> HIDE DEF d
    <3> QED
      BY <2>1, <3>1 DEF CallRecord, State
  <2>3. PublishedAfter(r.doc, r.iss, r.now)
    <3>1. PublishedAfter(d, i, call[c].now)
      BY <1>1, <2>1 DEF PublishedAfter, Past
    <3> QED
      BY <2>2, <3>1
  <2>4. call' = [call EXCEPT ![c] = r] /\ cache' = cache
    BY <1>1, <1>2, <1>6, <2>1 DEF Respond, TypeOK
  <2> HIDE DEF r
  <2>5. call' = Put(call, c, r)
    BY <1>2, <1>3, <2>1, <2>2, <2>4
  <2> QED
    BY <1>1, <2>1, <2>2, <2>3, <2>4, <2>5, RecordIInv
<1>7. CASE Store(c)
  <2> DEFINE r == [call[c] EXCEPT !.st = "done"]
             e == [value |-> call[c].doc, expires_at |-> call[c].now + TTL]
  <2>1. Busy(c) /\ call[c].st = "answered" /\ call[c] \in CallRecord
    BY <1>2, <1>7 DEF Store
  <2>2. /\ r \in CallRecord /\ r.st = "done" /\ r.iss = call[c].iss
        /\ r.now = call[c].now /\ r.doc = call[c].doc
    BY <2>1 DEF CallRecord, State
  <2>3. PublishedAfter(call[c].doc, call[c].iss, call[c].now) /\ call[c].now <= clock
    BY <1>2, <2>1
  <2>4. /\ e \in Entry /\ call[c].iss \in Issuer
        /\ e.value = call[c].doc /\ e.expires_at - TTL = call[c].now
        /\ e.expires_at <= clock + TTL
    BY <1>1, <2>1, <2>3 DEF CallRecord, Entry
  <2>5. PublishedAfter(e.value, call[c].iss, e.expires_at - TTL)
    BY <2>3, <2>4
  <2>6. PublishedAfter(r.doc, r.iss, r.now - TTL + 1)
    <3>1. PublishedAfter(call[c].doc, call[c].iss, call[c].now - TTL + 1)
      BY <1>1, <2>1, <2>3 DEF PublishedAfter, CallRecord, Doc
    <3> QED
      BY <2>2, <3>1
  <2>7. cache' = Put(cache, call[c].iss, e) /\ call' = [call EXCEPT ![c] = r]
    BY <1>1, <1>2, <1>7, <2>1 DEF Store, TypeOK
  <2> HIDE DEF r, e
  <2>8. call' = Put(call, c, r)
    BY <1>2, <1>3, <2>1, <2>2, <2>7
  <2> QED
    BY <1>1, <2>2, <2>3, <2>4, <2>5, <2>6, <2>7, <2>8, RecordIInv
<1>8. CASE Fail(c)
  <2> DEFINE r == [st |-> "failed", iss |-> call[c].iss, now |-> call[c].now,
                   doc |-> NoDoc(call[c].iss)]
  <2>1. Busy(c) /\ call[c] \in CallRecord /\ call[c].now <= clock
    BY <1>2, <1>8 DEF Fail
  <2>2. r \in CallRecord /\ r.st = "failed" /\ r.now = call[c].now
    BY <2>1 DEF CallRecord, State, NoDoc, Doc
  <2>3. call' = Put(call, c, r) /\ cache' = cache
    BY <1>8 DEF Fail
  <2> HIDE DEF r
  <2> QED
    BY <1>1, <2>1, <2>2, <2>3, RecordIInv
<1> QED
  BY <1>4, <1>5, <1>6, <1>7, <1>8

\* Every step preserves the invariant: one case for each action of the cache,
\* its callers, the endpoint and the clock.
LEMMA NextIInv == IInv /\ [Next]_vars => IInv'
<1> SUFFICES ASSUME IInv, [Next]_vars PROVE IInv'
  OBVIOUS
<1> USE TTLAssumption
<1>1. CASE Tick
  <2>1. /\ clock \in Nat /\ clock' = clock + 1 /\ UNCHANGED <<born, cache, call>>
        /\ TypeOK /\ Past
    BY <1>1 DEF Tick, IInv, TypeOK
  <2>2. TypeOK'
    BY <2>1 DEF TypeOK
  <2>3. Past'
    BY <2>1 DEF TypeOK, Past, Entry, CallRecord
  <2> QED
    BY <2>1, <2>2, <2>3
       DEF IInv, EntryExpires, ResponseTimely, BoundedStaleness, PublishedAfter
<1>2. CASE UNCHANGED vars
  BY <1>2 DEF vars, IInv, TypeOK, Past, EntryExpires, ResponseTimely,
              BoundedStaleness, PublishedAfter
<1>3. ASSUME NEW i \in Issuer, Publish(i) PROVE IInv'
  BY <1>3, PublishIInv
<1>4. ASSUME NEW c \in Call,
             \/ \E i \in Issuer : Hit(c, i) \/ Miss(c, i)
             \/ Respond(c) \/ Store(c) \/ Fail(c)
      PROVE  IInv'
  BY <1>4, CallIInv
<1> QED
  BY <1>1, <1>2, <1>3, <1>4 DEF Next

\* IInv is an invariant of the cache.
THEOREM Invariance == Spec => []IInv
<1>1. Init => IInv
  BY InitIInv
<1>2. IInv /\ [Next]_vars => IInv'
  BY NextIInv
<1> QED
  BY <1>1, <1>2, PTL DEF Spec

\* The cache and the calls are well formed: an entry's expiry never drops below
\* zero, and only issuers are keys.
THEOREM TypeCorrect == Spec => []TypeOK
<1>1. IInv => TypeOK
  BY DEF IInv
<1> QED
  BY <1>1, Invariance, PTL

\* Whatever order concurrent responses are stored in, an entry stops being
\* served at the latest TTL after its document was withdrawn.
THEOREM EntriesExpire == Spec => []EntryExpires
<1>1. IInv => EntryExpires
  BY DEF IInv
<1> QED
  BY <1>1, Invariance, PTL

\* No call returns a document withdrawn TTL or more before the call began.
THEOREM StalenessBounded == Spec => []BoundedStaleness
<1>1. IInv => BoundedStaleness
  BY DEF IInv
<1> QED
  BY <1>1, Invariance, PTL

\* An older document replaces a newer one only in a Store whose call began no
\* later than the newer one was published: a call begun after a rotation never
\* undoes it.
THEOREM RegressionsOverlap == Spec => RegressesOnlyByOverlap
<1> DEFINE Overlap ==
      \A i \in DOMAIN cache :
          cache'[i].value.ver < cache[i].value.ver =>
              \E c \in DOMAIN call :
                  /\ Busy(c) /\ ~Busy(c)'
                  /\ call[c].now <= born[i][cache[i].value.ver]
<1>1. ASSUME IInv, [Next]_vars PROVE [Overlap]_vars
  <2> SUFFICES ASSUME NEW i \in DOMAIN cache,
                      cache'[i].value.ver < cache[i].value.ver
               PROVE  \E c \in DOMAIN call :
                         /\ Busy(c) /\ ~Busy(c)'
                         /\ call[c].now <= born[i][cache[i].value.ver]
    OBVIOUS
  <2>1. /\ TypeOK /\ Past /\ i \in Issuer /\ cache[i] \in Entry
        /\ born[i] \in Seq(Nat)
        /\ cache[i].value.ver \in 1 .. Len(born[i])
    BY <1>1 DEF IInv, TypeOK, EntryExpires, PublishedAfter
  <2>2. cache' # cache
    BY <2>1 DEF Entry, Doc
  <2>3. PICK c \in Call : Store(c)
    BY <1>1, <2>2 DEF Next, Tick, Publish, Hit, Miss, Respond, Fail, vars
  <2>4. /\ Busy(c) /\ c \in DOMAIN call /\ call[c] \in CallRecord
        /\ PublishedAfter(call[c].doc, call[c].iss, call[c].now)
    BY <1>1, <2>1, <2>3 DEF Store, Busy, TypeOK, IInv, ResponseTimely
  <2>5. ~Busy(c)'
    BY <2>1, <2>3, <2>4 DEF Store, Busy, TypeOK, CallRecord
  <2>6. i = call[c].iss /\ cache'[i].value = call[c].doc
    BY <2>1, <2>2, <2>3 DEF Store, Put, Entry, Doc
  <2> DEFINE v == call[c].doc.ver
             w == cache[i].value.ver
  <2>7. v \in Nat /\ w \in 1 .. Len(born[i]) /\ v + 1 \in 1 .. Len(born[i]) /\ v + 1 <= w
    BY <2>1, <2>4, <2>6 DEF CallRecord, Doc
  <2>8. born[i][v + 1] <= born[i][w]
    BY <2>1, <2>7 DEF Past
  <2>9. call[c].now <= born[i][v + 1]
    BY <2>1, <2>4, <2>6, <2>7 DEF PublishedAfter
  <2> QED
    <3>1. \A x \in 1 .. Len(born[i]) : born[i][x] \in Nat
      BY <2>1
    <3>2. call[c].now \in Nat
      BY <2>4 DEF CallRecord
    <3>3. call[c].now <= born[i][w]
      <4> HIDE DEF v, w
      <4> QED
        BY <2>7, <2>8, <2>9, <3>1, <3>2
    <3> QED
      BY <2>4, <2>5, <3>3
<1> QED
  BY <1>1, Invariance, PTL DEF Spec, RegressesOnlyByOverlap

\* A step that replaces one call's record replaces what its caller sees of it.
LEMMA RecordSeen ==
    ASSUME NEW c, NEW r, call' = Put(call, c, r)
    PROVE  Source!Record(c, Seen(r))
  BY DEF Source!Record, Served, Put

\* A caller sees a call as open exactly while its response is under way.
LEMMA SeenOpen ==
    ASSUME TypeOK, NEW c
    PROVE  Source!Open(c) <=> Busy(c)
<1>1. CASE c \in DOMAIN call
  <2>1. call[c].st \in State
    BY <1>1 DEF TypeOK, CallRecord
  <2> QED
    BY <1>1, <2>1 DEF Source!Open, Served, Seen, Busy, State
<1>2. CASE c \notin DOMAIN call
  BY <1>2 DEF Source!Open, Served, Busy
<1> QED
  BY <1>1, <1>2

\* A document published after a time within TTL is one the source may give.
LEMMA PublishedIsRecent ==
    ASSUME TypeOK, NEW i \in Issuer, NEW d \in Doc, NEW t \in Nat,
           PublishedAfter(d, i, t - TTL + 1)
    PROVE  d \in Source!Docs(i) /\ Source!Recent(d, t)
<1>1. /\ d.iss = i /\ d.ver \in 1 .. Len(born[i])
      /\ d.ver < Len(born[i]) => born[i][d.ver + 1] >= t - TTL + 1
  BY DEF PublishedAfter
<1>2. born[i] \in Seq(Nat) /\ Len(born[i]) \in Nat /\ d.ver \in Nat
  BY DEF TypeOK, Doc
<1>3. d \in [iss : {i}, ver : 1 .. Len(born[i])]
  BY <1>1 DEF Doc
<1>4. ASSUME d.ver < Len(born[i]) PROVE born[i][d.ver + 1] + TTL > t
  <2>1. d.ver + 1 \in 1 .. Len(born[i])
    BY <1>2, <1>4
  <2>2. born[i][d.ver + 1] \in Nat
    BY <1>2, <2>1
  <2> QED
    BY <1>1, <1>4, <2>2, TTLAssumption
<1> QED
  BY <1>1, <1>3, <1>4 DEF Source!Docs, Source!Recent

\* Every step of the cache is a step of the abstract key source, or no step of
\* it: a response that arrives is not seen until the call resumes.
LEMMA SourceStep ==
    ASSUME IInv, IInv', [Next]_vars
    PROVE  [Source!Next]_(Source!vars)
<1>1. TypeOK /\ TypeOK'
  BY DEF IInv
<1>2. CASE UNCHANGED vars
  BY <1>2 DEF vars, Source!vars, Served
<1>3. CASE Tick
  BY <1>3 DEF Tick, Source!Next, Source!Tick, Served
<1>4. ASSUME NEW i \in Issuer, Publish(i) PROVE Source!Next
  BY <1>4 DEF Publish, Source!Next, Source!Publish, Served
<1>5. ASSUME NEW c \in Call, NEW i \in Issuer, Miss(c, i) PROVE Source!Next
  <2> DEFINE r == [st |-> "fetching", iss |-> i, now |-> clock, doc |-> NoDoc(i)]
  <2>1. call' = Put(call, c, r) /\ UNCHANGED <<clock, born>>
    BY <1>5 DEF Miss
  <2>2. Source!Record(c, Seen(r))
    BY <2>1, RecordSeen
  <2>3. Seen(r) = [st |-> "asked", iss |-> i, now |-> clock, doc |-> Source!NoDoc(i)]
    BY DEF Seen, NoDoc, Source!NoDoc
  <2>4. Source!Ask(c, i)
    BY <1>1, <1>5, <2>1, <2>2, <2>3, SeenOpen DEF Source!Ask, Miss
  <2> QED
    BY <2>4 DEF Source!Next
<1>6. ASSUME NEW c \in Call, NEW i \in Issuer, Hit(c, i) PROVE Source!Next
  <2> DEFINE d == cache[i].value
             r == [st |-> "done", iss |-> i, now |-> clock, doc |-> d]
  <2>1. call' = Put(call, c, r) /\ UNCHANGED <<clock, born>>
    BY <1>6 DEF Hit
  <2>2. Source!Record(c, Seen(r)) /\ Seen(r) = r
    BY <2>1, RecordSeen DEF Seen
  <2>3. call'[c] = r /\ c \in DOMAIN call'
    BY <2>1 DEF Put
  <2>4. PublishedAfter(d, i, clock - TTL + 1)
    BY <2>1, <2>3 DEF IInv, BoundedStaleness, PublishedAfter
  <2>5. clock \in Nat /\ d \in Doc
    BY <1>1, <1>6 DEF TypeOK, Hit, CacheHit, Entry
  <2>6. d \in Source!Docs(i) /\ Source!Recent(d, clock)
    BY <1>1, <2>4, <2>5, PublishedIsRecent
  <2>7. Source!AnswerAtOnce(c, i)
    BY <1>1, <1>6, <2>1, <2>2, <2>6, SeenOpen DEF Source!AnswerAtOnce, Hit
  <2> QED
    BY <2>7 DEF Source!Next
<1>7. ASSUME NEW c \in Call, Busy(c), NEW r \in CallRecord,
             call' = [call EXCEPT ![c] = r]
      PROVE  /\ c \in DOMAIN call /\ call[c] \in CallRecord
             /\ call' = Put(call, c, r)
             /\ call'[c] = r /\ c \in DOMAIN call'
             /\ Served[c] = [st |-> "asked", iss |-> call[c].iss,
                             now |-> call[c].now, doc |-> NoDoc(call[c].iss)]
             /\ Source!Record(c, Seen(r))
  <2>1. c \in DOMAIN call /\ call[c] \in CallRecord
    BY <1>1, <1>7 DEF Busy, TypeOK
  <2>2. call' = Put(call, c, r)
    BY <1>1, <1>7, <2>1 DEF Put, TypeOK
  <2> QED
    BY <1>7, <2>1, <2>2, RecordSeen DEF Put, Busy, Served, Seen
<1>8. ASSUME NEW c \in Call, Respond(c) PROVE UNCHANGED Source!vars
  <2>1. Busy(c) /\ c \in DOMAIN call /\ call[c] \in CallRecord
    BY <1>1, <1>8 DEF Respond, Busy, TypeOK
  <2>2. /\ DOMAIN call' = DOMAIN call /\ UNCHANGED <<clock, born>>
        /\ \A x \in DOMAIN call : x # c => call'[x] = call[x]
        /\ call'[c].st = "answered" /\ call'[c].iss = call[c].iss
        /\ call'[c].now = call[c].now
    BY <1>1, <1>8, <2>1 DEF Respond, TypeOK, CallRecord
  <2>3. Seen(call'[c]) = Seen(call[c])
    BY <2>1, <2>2 DEF Busy, Seen
  <2>4. Served' = Served
    BY <2>2, <2>3 DEF Served, Seen
  <2> QED
    BY <2>2, <2>4 DEF Source!vars
<1>9. ASSUME NEW c \in Call, Store(c) PROVE Source!Next
  <2> DEFINE r == [call[c] EXCEPT !.st = "done"]
             d == call[c].doc
  <2>1. /\ Busy(c) /\ call[c] \in CallRecord
        /\ call' = [call EXCEPT ![c] = r] /\ UNCHANGED <<clock, born>>
    BY <1>1, <1>9 DEF Store, Busy, TypeOK
  <2>2. r \in CallRecord
    BY <2>1 DEF CallRecord, State
  <2>3. r = [st |-> "done", iss |-> call[c].iss, now |-> call[c].now, doc |-> d]
    BY <2>1 DEF CallRecord
  <2> HIDE DEF r
  <2>4. /\ c \in DOMAIN call' /\ call'[c] = r
        /\ Served[c] = [st |-> "asked", iss |-> call[c].iss,
                        now |-> call[c].now, doc |-> NoDoc(call[c].iss)]
        /\ Source!Record(c, Seen(r))
    BY <1>7, <2>1, <2>2
  <2>5. PublishedAfter(d, call[c].iss, call[c].now - TTL + 1)
    BY <2>1, <2>3, <2>4 DEF IInv, BoundedStaleness, PublishedAfter
  <2>6. d \in Source!Docs(call[c].iss) /\ Source!Recent(d, call[c].now)
    BY <1>1, <2>1, <2>5, PublishedIsRecent DEF CallRecord
  <2>7. Seen(r) = [st |-> "done", iss |-> Served[c].iss, now |-> Served[c].now,
                   doc |-> d]
    BY <2>3, <2>4 DEF Seen
  <2>8. Source!Answer(c)
    <3>1. Source!Open(c)
      BY <1>1, <2>1, SeenOpen
    <3>2. Served[c].iss = call[c].iss /\ Served[c].now = call[c].now
      BY <2>4
    <3> HIDE DEF d
    <3> QED
      BY <2>1, <2>4, <2>6, <2>7, <3>1, <3>2 DEF Source!Answer
  <2> QED
    BY <2>8 DEF Source!Next
<1>10. ASSUME NEW c \in Call, Fail(c) PROVE Source!Next
  <2> DEFINE r == [st |-> "failed", iss |-> call[c].iss, now |-> call[c].now,
                   doc |-> NoDoc(call[c].iss)]
  <2>1. Busy(c) /\ call' = Put(call, c, r) /\ UNCHANGED <<clock, born>>
    BY <1>10 DEF Fail
  <2>2. Source!Record(c, Seen(r)) /\ Seen(r) = r
    BY <2>1, RecordSeen DEF Seen
  <2>3. Served[c] = [st |-> "asked", iss |-> call[c].iss,
                     now |-> call[c].now, doc |-> NoDoc(call[c].iss)]
    BY <2>1 DEF Busy, Served, Seen
  <2>4. r = [Served[c] EXCEPT !.st = "failed"]
    BY <2>3
  <2>5. Source!Refuse(c)
    BY <1>1, <2>1, <2>2, <2>4, SeenOpen DEF Source!Refuse
  <2> QED
    BY <2>5 DEF Source!Next
<1> QED
  BY <1>2, <1>3, <1>4, <1>5, <1>6, <1>8, <1>9, <1>10 DEF Next

\* JWKSCache implements KeySource: to its callers it is a source whose answers
\* were published less than TTL before they asked.
THEOREM CacheImplementsKeySource == Spec => ImplementsKeySource
<1>1. Init => Source!Init
  BY DEF Init, Source!Init, Served
<1>2. IInv /\ IInv' /\ [Next]_vars => [Source!Next]_(Source!vars)
  BY SourceStep
<1> QED
  BY <1>1, <1>2, Invariance, PTL DEF Spec, ImplementsKeySource, Source!Spec

=============================================================================
