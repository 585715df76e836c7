------------------------------ MODULE KeySource ------------------------------
(***************************************************************************)
(* What the request path may expect of the place it gets an issuer's key   *)
(* set (JWKS) from, whether or not a cache sits in between: a call is      *)
(* refused, or it is answered with a document of the issuer it asked for   *)
(* that was still the published one less than TTL before the call began.   *)
(* A withdrawn key is therefore trusted, and a new key unknown, for less   *)
(* than TTL.  JWKSCache implements this module.                            *)
(***************************************************************************)
EXTENDS Integers, Sequences

CONSTANTS
    Call,       \* identities of concurrent calls of JWKSCache.get
    Issuer,     \* OIDC issuers, by issuer_url
    TTL,        \* how long a withdrawn document may still be handed out
    MaxClock,   \* bound on the clock
    MaxVersion  \* bound on the number of documents an issuer publishes

VARIABLES
    clock,      \* wall-clock time, in ticks
    born,       \* born[i][v]: when issuer i published its document number v
    served      \* served[c]: the latest call made under identity c

vars == <<clock, born, served>>

Doc == [iss : Issuer, ver : Nat]      \* document number ver of an issuer
NoDoc(i) == [iss |-> i, ver |-> 0]    \* none yet
Docs(i) == [iss : {i}, ver : 1 .. Len(born[i])]

\* The document number v of an issuer is replaced by number v + 1.  Recent
\* holds of a document that was still published less than TTL before time t.
Recent(d, t) ==
    /\ d.ver \in 1 .. Len(born[d.iss])
    /\ d.ver < Len(born[d.iss]) => born[d.iss][d.ver + 1] + TTL > t

Open(c) == c \in DOMAIN served /\ served[c].st = "asked"

Record(c, r) ==
    served' = [x \in DOMAIN served \cup {c} |-> IF x = c THEN r ELSE served[x]]

Init ==
    /\ clock = 0
    /\ born = [i \in Issuer |-> <<0>>]
    /\ served = [c \in {} |-> {}]

Tick ==
    /\ clock < MaxClock
    /\ clock' = clock + 1
    /\ UNCHANGED <<born, served>>

Publish(i) ==
    /\ Len(born[i]) < MaxVersion
    /\ born' = [born EXCEPT ![i] = Append(@, clock)]
    /\ UNCHANGED <<clock, served>>

Ask(c, i) ==
    /\ ~Open(c)
    /\ Record(c, [st |-> "asked", iss |-> i, now |-> clock, doc |-> NoDoc(i)])
    /\ UNCHANGED <<clock, born>>

\* The answer may come in the very step the call is made (a cache hit).
AnswerAtOnce(c, i) ==
    /\ ~Open(c)
    /\ \E d \in Docs(i) :
          /\ Recent(d, clock)
          /\ Record(c, [st |-> "done", iss |-> i, now |-> clock, doc |-> d])
    /\ UNCHANGED <<clock, born>>

Answer(c) ==
    /\ Open(c)
    /\ \E d \in Docs(served[c].iss) :
          /\ Recent(d, served[c].now)
          /\ Record(c, [st |-> "done", iss |-> served[c].iss,
                        now |-> served[c].now, doc |-> d])
    /\ UNCHANGED <<clock, born>>

Refuse(c) ==
    /\ Open(c)
    /\ Record(c, [served[c] EXCEPT !.st = "failed"])
    /\ UNCHANGED <<clock, born>>

Next ==
    \/ Tick
    \/ \E i \in Issuer : Publish(i)
    \/ \E c \in Call :
          \/ \E i \in Issuer : Ask(c, i) \/ AnswerAtOnce(c, i)
          \/ Answer(c)
          \/ Refuse(c)

Spec == Init /\ [][Next]_vars
=============================================================================
