---------------------------- MODULE RolloutProofs ----------------------------
(***************************************************************************)
(* What is deployed starts: proofs about Rollout for any drafts, any files *)
(* elsewhere, any edits and any faults.  The argument: from the test on, a *)
(* run holds an image and variables with which the image has started, and  *)
(* nothing but they become the service's; what is live has started as well,*)
(* so that a failed update is rolled back to what starts.                  *)
(*                                                                         *)
(* And about the two readers of the file: what a draft that loads implies  *)
(* of its servers, and that the script finds every variable it asks for.   *)
(***************************************************************************)
EXTENDS Rollout, TLAPS, WellFoundedInduction

\* What a run holds once its image has been tested.
Tested == run.at \in {"push", "deploy", "wait"} => Starts(run)

\* What is live has started.
LiveStarts == up \/ live # None => Starts(live)

IInv == TypeOK /\ Tested /\ DeployedStarts /\ LiveStarts

\* What the script finds in a file are names of variables.
LEMMA ExtractNames ==
    ASSUME NEW d \in DOMAIN Draft
    PROVE  Extract(Draft[d]) \in SUBSET Names
BY NamesAssumption DEF Extract, Names

LEMMA InitInvariant == Init => IInv
<1> SUFFICES ASSUME Init PROVE IInv
  OBVIOUS
<1>1. TypeOK
  <2>1. up \in BOOLEAN
    BY DEF Init
  <2>2. edits \in 0 .. MaxEdits /\ faults \in 0 .. MaxFaults
    BY RolloutAssumption DEF Init
  <2>3. run \in [at : {"idle", "build", "test", "push", "deploy", "wait"},
                length : NameLength \cup {0}, env : SUBSET Names, image : Images]
    BY DEF Init, NoRun, Images
  <2>4. service \in [image : Images, env : SUBSET Names,
                    status : {"none", "OPERATION_IN_PROGRESS", "RUNNING",
                              "CREATE_FAILED"}]
    BY DEF Init, Nowhere, Images
  <2>5. live \in [image : Images, env : SUBSET Names]
    BY DEF Init, None, Images
  <2> QED BY <2>1, <2>2, <2>3, <2>4, <2>5 DEF Init, TypeOK
<1>2. Tested /\ DeployedStarts /\ LiveStarts
  BY DEF Init, Tested, DeployedStarts, LiveStarts, NoRun
<1> QED BY <1>1, <1>2 DEF IInv

\* Every step of the deployment keeps the types.
LEMMA TypeInvariant == TypeOK /\ [Next]_vars => TypeOK'
<1> SUFFICES ASSUME TypeOK, [Next]_vars PROVE TypeOK'
  OBVIOUS
<1> USE DEF TypeOK, Images
<1>1. ASSUME NEW d \in DOMAIN Draft, NEW length \in NameLength, Start(d, length)
      PROVE  TypeOK'
  BY <1>1, ExtractNames DEF Start
<1>2. CASE Build
  BY <1>2 DEF Build
<1>3. CASE Test
  BY <1>3 DEF Test, Goto
<1>4. CASE Push
  BY <1>4 DEF Push, Goto
<1>5. CASE DeployService
  BY <1>5 DEF DeployService, Goto
<1>6. CASE Poll \/ Fail
  BY <1>6, RolloutAssumption DEF Poll, Fail, NoRun
<1>7. CASE EndOperation
  <2>1. up' \in BOOLEAN
    BY <1>7 DEF EndOperation
  <2>2. faults' \in 0 .. MaxFaults
    BY <1>7, RolloutAssumption DEF EndOperation
  <2>3. service' \in [image : Images, env : SUBSET Names,
                      status : {"none", "OPERATION_IN_PROGRESS", "RUNNING",
                                "CREATE_FAILED"}]
    <3>1. CASE service' = RolledBack
      BY <3>1 DEF RolledBack
    <3>2. CASE service' = [service EXCEPT !.status = "RUNNING"]
      BY <3>2
    <3> QED BY <1>7, <3>1, <3>2 DEF EndOperation
  <2>4. live' \in [image : Images, env : SUBSET Names]
    BY <1>7 DEF EndOperation
  <2> QED BY <1>7, <2>1, <2>2, <2>3, <2>4 DEF EndOperation
<1>8. CASE Crash
  <2>1. up' \in BOOLEAN
    BY <1>8 DEF Crash
  <2>2. faults' \in 0 .. MaxFaults
    BY <1>8, RolloutAssumption DEF Crash
  <2> QED BY <1>8, <2>1, <2>2 DEF Crash
<1>11. CASE Startup
  <2>1. up' \in BOOLEAN
    BY <1>11 DEF Startup
  <2> QED BY <1>11, <2>1 DEF Startup
<1>9. ASSUME NEW d \in DOMAIN Draft, Edit(d) PROVE TypeOK'
  BY <1>9, RolloutAssumption DEF Edit
<1>10. CASE UNCHANGED vars
  BY <1>10 DEF vars
<1> QED
  BY <1>1, <1>2, <1>3, <1>4, <1>5, <1>6, <1>7, <1>8, <1>9, <1>10, <1>11 DEF Next, Orderly

\* What has the image and the variables of what starts, starts.
LEMMA StartsAlike ==
    ASSUME NEW a, NEW b, a.image = b.image, a.env = b.env, Starts(a)
    PROVE  Starts(b)
BY DEF Starts

\* Only a run whose image has started gets past the test, with the variables it
\* was started with.
LEMMA TestedInvariant == IInv /\ [Next]_vars => Tested'
<1> SUFFICES ASSUME IInv, [Next]_vars PROVE Tested'
  OBVIOUS
<1> USE DEF IInv, Tested, At, Goto
<1>1. CASE Test \/ Push \/ DeployService
  <2>1. Starts(run)
    BY <1>1 DEF Test, Push, DeployService
  <2>2. run'.image = run.image /\ run'.env = run.env
    BY <1>1 DEF Test, Push, DeployService, TypeOK
  <2> QED BY <2>1, <2>2, StartsAlike
<1>2. ASSUME NEW d \in DOMAIN Draft, NEW length \in NameLength, Start(d, length)
      PROVE  Tested'
  BY <1>2 DEF Start
<1>3. CASE Build
  BY <1>3 DEF Build, TypeOK
<1>4. CASE Poll \/ Fail
  BY <1>4 DEF Poll, Fail, NoRun
<1>5. CASE run' = run
  BY <1>5, StartsAlike
<1> QED
  BY <1>1, <1>2, <1>3, <1>4, <1>5
     DEF Next, Orderly, EndOperation, Crash, Startup, Edit, vars

\* A service gets what its run has tested, and keeps it when its status changes.
LEMMA DeployedInvariant == IInv /\ [Next]_vars => DeployedStarts'
<1> SUFFICES ASSUME IInv, [Next]_vars PROVE DeployedStarts'
  OBVIOUS
<1> USE DEF IInv, DeployedStarts
<1>1. CASE DeployService
  <2>1. Starts(run)
    BY <1>1 DEF DeployService, Tested, At
  <2>2. service'.image = run.image /\ service'.env = run.env
    BY <1>1 DEF DeployService
  <2> QED BY <2>1, <2>2, StartsAlike
<1>2. CASE EndOperation
  <2>1. service # Nowhere
    BY <1>2 DEF EndOperation, Nowhere
  <2>2. Starts(service)
    BY <2>1
  <2>3. \/ service'.image = service.image /\ service'.env = service.env
        \/ live # None /\ service'.image = live.image /\ service'.env = live.env
    BY <1>2 DEF EndOperation, RolledBack, TypeOK
  <2>4. live # None => Starts(live)
    BY DEF LiveStarts
  <2> QED BY <2>2, <2>3, <2>4, StartsAlike
<1>3. CASE service' = service
  BY <1>3, StartsAlike
<1> QED
  BY <1>1, <1>2, <1>3
     DEF Next, Orderly, Start, Build, Test, Push, Poll, Fail, Crash, Startup, Edit, vars

\* Only a service whose application starts goes live.
LEMMA LiveInvariant == IInv /\ [Next]_vars => LiveStarts'
<1> SUFFICES ASSUME IInv, [Next]_vars PROVE LiveStarts'
  OBVIOUS
<1>1. CASE /\ Starts(service)
           /\ live' = [image |-> service.image, env |-> service.env]
  <2>1. live'.image = service.image /\ live'.env = service.env
    BY <1>1
  <2> QED BY <1>1, <2>1, StartsAlike DEF LiveStarts
<1>2. CASE live' = live /\ (up' => up \/ Starts(live))
  BY <1>2, StartsAlike DEF IInv, LiveStarts
<1>3. CASE EndOperation
  <2>1. ASSUME UNCHANGED <<live, up>> PROVE LiveStarts'
    <3>1. live' = live /\ (up' => up)
      BY <2>1
    <3> QED BY <3>1, <1>2
  <2> QED BY <1>1, <1>3, <2>1 DEF EndOperation
<1> QED
  BY <1>2, <1>3
     DEF Next, Orderly, Start, Build, Test, Push, DeployService, Poll, Fail, Crash,
         Startup, Edit, vars

\* The inductive invariant of the deployment.
THEOREM Invariance == Spec => []IInv
<1>1. IInv /\ [Next]_vars => IInv'
  BY TypeInvariant, TestedInvariant, DeployedInvariant, LiveInvariant DEF IInv
<1> QED BY InitInvariant, <1>1, PTL DEF Spec

\* Everything keeps its type; variables are never named in braces.
THEOREM TypeCorrect == Spec => []TypeOK
<1>1. IInv => TypeOK
  BY DEF IInv
<1> QED BY Invariance, <1>1, PTL

\* Whatever is edited while the script runs, and whichever file it was given, a
\* service's configuration loads with the service's variables.
THEOREM DeployedServicesStart == Spec => []DeployedStarts
<1>1. IInv => DeployedStarts
  BY DEF IInv
<1> QED BY Invariance, <1>1, PTL
-----------------------------------------------------------------------------
LEMMA Least ==
    ASSUME NEW S \in SUBSET Nat, S # {}
    PROVE  \E n \in S : \A m \in S : n <= m
<1>1. PICK n \in S : \A m \in S : ~(<<m, n>> \in OpToRel(<, Nat))
  BY WFMin, NatLessThanWellFounded
<1>2. \A m \in S : ~(m < n)
  BY <1>1 DEF OpToRel
<1> QED BY <1>2

\* A document that loads has no problem at any stage, hence no server without
\* its credentials.
LEMMA EarliestNone ==
    ASSUME NEW stages, DOMAIN stages \in SUBSET Nat, Conf!Earliest(stages) = {}
    PROVE  \A n \in DOMAIN stages : stages[n] = {}
<1> DEFINE raised == {n \in DOMAIN stages : stages[n] # {}}
<1> SUFFICES ASSUME raised # {} PROVE FALSE
  OBVIOUS
<1>1. raised \in SUBSET Nat
  OBVIOUS
<1>2. \E n \in raised : \A m \in raised : n <= m
  BY <1>1, Least
<1>3. (CHOOSE n \in raised : \A m \in raised : n <= m) \in raised
  BY <1>2
<1> QED BY <1>3 DEF Conf!Earliest

LEMMA NothingFirst == ASSUME NEW problems, Conf!First(problems) = {} PROVE problems = <<>>
BY DEF Conf!First

LEMMA NothingAdded ==
    ASSUME NEW T, NEW a \in Seq(T), NEW b \in Seq(T), a \o b = <<>>
    PROVE  a = <<>> /\ b = <<>>
OBVIOUS

\* The checks of Config.from_dict.
Stages(doc, env) ==
    LET issuers == Conf!Section(doc, "oidc_issuers")
        servers == Conf!Section(doc, "servers")
        rules == Conf!Section(doc, "authorization_rules")
    IN  <<Conf!First(Conf!Missing("config", doc, "settings")),
          Conf!First(Conf!Missing("settings", Conf!Section(doc, "settings"), "audience")),
          Conf!First(Conf!Missing("config", doc, "oidc_issuers")),
          UNION {Conf!First(Conf!OIDCIssuer(<<"oidc_issuers", i>>, issuers[i])) :
                    i \in DOMAIN issuers},
          Conf!First(Conf!Missing("config", doc, "servers")),
          UNION {Conf!First(Conf!Server(<<"servers", s>>, servers[s], env)) :
                    s \in DOMAIN servers},
          Conf!First(Conf!Missing("config", doc, "authorization_rules")),
          Conf!Earliest([k \in DOMAIN rules |->
              Conf!First(Conf!AuthorizationRule(<<"authorization_rules", k>>, rules[k]))])>>

\* A document loads when no check fails, in whatever order they are made.
LEMMA LoadsWithout ==
    ASSUME NEW doc, NEW env
    PROVE  Conf!Loads(doc, env) <=> \A n \in 1 .. 8 : Stages(doc, env)[n] = {}
<1>1. Conf!Loads(doc, env) <=> Conf!Earliest(Stages(doc, env)) = {}
  BY DEF Conf!Loads, Conf!Problems, Stages
<1>2. DOMAIN Stages(doc, env) = 1 .. 8
  BY DEF Stages
<1>3. Conf!Earliest(Stages(doc, env)) = {} => \A n \in 1 .. 8 : Stages(doc, env)[n] = {}
  BY <1>2, EarliestNone
<1>4. (\A n \in 1 .. 8 : Stages(doc, env)[n] = {}) => Conf!Earliest(Stages(doc, env)) = {}
  BY <1>2 DEF Conf!Earliest
<1> QED BY <1>1, <1>3, <1>4

\* The environment is asked for nothing but the servers' variables.
LEMMA OnlyServersDiffer ==
    ASSUME NEW doc, NEW env, NEW other
    PROVE  /\ \A n \in 1 .. 8 : n # 6 => Stages(doc, env)[n] = Stages(doc, other)[n]
           /\ LET servers == Conf!Section(doc, "servers")
              IN  Stages(doc, env)[6] = {} <=>
                     \A s \in DOMAIN servers :
                        Conf!Server(<<"servers", s>>, servers[s], env) = <<>>
<1>1. \A n \in 1 .. 8 : n # 6 => Stages(doc, env)[n] = Stages(doc, other)[n]
  <2>1. /\ Stages(doc, env)[1] = Stages(doc, other)[1]
        /\ Stages(doc, env)[2] = Stages(doc, other)[2]
        /\ Stages(doc, env)[3] = Stages(doc, other)[3]
        /\ Stages(doc, env)[4] = Stages(doc, other)[4]
    BY DEF Stages
  <2>2. /\ Stages(doc, env)[5] = Stages(doc, other)[5]
        /\ Stages(doc, env)[7] = Stages(doc, other)[7]
        /\ Stages(doc, env)[8] = Stages(doc, other)[8]
    BY DEF Stages
  <2> QED BY <2>1, <2>2
<1> DEFINE servers == Conf!Section(doc, "servers")
           found(s) == Conf!Server(<<"servers", s>>, servers[s], env)
<1>2. Stages(doc, env)[6] = UNION {Conf!First(found(s)) : s \in DOMAIN servers}
  BY DEF Stages
<1>3. \A s : Conf!First(found(s)) = {} <=> found(s) = <<>>
  BY DEF Conf!First
<1> HIDE DEF servers, found
<1>4. Stages(doc, env)[6] = {} <=> \A s \in DOMAIN servers : found(s) = <<>>
  BY <1>2, <1>3
<1> QED BY <1>1, <1>4 DEF servers, found

\* Nothing is wrong with a server's mapping, nor with that of its secret.
Sane(where, s, env) ==
    /\ Conf!Missing(where, s, "base_url") = <<>> /\ Conf!Unset(where, s, "token", env) = <<>>
    /\ Conf!Credentials(where, s) = <<>>
    /\ "oauth_secret" \in DOMAIN s =>
          LET o == s.oauth_secret
          IN  /\ Conf!Missing(where, o, "client_id") = <<>>
              /\ Conf!Unset(where, o, "client_id", env) = <<>>
              /\ Conf!Missing(where, o, "client_secret") = <<>>
              /\ Conf!Unset(where, o, "client_secret", env) = <<>>
              /\ Conf!Missing(where, o, "auth_url") = <<>>

LEMMA NothingJoined ==
    ASSUME NEW a, NEW b, a = <<>>, b = <<>>
    PROVE  a \o b = <<>>
OBVIOUS

LEMMA ServerSane ==
    ASSUME NEW where, NEW s, NEW env
    PROVE  Conf!Server(where, s, env) = <<>> <=> Sane(where, s, env)
<1> DEFINE Key == {"base_url", "token", "client_id", "client_secret", "auth_url"}
           T == {Conf!Problem(where, key, why) :
                    key \in Key, why \in {"missing", "unset", "both", "neither"}}
<1>1. \A m : \A key \in Key : /\ Conf!Missing(where, m, key) \in Seq(T)
                              /\ Conf!Unset(where, m, key, env) \in Seq(T)
  <2> SUFFICES ASSUME NEW m, NEW key \in Key
               PROVE  /\ Conf!Missing(where, m, key) \in Seq(T)
                      /\ Conf!Unset(where, m, key, env) \in Seq(T)
    OBVIOUS
  <2>1. Conf!Problem(where, key, "missing") \in T /\ Conf!Problem(where, key, "unset") \in T
    OBVIOUS
  <2> HIDE DEF T
  <2> QED BY <2>1 DEF Conf!Missing, Conf!Unset
<1>2. Conf!Credentials(where, s) \in Seq(T)
  <2>1. Conf!Problem(where, "token", "both") \in T /\ Conf!Problem(where, "token", "neither") \in T
    OBVIOUS
  <2> HIDE DEF T
  <2> QED BY <2>1 DEF Conf!Credentials
<1> HIDE DEF T
<1>3. ASSUME NEW a \in Seq(T), NEW b \in Seq(T)
      PROVE  a \o b \in Seq(T) /\ (a \o b = <<>> <=> a = <<>> /\ b = <<>>)
  BY NothingAdded, NothingJoined
<1> DEFINE o == s.oauth_secret
           o1 == Conf!Missing(where, o, "client_id")
           o2 == Conf!Unset(where, o, "client_id", env)
           o3 == Conf!Missing(where, o, "client_secret")
           o4 == Conf!Unset(where, o, "client_secret", env)
           o5 == Conf!Missing(where, o, "auth_url")
           s1 == Conf!Missing(where, s, "base_url")
           s2 == Conf!Unset(where, s, "token", env)
           s3 == IF "oauth_secret" \in DOMAIN s
                 THEN Conf!OAuthSecret(where, o, env) ELSE <<>>
           s4 == Conf!Credentials(where, s)
<1>4. Conf!OAuthSecret(where, o, env) = o1 \o o2 \o o3 \o o4 \o o5
  BY DEF Conf!OAuthSecret
<1>5. Conf!Server(where, s, env) = s1 \o s2 \o s3 \o s4
  BY DEF Conf!Server
<1>6. /\ o1 \in Seq(T) /\ o2 \in Seq(T) /\ o3 \in Seq(T) /\ o4 \in Seq(T) /\ o5 \in Seq(T)
      /\ s1 \in Seq(T) /\ s2 \in Seq(T) /\ s4 \in Seq(T)
  BY <1>1, <1>2
<1>7. Sane(where, s, env) <=>
         /\ s1 = <<>> /\ s2 = <<>> /\ s4 = <<>>
         /\ "oauth_secret" \in DOMAIN s =>
               o1 = <<>> /\ o2 = <<>> /\ o3 = <<>> /\ o4 = <<>> /\ o5 = <<>>
  BY DEF Sane
<1> HIDE DEF o, o1, o2, o3, o4, o5, s1, s2, s4
<1>8. /\ Conf!OAuthSecret(where, o, env) \in Seq(T)
      /\ Conf!OAuthSecret(where, o, env) = <<>> <=>
            o1 = <<>> /\ o2 = <<>> /\ o3 = <<>> /\ o4 = <<>> /\ o5 = <<>>
  <2>1. o1 \o o2 \in Seq(T) /\ (o1 \o o2 = <<>> <=> o1 = <<>> /\ o2 = <<>>)
    BY <1>3, <1>6
  <2> DEFINE p == o1 \o o2
  <2> HIDE DEF p
  <2>2. p \o o3 \in Seq(T) /\ (p \o o3 = <<>> <=> p = <<>> /\ o3 = <<>>)
    BY <1>3, <1>6, <2>1 DEF p
  <2> DEFINE q == p \o o3
  <2> HIDE DEF q
  <2>3. q \o o4 \in Seq(T) /\ (q \o o4 = <<>> <=> q = <<>> /\ o4 = <<>>)
    BY <1>3, <1>6, <2>2 DEF q
  <2> DEFINE r == q \o o4
  <2> HIDE DEF r
  <2>4. r \o o5 \in Seq(T) /\ (r \o o5 = <<>> <=> r = <<>> /\ o5 = <<>>)
    BY <1>3, <1>6, <2>3 DEF r
  <2>5. Conf!OAuthSecret(where, o, env) = r \o o5
    BY <1>4 DEF r, q, p
  <2> QED BY <2>1, <2>2, <2>3, <2>4, <2>5 DEF p, q, r
<1>9. s3 \in Seq(T) /\ (s3 = <<>> <=>
         ("oauth_secret" \in DOMAIN s =>
             o1 = <<>> /\ o2 = <<>> /\ o3 = <<>> /\ o4 = <<>> /\ o5 = <<>>))
  BY <1>8
<1> HIDE DEF s3
<1>10. Conf!Server(where, s, env) = <<>> <=> s1 = <<>> /\ s2 = <<>> /\ s3 = <<>> /\ s4 = <<>>
  <2>1. s1 \o s2 \in Seq(T) /\ (s1 \o s2 = <<>> <=> s1 = <<>> /\ s2 = <<>>)
    BY <1>3, <1>6
  <2> DEFINE p == s1 \o s2
  <2> HIDE DEF p
  <2>2. p \o s3 \in Seq(T) /\ (p \o s3 = <<>> <=> p = <<>> /\ s3 = <<>>)
    BY <1>3, <1>9, <2>1 DEF p
  <2> DEFINE q == p \o s3
  <2> HIDE DEF q
  <2>3. q \o s4 = <<>> <=> q = <<>> /\ s4 = <<>>
    BY <1>3, <1>6, <2>2 DEF q
  <2>4. Conf!Server(where, s, env) = q \o s4
    BY <1>5 DEF q, p
  <2> QED BY <2>1, <2>2, <2>3, <2>4 DEF p, q
<1> QED BY <1>7, <1>9, <1>10

LEMMA LoadedServer ==
    ASSUME NEW doc, NEW env, Conf!Loads(doc, env), NEW s \in Servers(doc)
    PROVE  \E where : Conf!Server(where, s, env) = <<>>
<1> DEFINE servers == Conf!Section(doc, "servers")
<1>1. PICK six \in 1 .. 8 : six = 6
  OBVIOUS
<1>2. Stages(doc, env)[6] = {}
  BY <1>1, LoadsWithout
<1>3. PICK n \in DOMAIN servers : s = servers[n]
  BY DEF Servers
<1>4. Conf!Server(<<"servers", n>>, servers[n], env) = <<>>
  BY <1>2, OnlyServersDiffer
<1> QED BY <1>3, <1>4

LEMMA ServerUsable ==
    ASSUME NEW where, NEW s, NEW env, Conf!Server(where, s, env) = <<>>
    PROVE  Conf!AuthType(s) # "ValueError"
<1>1. Conf!Credentials(where, s) = <<>>
  BY ServerSane DEF Sane
<1> QED BY <1>1 DEF Conf!Credentials, Conf!AuthType

\* A server's mapping that is sane in one environment is so in another that has
\* the variables it names.
LEMMA SaneElsewhere ==
    ASSUME NEW where, NEW s, NEW env, NEW other, Sane(where, s, env),
           Named(s) \cap env \subseteq other
    PROVE  Sane(where, s, other)
<1>1. Conf!Unset(where, s, "token", other) = <<>>
  <2>1. "token" \in DOMAIN s => s["token"] \in Named(s)
    BY DEF Named, Given
  <2>2. "token" \in DOMAIN s => s["token"] \in env
    BY DEF Sane, Conf!Unset
  <2> QED BY <2>1, <2>2 DEF Conf!Unset
<1>2. ASSUME "oauth_secret" \in DOMAIN s
      PROVE  /\ Conf!Unset(where, s.oauth_secret, "client_id", other) = <<>>
             /\ Conf!Unset(where, s.oauth_secret, "client_secret", other) = <<>>
  <2> DEFINE o == s.oauth_secret
  <2>1. o \in Given(s, {"oauth_secret"})
    BY <1>2 DEF Given
  <2>2. \A key \in {"client_id", "client_secret"} : key \in DOMAIN o => o[key] \in Named(s)
    BY <2>1 DEF Named, Given
  <2>3. /\ Conf!Unset(where, o, "client_id", env) = <<>>
        /\ Conf!Unset(where, o, "client_secret", env) = <<>>
    BY <1>2 DEF Sane
  <2> HIDE DEF o
  <2>4. \A key \in {"client_id", "client_secret"} : key \in DOMAIN o => o[key] \in env
    BY <2>3 DEF Conf!Unset
  <2>5. \A key \in {"client_id", "client_secret"} : key \in DOMAIN o => o[key] \in other
    BY <2>2, <2>4
  <2>6. /\ Conf!Unset(where, o, "client_id", other) = <<>>
        /\ Conf!Unset(where, o, "client_secret", other) = <<>>
    BY <2>5 DEF Conf!Unset
  <2> QED BY <2>6 DEF o
<1> QED BY <1>1, <1>2 DEF Sane

\* The script and the application read the file each in its own way, and agree:
\* a file that loads with any variables at all loads with those that the script
\* finds in it, so that no deployment of a good file fails for want of a secret.
THEOREM ExtractedSuffice ==
    \A d \in Sound : Starts([image |-> d, env |-> Extract(Draft[d])])
<1> SUFFICES ASSUME NEW d \in Sound
             PROVE  Starts([image |-> d, env |-> Extract(Draft[d])])
  OBVIOUS
<1> DEFINE doc == Draft[d]
           servers == Conf!Section(doc, "servers")
           found == Extract(doc)
<1>1. PICK env \in SUBSET Names : d \in DOMAIN Draft /\ Conf!Loads(doc, env)
  BY DEF Sound, Loading
<1>2. \A n \in 1 .. 8 : Stages(doc, env)[n] = {}
  BY <1>1, LoadsWithout
<1>3. ASSUME NEW s \in DOMAIN servers
      PROVE  Conf!Server(<<"servers", s>>, servers[s], found) = <<>>
  <2>1. servers[s] \in Servers(doc)
    BY DEF Servers
  <2>2. Stages(doc, env)[6] = {}
    <3>1. PICK six \in 1 .. 8 : six = 6
      OBVIOUS
    <3> QED BY <1>2, <3>1
  <2>3. Sane(<<"servers", s>>, servers[s], env)
    <3>1. Conf!Server(<<"servers", s>>, servers[s], env) = <<>>
      BY <2>2, OnlyServersDiffer
    <3> QED BY <3>1, ServerSane
  <2>4. Named(servers[s]) \cap env \subseteq found
    <3> SUFFICES ASSUME NEW v \in Named(servers[s]), v \in env PROVE v \in found
      OBVIOUS
    <3>1. v \in DOMAIN Bare
      BY <1>1, <2>1, NamesAssumption
    <3>2. PICK w \in DOMAIN Bare : v = Bare[w]
      BY <1>1 DEF Names
    <3>3. Bare[v] = v
      BY <3>1, <3>2, StripAssumption
    <3>4. v \in UNION {Named(x) : x \in Servers(doc)}
      BY <2>1
    <3> QED BY <3>3, <3>4 DEF Extract
  <2> HIDE DEF servers, found
  <2>5. Sane(<<"servers", s>>, servers[s], found)
    BY <2>3, <2>4, SaneElsewhere
  <2> QED BY <2>5, ServerSane
<1>4. \A n \in 1 .. 8 : Stages(doc, found)[n] = {}
  <2>1. Stages(doc, found)[6] = {}
    BY <1>3, OnlyServersDiffer
  <2>2. \A n \in 1 .. 8 : n # 6 => Stages(doc, found)[n] = Stages(doc, env)[n]
    BY OnlyServersDiffer
  <2> QED BY <1>2, <2>1, <2>2
<1>5. Conf!Loads(doc, found)
  BY <1>4, LoadsWithout
<1>6. found \in SUBSET Names
  BY <1>1, ExtractNames
<1> QED BY <1>1, <1>5, <1>6 DEF Starts, Loading

\* No server of what is live is one that get_server_token has no answer for: its
\* ValueError is never raised.
THEOREM LiveUsable == Spec => []LiveServersUsable
<1>1. ASSUME IInv PROVE LiveServersUsable
  <2> SUFFICES ASSUME live # None, NEW s \in Servers(Draft[live.image])
               PROVE  Conf!AuthType(s) # "ValueError"
    BY DEF LiveServersUsable
  <2>1. Starts(live)
    BY <1>1 DEF IInv, LiveStarts
  <2>2. Conf!Loads(Draft[live.image], live.env)
    BY <2>1 DEF Starts, Loading
  <2> QED BY <2>2, LoadedServer, ServerUsable
<1> QED BY <1>1, Invariance, PTL
=============================================================================
