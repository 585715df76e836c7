----------------------------- MODULE DeployProofs -----------------------------
(***************************************************************************)
(* Proofs about Deploy, for any number of runs, services, commits and      *)
(* variables, and however often runs fail, are killed and are repeated.    *)
(* ServiceGrounded is not inductive: what a service will refer to is       *)
(* gathered by a run, step by step, so that the inductive invariant says   *)
(* of every place a run may be at what is already there (Gathered), and of *)
(* every service that its rollback has an image.                           *)
(***************************************************************************)
EXTENDS Deploy, TLAPS

BeforeRepo == Ended \cup {"secrets", "prompt"}
AfterPush == {"role", "newrole", "policy", "service", "deploy", "wait"}

\* A secret that is not to do any more exists, and so does one that was found.
SecretsGathered(d) ==
    /\ Active(d) => Var \ run[d].todo \subseteq DOMAIN secret
    /\ At(d, "prompt") /\ run[d].found => run[d].var \in DOMAIN secret
    /\ run[d].at \notin BeforeRepo => run[d].todo = {}

\* The first role is there when the second is looked for, both when the service is.
RolesGathered(d) ==
    /\ Active(d) /\ run[d].at \notin AfterPush => run[d].kind = "ecr"
    /\ At(d, "policy") => Role(d) \in role
    /\ run[d].at \in AfterPush /\ run[d].kind = "instance" => <<run[d].srv, "ecr">> \in role
    /\ run[d].at \in {"service", "deploy", "wait"} =>
          {<<run[d].srv, "ecr">>, <<run[d].srv, "instance">>} \subseteq role

\* What a run may rely on where it is.
Gathered(d) ==
    /\ Active(d) => run[d].srv \in Service /\ run[d].commit \in Commit
    /\ At(d, "prompt") => run[d].var \in Var
    /\ SecretsGathered(d)
    /\ run[d].at \in AfterPush => <<run[d].srv, run[d].commit>> \in image
    /\ RolesGathered(d)
    /\ At(d, "wait") => run[d].srv \in DOMAIN service

\* What a service can be rolled back to is pushed, too.
RollbackPushed ==
    \A s \in DOMAIN service :
        service[s].before # NoCommit => <<s, service[s].before>> \in image

\* The inductive invariant.
IInv == TypeOK /\ ServiceGrounded /\ RollbackPushed /\ \A d \in Run : Gathered(d)
-----------------------------------------------------------------------------
\* Nothing a run relies on is ever taken away.
Grows ==
    /\ DOMAIN secret \subseteq DOMAIN secret' /\ image \subseteq image'
    /\ role \subseteq role' /\ DOMAIN service \subseteq DOMAIN service'

\* A run that does not move keeps what it has gathered.
LEMMA GatheredKept ==
    ASSUME NEW e \in Run, Gathered(e), run'[e] = run[e], Grows
    PROVE  Gathered(e)'
  BY DEF Gathered, SecretsGathered, RolesGathered, Role, At, Active, Grows

\* Services stay grounded while none is changed.
LEMMA GroundedKept ==
    ASSUME ServiceGrounded, RollbackPushed, Grows, service' = service
    PROVE  ServiceGrounded' /\ RollbackPushed'
  BY DEF ServiceGrounded, RollbackPushed, Grows

\* So that it is enough to look at the run that moves.
LEMMA StepKeeps ==
    ASSUME IInv, NEW d \in Run, TypeOK', Grows, service' = service,
           \A e \in Run \ {d} : run'[e] = run[e], Gathered(d)'
    PROVE  IInv'
  BY GatheredKept, GroundedKept DEF IInv

\* Before the first run there is nothing to rely on.
LEMMA InitIInv == Init => IInv
  BY DeployAssumption DEF Init, IInv, TypeOK, RunRecord, Place, Ended, ServiceGrounded, RollbackPushed,
     Gathered, SecretsGathered, RolesGathered, At, Active, BeforeRepo, AfterPush, NoBox
-----------------------------------------------------------------------------
\* What a run looks like after it moves, if it moves in one of the usual ways.
Moved(d) == run'[d] \in RunRecord /\ run' = [run EXCEPT ![d] = run'[d]]

\* Going to a place changes nothing else.
LEMMA GotoMoves ==
    ASSUME run \in [Run -> RunRecord], NEW d \in Run, NEW place \in Place, Goto(d, place)
    PROVE  /\ Moved(d)
           /\ run'[d].at = place
           /\ run'[d].srv = run[d].srv
           /\ run'[d].commit = run[d].commit
           /\ run'[d].todo = run[d].todo
           /\ run'[d].var = run[d].var
           /\ run'[d].found = run[d].found
           /\ run'[d].kind = run[d].kind
  BY DEF Goto, RunRecord, Moved

\* A secret that has been dealt with is not to do any more.
LEMMA NextSecretMoves ==
    ASSUME run \in [Run -> RunRecord], NEW d \in Run, NextSecret(d)
    PROVE  /\ Moved(d)
           /\ run'[d].at = "secrets"
           /\ run'[d].srv = run[d].srv
           /\ run'[d].commit = run[d].commit
           /\ run'[d].todo = run[d].todo \ {run[d].var}
           /\ run'[d].var = NoVar
           /\ run'[d].found = FALSE
           /\ run'[d].kind = run[d].kind
<1>1. run'[d] = [run[d] EXCEPT !.at = "secrets", !.todo = @ \ {run[d].var},
                                !.var = NoVar, !.found = FALSE]
  BY DEF NextSecret
<1>2. "secrets" \in Place /\ run[d].todo \ {run[d].var} \in SUBSET Var
  BY DEF Place, RunRecord
<1>3. run'[d] \in RunRecord
  BY <1>1, <1>2 DEF RunRecord
<1>4. run' = [run EXCEPT ![d] = run'[d]]
  BY DEF NextSecret
<1>5. run[d] \in RunRecord
  OBVIOUS
<1> QED
  BY <1>1, <1>3, <1>4, <1>5 DEF RunRecord, Moved

\* After the ECR access role comes the instance role, then the service.
LEMMA NextRoleMoves ==
    ASSUME run \in [Run -> RunRecord], NEW d \in Run, NextRole(d)
    PROVE  /\ Moved(d)
           /\ run'[d].at = IF run[d].kind = "ecr" THEN "role" ELSE "service"
           /\ run'[d].srv = run[d].srv
           /\ run'[d].commit = run[d].commit
           /\ run'[d].todo = run[d].todo
           /\ run'[d].var = run[d].var
           /\ run'[d].found = run[d].found
           /\ run'[d].kind = "instance"
<1>1. PICK place \in Place : place = IF run[d].kind = "ecr" THEN "role" ELSE "service"
  BY DEF Place
<1>2. run' = [run EXCEPT ![d].at = place, ![d].kind = "instance"]
  BY <1>1 DEF NextRole
<1>3. run'[d] = [run[d] EXCEPT !.at = place, !.kind = "instance"]
  BY <1>2
<1>4. Moved(d)
  <2>1. run'[d] \in RunRecord
    BY <1>3 DEF RunRecord
  <2>2. run' = [run EXCEPT ![d] = run'[d]]
    BY <1>2
  <2> QED
    BY <2>1, <2>2 DEF Moved
<1>5. run[d] \in RunRecord
  OBVIOUS
<1> QED
  BY <1>1, <1>3, <1>4, <1>5 DEF RunRecord

\* An action that leaves AWS alone keeps the invariant if the run it moves has
\* gathered what its new place asks for.
LEMMA LocalStep ==
    ASSUME IInv, NEW d \in Run, Moved(d), UNCHANGED aws, UNCHANGED <<starts, kills>>,
           reqs' \subseteq Commit, box' \in Commit \cup {NoBox},
           slips' \in 0 .. MaxSlips, Gathered(d)'
    PROVE  IInv'
<1>1. TypeOK'
  BY DEF IInv, TypeOK, aws, Moved
<1>2. Grows /\ service' = service
  BY DEF Grows, aws
<1>3. \A e \in Run \ {d} : run'[e] = run[e]
  BY DEF IInv, TypeOK, Moved
<1> QED
  BY <1>1, <1>2, <1>3, StepKeeps
-----------------------------------------------------------------------------
\* Secrets that are kept, and on to the repository and into the build.
LEMMA LookSteps ==
    ASSUME IInv, NEW d \in Run,
           KeepSecret(d) \/ SecretsDone(d) \/ DescribeRepo(d)
    PROVE  IInv'
<1>0. TypeOK /\ Gathered(d) /\ run \in [Run -> RunRecord]
  BY DEF IInv, TypeOK
<1>1. CASE KeepSecret(d)
  <2>1. NextSecret(d)
    BY <1>1 DEF KeepSecret
  <2>2. Moved(d) /\ UNCHANGED aws /\ UNCHANGED <<starts, kills>>
    BY <1>0, <1>1, <2>1, NextSecretMoves DEF KeepSecret, aws
  <2>3. Gathered(d)'
    BY <1>0, <1>1, <2>1, NextSecretMoves
    DEF KeepSecret, aws, Gathered, SecretsGathered, RolesGathered, At, Active,
        Ended, BeforeRepo, AfterPush
  <2>4. reqs' \subseteq Commit /\ box' \in Commit \cup {NoBox} /\ slips' \in 0 .. MaxSlips
    BY <1>0, <1>1 DEF KeepSecret, TypeOK, Gathered, At, Active, Ended
  <2> QED
    BY <2>2, <2>3, <2>4, LocalStep DEF aws
<1>2. CASE SecretsDone(d)
  <2>1. Goto(d, "repo") /\ "repo" \in Place
    BY <1>2 DEF SecretsDone, Place
  <2>2. Moved(d) /\ UNCHANGED aws /\ UNCHANGED <<starts, kills>>
    BY <1>0, <1>2, <2>1, GotoMoves DEF SecretsDone, aws
  <2>3. Gathered(d)'
    BY <1>0, <1>2, <2>1, GotoMoves
    DEF SecretsDone, aws, Gathered, SecretsGathered, RolesGathered, At, Active,
        Ended, BeforeRepo, AfterPush
  <2>4. reqs' \subseteq Commit /\ box' \in Commit \cup {NoBox} /\ slips' \in 0 .. MaxSlips
    BY <1>0, <1>2 DEF SecretsDone, TypeOK, Gathered, At, Active, Ended
  <2> QED
    BY <2>2, <2>3, <2>4, LocalStep DEF aws
<1>3. CASE DescribeRepo(d)
  <2>1. PICK place \in {"export", "newrepo"} : Goto(d, place)
    BY <1>3 DEF DescribeRepo
  <2>2. place \in Place
    BY <2>1 DEF Place, Building
  <2>3. Moved(d) /\ UNCHANGED aws /\ UNCHANGED <<starts, kills>>
    BY <1>0, <1>3, <2>1, <2>2, GotoMoves DEF DescribeRepo, aws
  <2>4. Gathered(d)'
    BY <1>0, <1>3, <2>1, <2>2, GotoMoves
    DEF DescribeRepo, aws, Gathered, SecretsGathered, RolesGathered, At, Active,
        Ended, BeforeRepo, AfterPush
  <2>5. reqs' \subseteq Commit /\ box' \in Commit \cup {NoBox} /\ slips' \in 0 .. MaxSlips
    BY <1>0, <1>3 DEF DescribeRepo, TypeOK, Gathered, At, Active, Ended
  <2> QED
    BY <2>3, <2>4, <2>5, LocalStep DEF aws
<1> QED
  BY <1>1, <1>2, <1>3

\* The build touches the generated file of its checkout only.
LEMMA BuildSteps ==
    ASSUME IInv, NEW d \in Run,
           Export(d) \/ Build(d) \/ Tag(d)
    PROVE  IInv'
<1>0. TypeOK /\ Gathered(d) /\ run \in [Run -> RunRecord]
  BY DEF IInv, TypeOK
<1>1. CASE Export(d)
  <2>1. Goto(d, "build") /\ "build" \in Place
    BY <1>1 DEF Export, Place, Building
  <2>2. Moved(d) /\ UNCHANGED aws /\ UNCHANGED <<starts, kills>>
    BY <1>0, <1>1, <2>1, GotoMoves DEF Export, aws
  <2>3. Gathered(d)'
    BY <1>0, <1>1, <2>1, GotoMoves
    DEF Export, aws, Gathered, SecretsGathered, RolesGathered, At, Active,
        Ended, BeforeRepo, AfterPush
  <2>4. reqs' \subseteq Commit /\ box' \in Commit \cup {NoBox} /\ slips' \in 0 .. MaxSlips
    BY <1>0, <1>1 DEF Export, TypeOK, Gathered, At, Active, Ended
  <2> QED
    BY <2>2, <2>3, <2>4, LocalStep DEF aws
<1>2. CASE Build(d)
  <2>1. Goto(d, "tag") /\ "tag" \in Place
    BY <1>2 DEF Build, Place, Building
  <2>2. Moved(d) /\ UNCHANGED aws /\ UNCHANGED <<starts, kills>>
    BY <1>0, <1>2, <2>1, GotoMoves DEF Build, aws
  <2>3. Gathered(d)'
    BY <1>0, <1>2, <2>1, GotoMoves
    DEF Build, aws, Gathered, SecretsGathered, RolesGathered, At, Active,
        Ended, BeforeRepo, AfterPush
  <2>4. reqs' \subseteq Commit /\ box' \in Commit \cup {NoBox} /\ slips' \in 0 .. MaxSlips
    BY <1>0, <1>2 DEF Build, TypeOK, Gathered, At, Active, Ended
  <2> QED
    BY <2>2, <2>3, <2>4, LocalStep DEF aws
<1>3. CASE Tag(d)
  <2>1. Goto(d, "remove") /\ "remove" \in Place
    BY <1>3 DEF Tag, Place, Testing
  <2>2. Moved(d) /\ UNCHANGED aws /\ UNCHANGED <<starts, kills>>
    BY <1>0, <1>3, <2>1, GotoMoves DEF Tag, aws
  <2>3. Gathered(d)'
    BY <1>0, <1>3, <2>1, GotoMoves
    DEF Tag, aws, Gathered, SecretsGathered, RolesGathered, At, Active,
        Ended, BeforeRepo, AfterPush
  <2>4. reqs' \subseteq Commit /\ box' \in Commit \cup {NoBox} /\ slips' \in 0 .. MaxSlips
    BY <1>0, <1>3 DEF Tag, TypeOK, Gathered, At, Active, Ended
  <2> QED
    BY <2>2, <2>3, <2>4, LocalStep DEF aws
<1> QED
  BY <1>1, <1>2, <1>3

\* The test touches the test container only.
LEMMA TestSteps ==
    ASSUME IInv, NEW d \in Run,
           RemoveOld(d) \/ StartBox(d) \/ Healthy(d) \/ StopBox(d)
    PROVE  IInv'
<1>0. TypeOK /\ Gathered(d) /\ run \in [Run -> RunRecord]
  BY DEF IInv, TypeOK
<1>1. CASE RemoveOld(d)
  <2>1. Goto(d, "start") /\ "start" \in Place
    BY <1>1 DEF RemoveOld, Place, Testing
  <2>2. Moved(d) /\ UNCHANGED aws /\ UNCHANGED <<starts, kills>>
    BY <1>0, <1>1, <2>1, GotoMoves DEF RemoveOld, aws
  <2>3. Gathered(d)'
    BY <1>0, <1>1, <2>1, GotoMoves
    DEF RemoveOld, aws, Gathered, SecretsGathered, RolesGathered, At, Active,
        Ended, BeforeRepo, AfterPush
  <2>4. reqs' \subseteq Commit /\ box' \in Commit \cup {NoBox} /\ slips' \in 0 .. MaxSlips
    BY <1>0, <1>1, DeployAssumption DEF RemoveOld, RemoveBox, TypeOK, Gathered, At, Active, Ended
  <2> QED
    BY <2>2, <2>3, <2>4, LocalStep DEF aws
<1>2. CASE StartBox(d)
  <2>1. Goto(d, "health") /\ "health" \in Place
    BY <1>2 DEF StartBox, Place, Testing
  <2>2. Moved(d) /\ UNCHANGED aws /\ UNCHANGED <<starts, kills>>
    BY <1>0, <1>2, <2>1, GotoMoves DEF StartBox, aws
  <2>3. Gathered(d)'
    BY <1>0, <1>2, <2>1, GotoMoves
    DEF StartBox, aws, Gathered, SecretsGathered, RolesGathered, At, Active,
        Ended, BeforeRepo, AfterPush
  <2>4. reqs' \subseteq Commit /\ box' \in Commit \cup {NoBox} /\ slips' \in 0 .. MaxSlips
    BY <1>0, <1>2 DEF StartBox, TypeOK, Gathered, At, Active, Ended
  <2> QED
    BY <2>2, <2>3, <2>4, LocalStep DEF aws
<1>3. CASE Healthy(d)
  <2>1. Goto(d, "stop") /\ "stop" \in Place
    BY <1>3 DEF Healthy, Place, Testing
  <2>2. Moved(d) /\ UNCHANGED aws /\ UNCHANGED <<starts, kills>>
    BY <1>0, <1>3, <2>1, GotoMoves DEF Healthy, aws
  <2>3. Gathered(d)'
    BY <1>0, <1>3, <2>1, GotoMoves
    DEF Healthy, aws, Gathered, SecretsGathered, RolesGathered, At, Active,
        Ended, BeforeRepo, AfterPush
  <2>4. reqs' \subseteq Commit /\ box' \in Commit \cup {NoBox} /\ slips' \in 0 .. MaxSlips
    BY <1>0, <1>3 DEF Healthy, TypeOK, Gathered, At, Active, Ended
  <2> QED
    BY <2>2, <2>3, <2>4, LocalStep DEF aws
<1>4. CASE StopBox(d)
  <2>1. Goto(d, "push") /\ "push" \in Place
    BY <1>4 DEF StopBox, Place
  <2>2. Moved(d) /\ UNCHANGED aws /\ UNCHANGED <<starts, kills>>
    BY <1>0, <1>4, <2>1, GotoMoves DEF StopBox, aws
  <2>3. Gathered(d)'
    BY <1>0, <1>4, <2>1, GotoMoves
    DEF StopBox, aws, Gathered, SecretsGathered, RolesGathered, At, Active,
        Ended, BeforeRepo, AfterPush
  <2>4. reqs' \subseteq Commit /\ box' \in Commit \cup {NoBox} /\ slips' \in 0 .. MaxSlips
    BY <1>0, <1>4, DeployAssumption DEF StopBox, RemoveBox, TypeOK, Gathered, At, Active, Ended
  <2> QED
    BY <2>2, <2>3, <2>4, LocalStep DEF aws
<1> QED
  BY <1>1, <1>2, <1>3, <1>4

\* A run that fails cleans up here, or does not, and one that ends well leaves AWS as it is.
LEMMA EndSteps ==
    ASSUME IInv, NEW d \in Run,
           Fail(d) \/ Poll(d)
    PROVE  IInv'
<1>0. TypeOK /\ Gathered(d) /\ run \in [Run -> RunRecord]
  BY DEF IInv, TypeOK
<1>1. CASE Fail(d)
  <2>1. Goto(d, "failed") /\ "failed" \in Place
    BY <1>1 DEF Fail, Place, Ended
  <2>2. Moved(d) /\ UNCHANGED aws /\ UNCHANGED <<starts, kills>>
    BY <1>0, <1>1, <2>1, GotoMoves DEF Fail, aws
  <2>3. Gathered(d)'
    BY <1>0, <1>1, <2>1, GotoMoves
    DEF Fail, aws, Gathered, SecretsGathered, RolesGathered, At, Active,
        Ended, BeforeRepo, AfterPush
  <2>4. reqs' \subseteq Commit /\ box' \in Commit \cup {NoBox} /\ slips' \in 0 .. MaxSlips
    BY <1>0, <1>1, DeployAssumption
    DEF Fail, RemoveBox, RemoveFile, TypeOK, Gathered, At, Active, Ended
  <2> QED
    BY <2>2, <2>3, <2>4, LocalStep DEF aws
<1>2. CASE Poll(d)
  <2>1. Goto(d, "done") /\ "done" \in Place
    BY <1>2 DEF Poll, Place, Ended
  <2>2. Moved(d) /\ UNCHANGED aws /\ UNCHANGED <<starts, kills>>
    BY <1>0, <1>2, <2>1, GotoMoves DEF Poll, aws
  <2>3. Gathered(d)'
    BY <1>0, <1>2, <2>1, GotoMoves
    DEF Poll, aws, Gathered, SecretsGathered, RolesGathered, At, Active,
        Ended, BeforeRepo, AfterPush
  <2>4. reqs' \subseteq Commit /\ box' \in Commit \cup {NoBox} /\ slips' \in 0 .. MaxSlips
    BY <1>0, <1>2 DEF Poll, TypeOK, Gathered, At, Active, Ended
  <2> QED
    BY <2>2, <2>3, <2>4, LocalStep DEF aws
<1> QED
  BY <1>1, <1>2

\* A run that is killed has gathered nothing it could still use.
LEMMA KillStep ==
    ASSUME IInv, NEW d \in Run, Kill(d)
    PROVE  IInv'
<1>0. TypeOK /\ run \in [Run -> RunRecord] /\ Goto(d, "failed") /\ "failed" \in Place
  BY DEF IInv, TypeOK, Kill, Place, Ended
<1>1. run'[d].at = "failed" /\ Moved(d)
  BY <1>0, GotoMoves
<1>2. TypeOK'
  BY <1>0, <1>1, DeployAssumption DEF TypeOK, Kill, aws, Moved
<1>3. Grows /\ service' = service
  BY DEF Grows, Kill, aws
<1>4. \A e \in Run \ {d} : run'[e] = run[e]
  BY <1>0 DEF Goto
<1>5. Gathered(d)'
  BY <1>1 DEF Gathered, SecretsGathered, RolesGathered, At, Active, Ended, BeforeRepo,
              AfterPush
<1> QED
  BY <1>2, <1>3, <1>4, <1>5, StepKeeps

\* A run that starts has everything to do.
LEMMA StartStep ==
    ASSUME IInv, NEW d \in Run, NEW sv \in Service, NEW c \in Commit, Start(d, sv, c)
    PROVE  IInv'
<1> DEFINE r == [at |-> "secrets", srv |-> sv, commit |-> c, todo |-> Var,
                 var |-> NoVar, found |-> FALSE, kind |-> "ecr"]
<1>0. TypeOK /\ run \in [Run -> RunRecord]
  BY DEF IInv, TypeOK
<1>1. r \in RunRecord /\ run' = [run EXCEPT ![d] = r]
  BY DEF RunRecord, Place, Start
<1>2. TypeOK'
  BY <1>0, <1>1, DeployAssumption DEF TypeOK, Start, aws
<1>3. Grows /\ service' = service
  BY DEF Grows, Start, aws
<1>4. \A e \in Run \ {d} : run'[e] = run[e]
  BY <1>0, <1>1
<1>5. run'[d] = r
  BY <1>0, <1>1
<1>6. Gathered(d)'
  BY <1>5 DEF Gathered, SecretsGathered, RolesGathered, At, Active, Ended, BeforeRepo,
              AfterPush
<1> QED
  BY <1>2, <1>3, <1>4, <1>6, StepKeeps

\* describe_secret finds a secret that exists.
LEMMA DescribeSecretStep ==
    ASSUME IInv, NEW d \in Run, NEW v \in Var, DescribeSecret(d, v)
    PROVE  IInv'
<1> DEFINE r == [run[d] EXCEPT !.at = "prompt", !.var = v, !.found = v \in DOMAIN secret]
<1>0. TypeOK /\ Gathered(d) /\ run \in [Run -> RunRecord]
  BY DEF IInv, TypeOK
<1>1. run' = [run EXCEPT ![d] = r]
  BY <1>0 DEF DescribeSecret
<1>2. run[d] \in RunRecord /\ run'[d] = r
  BY <1>0, <1>1
<1>3. /\ run'[d].at = "prompt" /\ run'[d].var = v /\ (run'[d].found <=> v \in DOMAIN secret)
      /\ run'[d].srv = run[d].srv /\ run'[d].commit = run[d].commit
      /\ run'[d].todo = run[d].todo /\ run'[d].kind = run[d].kind
  BY <1>2 DEF RunRecord
<1>4. Moved(d)
  <2>1. "prompt" \in Place /\ (v \in DOMAIN secret) \in BOOLEAN
    BY DEF Place
  <2>2. r \in RunRecord
    BY <1>2, <2>1 DEF RunRecord
  <2> QED
    BY <1>1, <1>2, <2>2 DEF Moved
<1>5. UNCHANGED <<reqs, box, aws, starts, kills, slips>> /\ At(d, "secrets")
  BY DEF DescribeSecret
<1>6. Gathered(d)'
  BY <1>0, <1>3, <1>5 DEF Gathered, SecretsGathered, RolesGathered, At, Active, Ended,
     BeforeRepo, AfterPush, aws
<1>7. reqs' \subseteq Commit /\ box' \in Commit \cup {NoBox} /\ slips' \in 0 .. MaxSlips
  BY <1>0, <1>5 DEF TypeOK
<1> QED
  BY <1>4, <1>5, <1>6, <1>7, LocalStep DEF aws

\* EnterSecret stores the secret it is about.
LEMMA EnterSecretStep ==
    ASSUME IInv, NEW d \in Run, EnterSecret(d)
    PROVE  IInv'
<1>0. /\ TypeOK /\ Gathered(d) /\ run \in [Run -> RunRecord] /\ NextSecret(d)
      /\ run[d].var \in Var /\ run[d].srv \in Service
  BY DEF IInv, TypeOK, EnterSecret, Gathered, At, Active, Ended
<1>1. /\ DOMAIN secret' = DOMAIN secret \cup {run[d].var}
      /\ DOMAIN secret' \subseteq Var /\ secret' \in [DOMAIN secret' -> Service]
  <2>1. DOMAIN secret \subseteq Var /\ secret \in [DOMAIN secret -> Service]
    BY <1>0 DEF TypeOK
  <2> DEFINE new == Put(secret, run[d].var, run[d].srv)
  <2>2. DOMAIN new = DOMAIN secret \cup {run[d].var} /\ new \in [DOMAIN new -> Service]
    BY <1>0, <2>1 DEF Put
  <2>3. secret' = new
    BY DEF EnterSecret
  <2> HIDE DEF new
  <2> QED
    BY <1>0, <2>1, <2>2, <2>3
<1>2. Moved(d) /\ run' \in [Run -> RunRecord]
  BY <1>0, NextSecretMoves DEF Moved
<1>3. TypeOK'
  BY <1>0, <1>1, <1>2 DEF TypeOK, EnterSecret
<1>4. Grows /\ service' = service
  BY <1>1 DEF Grows, EnterSecret
<1>5. Gathered(d)'
  BY <1>0, <1>1, NextSecretMoves DEF EnterSecret, Gathered, SecretsGathered,
     RolesGathered, At, Active, Ended, BeforeRepo, AfterPush
<1> QED
  BY <1>0, <1>2, <1>3, <1>4, <1>5, StepKeeps DEF Moved

\* A new repository: nothing else changes.
LEMMA CreateRepoStep ==
    ASSUME IInv, NEW d \in Run, CreateRepo(d)
    PROVE  IInv'
<1>0. /\ TypeOK /\ Gathered(d) /\ run \in [Run -> RunRecord] /\ run[d].srv \in Service
      /\ Goto(d, "export") /\ "export" \in Place
  BY DEF IInv, TypeOK, CreateRepo, Gathered, At, Active, Ended, Place, Building
<1>1. Moved(d) /\ run' \in [Run -> RunRecord]
  BY <1>0, GotoMoves DEF Moved
<1>2. TypeOK'
  BY <1>0, <1>1 DEF TypeOK, CreateRepo
<1>3. Grows /\ service' = service
  BY DEF Grows, CreateRepo
<1>4. Gathered(d)'
  BY <1>0, GotoMoves DEF CreateRepo, Gathered, SecretsGathered, RolesGathered, At,
     Active, Ended, BeforeRepo, AfterPush
<1> QED
  BY <1>0, <1>1, <1>2, <1>3, <1>4, StepKeeps DEF Moved

\* The push makes the image available that the service will be given.
LEMMA PushStep ==
    ASSUME IInv, NEW d \in Run, Push(d)
    PROVE  IInv'
<1>0. /\ TypeOK /\ Gathered(d) /\ run \in [Run -> RunRecord]
      /\ run[d].srv \in Service /\ run[d].commit \in Commit
      /\ Goto(d, "role") /\ "role" \in Place
  BY DEF IInv, TypeOK, Push, Gathered, At, Active, Ended, Place
<1>1. Moved(d) /\ run' \in [Run -> RunRecord]
  BY <1>0, GotoMoves DEF Moved
<1>2. TypeOK'
  BY <1>0, <1>1 DEF TypeOK, Push
<1>3. Grows /\ service' = service
  BY DEF Grows, Push
<1>4. Gathered(d)'
  BY <1>0, GotoMoves DEF Push, Gathered, SecretsGathered, RolesGathered, At,
     Active, Ended, BeforeRepo, AfterPush
<1> QED
  BY <1>0, <1>1, <1>2, <1>3, <1>4, StepKeeps DEF Moved
-----------------------------------------------------------------------------
\* Going on from a role that exists.
LEMMA NextRoleGathers ==
    ASSUME TypeOK, NEW d \in Run, Gathered(d), Grows, service' = service,
           run[d].at \in {"role", "policy"}, Role(d) \in role, NextRole(d)
    PROVE  Gathered(d)' /\ Moved(d)
<1>1. run \in [Run -> RunRecord] /\ run[d].kind \in {"ecr", "instance"}
  BY DEF TypeOK, RunRecord
<1>2. CASE run[d].kind = "ecr"
  BY <1>1, <1>2, NextRoleMoves DEF Grows, Gathered, SecretsGathered, RolesGathered,
     At, Active, Role, Ended, BeforeRepo, AfterPush
<1>3. CASE run[d].kind = "instance"
  BY <1>1, <1>3, NextRoleMoves DEF Grows, Gathered, SecretsGathered, RolesGathered,
     At, Active, Role, Ended, BeforeRepo, AfterPush
<1> QED
  BY <1>1, <1>2, <1>3

\* A role that is found is used, one that is not is to be created.
LEMMA GetRoleStep ==
    ASSUME IInv, NEW d \in Run, GetRole(d)
    PROVE  IInv'
<1>0. /\ TypeOK /\ Gathered(d) /\ run \in [Run -> RunRecord]
      /\ UNCHANGED <<reqs, box, aws, starts, kills, slips>> /\ At(d, "role")
  BY DEF IInv, TypeOK, GetRole
<1>1. Gathered(d)' /\ Moved(d)
  <2>1. CASE Role(d) \in role
    <3>1. NextRole(d)
      BY <2>1 DEF GetRole
    <3>2. Grows /\ service' = service /\ run[d].at \in {"role", "policy"}
      BY <1>0 DEF Grows, aws, At
    <3> QED
      BY <1>0, <2>1, <3>1, <3>2, NextRoleGathers
  <2>2. CASE Role(d) \notin role
    <3>1. Goto(d, "newrole") /\ "newrole" \in Place
      BY <2>2 DEF GetRole, Place
    <3> QED
      BY <1>0, <3>1, GotoMoves DEF aws, Gathered, SecretsGathered, RolesGathered, At,
         Active, Ended, BeforeRepo, AfterPush
  <2> QED
    BY <2>1, <2>2
<1>2. reqs' \subseteq Commit /\ box' \in Commit \cup {NoBox} /\ slips' \in 0 .. MaxSlips
  BY <1>0 DEF TypeOK
<1> QED
  BY <1>0, <1>1, <1>2, LocalStep DEF aws

\* A new role: its policy comes next.
LEMMA CreateRoleStep ==
    ASSUME IInv, NEW d \in Run, CreateRole(d)
    PROVE  IInv'
<1>0. /\ TypeOK /\ Gathered(d) /\ run \in [Run -> RunRecord]
      /\ run[d].srv \in Service /\ run[d].kind \in {"ecr", "instance"}
      /\ Goto(d, "policy") /\ "policy" \in Place
  BY DEF IInv, TypeOK, RunRecord, CreateRole, Gathered, At, Active, Ended, Place
<1>1. Moved(d) /\ run' \in [Run -> RunRecord]
  BY <1>0, GotoMoves DEF Moved
<1>2. TypeOK'
  BY <1>0, <1>1 DEF TypeOK, CreateRole, Role
<1>3. Grows /\ service' = service
  BY DEF Grows, CreateRole
<1>4. Gathered(d)'
  BY <1>0, GotoMoves DEF CreateRole, Role, Gathered, SecretsGathered, RolesGathered, At,
     Active, Ended, BeforeRepo, AfterPush
<1> QED
  BY <1>0, <1>1, <1>2, <1>3, <1>4, StepKeeps DEF Moved

\* The policy goes to a role that exists.
LEMMA AttachPolicyStep ==
    ASSUME IInv, NEW d \in Run, AttachPolicy(d)
    PROVE  IInv'
<1>0. /\ TypeOK /\ Gathered(d) /\ run \in [Run -> RunRecord]
      /\ NextRole(d) /\ At(d, "policy") /\ Role(d) \in role
  BY DEF IInv, TypeOK, AttachPolicy, Gathered, RolesGathered
<1>1. Grows /\ service' = service
  BY DEF Grows, AttachPolicy
<1>2. Gathered(d)' /\ Moved(d)
  BY <1>0, <1>1, NextRoleGathers DEF At
<1>3. TypeOK'
  BY <1>0, <1>2 DEF TypeOK, AttachPolicy, Moved
<1> QED
  BY <1>0, <1>1, <1>2, <1>3, StepKeeps DEF Moved
-----------------------------------------------------------------------------
\* Listing the services.
LEMMA ListServicesStep ==
    ASSUME IInv, NEW d \in Run, ListServices(d)
    PROVE  IInv'
<1> DEFINE r == [run[d] EXCEPT !.at = "deploy", !.found = run[d].srv \in DOMAIN service]
<1>0. TypeOK /\ Gathered(d) /\ run \in [Run -> RunRecord]
  BY DEF IInv, TypeOK
<1>1. run' = [run EXCEPT ![d] = r]
  BY <1>0 DEF ListServices
<1>2. run[d] \in RunRecord /\ run'[d] = r
  BY <1>0, <1>1
<1>3. /\ run'[d].at = "deploy" /\ run'[d].srv = run[d].srv
      /\ run'[d].commit = run[d].commit /\ run'[d].todo = run[d].todo
      /\ run'[d].kind = run[d].kind
  BY <1>2 DEF RunRecord
<1>4. Moved(d)
  <2>1. "deploy" \in Place /\ (run[d].srv \in DOMAIN service) \in BOOLEAN
    BY DEF Place
  <2>2. r \in RunRecord
    BY <1>2, <2>1 DEF RunRecord
  <2> QED
    BY <1>1, <1>2, <2>2 DEF Moved
<1>5. UNCHANGED <<reqs, box, aws, starts, kills, slips>> /\ At(d, "service")
  BY DEF ListServices
<1>6. Gathered(d)'
  BY <1>0, <1>3, <1>5 DEF Gathered, SecretsGathered, RolesGathered, At, Active, Ended,
     BeforeRepo, AfterPush, aws
<1>7. reqs' \subseteq Commit /\ box' \in Commit \cup {NoBox} /\ slips' \in 0 .. MaxSlips
  BY <1>0, <1>5 DEF TypeOK
<1> QED
  BY <1>4, <1>5, <1>6, <1>7, LocalStep DEF aws

\* Where it all comes together: a service is created or updated by a run that has
\* gathered its image, its secrets and its roles.
LEMMA DeployServiceStep ==
    ASSUME IInv, NEW d \in Run, DeployService(d)
    PROVE  IInv'
<1> DEFINE sv == run[d].srv
           new == [commit |-> run[d].commit, secrets |-> Var,
                   before |-> Running(sv), by |-> d, status |-> InProgress]
<1>0. /\ TypeOK /\ Gathered(d) /\ run \in [Run -> RunRecord]
      /\ sv \in Service /\ run[d].commit \in Commit /\ run[d].found \in BOOLEAN
      /\ Goto(d, "wait") /\ "wait" \in Place /\ At(d, "deploy")
  BY DEF IInv, TypeOK, RunRecord, DeployService, Gathered, At, Active, Ended, Place
<1>1. /\ new \in ServiceRecord /\ new.commit = run[d].commit /\ new.secrets = Var
      /\ new.before = Running(sv)
  <2>1. PICK before \in Commit \cup {NoCommit} : before = Running(sv)
    BY <1>0 DEF Running, TypeOK, ServiceRecord
  <2> QED
    BY <1>0, <2>1 DEF ServiceRecord
<1>2. /\ DOMAIN service' = DOMAIN service \cup {sv}
      /\ DOMAIN service' \subseteq Service
      /\ service' \in [DOMAIN service' -> ServiceRecord]
      /\ service'[sv] = new
      /\ \A t \in DOMAIN service : t # sv => service'[t] = service[t]
  <2>1. DOMAIN service \subseteq Service /\ service \in [DOMAIN service -> ServiceRecord]
    BY <1>0 DEF TypeOK
  <2> HIDE DEF new, sv
  <2> DEFINE put == Put(service, sv, new)
  <2>2. /\ DOMAIN put = DOMAIN service \cup {sv} /\ put \in [DOMAIN put -> ServiceRecord]
        /\ put[sv] = new /\ \A t \in DOMAIN service : t # sv => put[t] = service[t]
    BY <1>0, <1>1, <2>1 DEF Put
  <2>3. service' = put
    BY DEF DeployService, new, sv
  <2> HIDE DEF put
  <2> QED
    BY <1>0, <2>1, <2>2, <2>3
<1>3. Moved(d) /\ run' \in [Run -> RunRecord]
  BY <1>0, GotoMoves DEF Moved
<1>4. TypeOK'
  BY <1>0, <1>2, <1>3 DEF TypeOK, DeployService
<1>5. Grows
  BY <1>2 DEF Grows, DeployService
<1>6. /\ <<sv, run[d].commit>> \in image' /\ Var \subseteq DOMAIN secret'
      /\ {<<sv, "ecr">>, <<sv, "instance">>} \subseteq role'
  BY <1>0 DEF DeployService, Gathered, SecretsGathered, RolesGathered, At, Active, Ended,
     BeforeRepo, AfterPush
<1>7. ServiceGrounded'
  <2> SUFFICES ASSUME NEW t \in DOMAIN service'
               PROVE  /\ <<t, service'[t].commit>> \in image'
                      /\ service'[t].secrets \subseteq DOMAIN secret'
                      /\ {<<t, "ecr">>, <<t, "instance">>} \subseteq role'
    BY DEF ServiceGrounded
  <2>1. CASE t = sv
    BY <1>2, <1>6, <2>1
  <2>2. CASE t # sv
    BY <1>2, <1>5, <2>2 DEF IInv, ServiceGrounded, Grows
  <2> QED
    BY <2>1, <2>2
<1>10. RollbackPushed'
  <2> SUFFICES ASSUME NEW t \in DOMAIN service', service'[t].before # NoCommit
               PROVE  <<t, service'[t].before>> \in image'
    BY DEF RollbackPushed
  <2>1. CASE t = sv
    <3>1. sv \in DOMAIN service /\ Running(sv) = service[sv].commit
      BY <1>1, <1>2, <2>1 DEF Running
    <3> QED
      BY <1>1, <1>2, <1>5, <2>1, <3>1 DEF IInv, ServiceGrounded, Grows
  <2>2. CASE t # sv
    BY <1>2, <1>5, <2>2 DEF IInv, RollbackPushed, Grows
  <2> QED
    BY <2>1, <2>2
<1>8. Gathered(d)'
  BY <1>0, <1>2, GotoMoves DEF DeployService, Gathered, SecretsGathered, RolesGathered,
     At, Active, Ended, BeforeRepo, AfterPush
<1>9. ASSUME NEW e \in Run PROVE Gathered(e)'
  <2>1. CASE e # d
    BY <1>0, <1>3, <1>5, <2>1, GatheredKept DEF Moved, IInv
  <2> QED
    BY <1>8, <2>1
<1> QED
  BY <1>4, <1>7, <1>9, <1>10 DEF IInv

\* The end of an operation changes a service's status, or takes it back to what it
\* ran before.
LEMMA EndOperationStep ==
    ASSUME IInv, NEW sv \in Service, EndOperation(sv)
    PROVE  IInv'
<1>0. /\ TypeOK /\ sv \in DOMAIN service
      /\ UNCHANGED <<run, reqs, box, secret, repo, image, role, allowed, starts, kills, slips>>
  BY DEF IInv, EndOperation
<1>1. PICK status \in {"RUNNING", "CREATE_FAILED"},
           commit \in {service[sv].commit} \cup ({service[sv].before} \ {NoCommit}) :
          service' = [service EXCEPT ![sv] =
                         [service[sv] EXCEPT !.status = status, !.commit = commit]]
  <2>1. service[sv] \in ServiceRecord
    BY <1>0 DEF TypeOK
  <2> DEFINE Becomes(status, commit) ==
                 service' = [service EXCEPT ![sv] =
                                [service[sv] EXCEPT !.status = status, !.commit = commit]]
  <2>2. ASSUME NEW status, service' = [service EXCEPT ![sv].status = status]
        PROVE  Becomes(status, service[sv].commit)
    <3>1. [service[sv] EXCEPT !.status = status]
             = [service[sv] EXCEPT !.status = status, !.commit = service[sv].commit]
      BY <2>1 DEF ServiceRecord
    <3> QED
      BY <2>2, <3>1
  <2>4. \/ \E status \in {"RUNNING", "CREATE_FAILED"} :
              service' = [service EXCEPT ![sv].status = status]
        \/ /\ service[sv].before # NoCommit
           /\ service' = [service EXCEPT ![sv].status = "RUNNING",
                                         ![sv].commit = service[sv].before]
    BY DEF EndOperation
  <2>5. CASE /\ service[sv].before # NoCommit
             /\ service' = [service EXCEPT ![sv].status = "RUNNING",
                                           ![sv].commit = service[sv].before]
    <3>1. Becomes("RUNNING", service[sv].before)
      BY <2>5
    <3> QED
      BY <2>5, <3>1
  <2>6. CASE \E status \in {"RUNNING", "CREATE_FAILED"} :
                service' = [service EXCEPT ![sv].status = status]
    BY <2>2, <2>6
  <2> QED
    BY <2>4, <2>5, <2>6
<1>2. DOMAIN service' = DOMAIN service
  BY <1>1
<1>3. service[sv] \in ServiceRecord /\ service'[sv] \in ServiceRecord
      /\ service'[sv].commit = commit /\ service'[sv].secrets = service[sv].secrets
      /\ service'[sv].before = service[sv].before
  BY <1>0, <1>1 DEF TypeOK, ServiceRecord
<1>4. \A t \in DOMAIN service \ {sv} : service'[t] = service[t]
  BY <1>1
<1>5. TypeOK'
  <2>1. service' \in [DOMAIN service' -> ServiceRecord]
    BY <1>0, <1>1, <1>2, <1>3, <1>4 DEF TypeOK
  <2> QED
    BY <1>0, <1>2, <2>1 DEF TypeOK
<1>6. Grows
  BY <1>0, <1>2 DEF Grows
<1>7. <<sv, commit>> \in image
  BY <1>0, <1>1 DEF IInv, ServiceGrounded, RollbackPushed
<1>8. ServiceGrounded' /\ RollbackPushed'
  BY <1>0, <1>2, <1>3, <1>4, <1>7 DEF IInv, ServiceGrounded, RollbackPushed
<1>9. \A e \in Run : Gathered(e)'
  BY <1>0, <1>6, GatheredKept DEF IInv
<1> QED
  BY <1>5, <1>8, <1>9 DEF IInv
-----------------------------------------------------------------------------
\* Every step keeps the invariant.
LEMMA NextIInv == IInv /\ [Next]_vars => IInv'
<1> SUFFICES ASSUME IInv, [Next]_vars
             PROVE  IInv'
  OBVIOUS
<1>1. ASSUME NEW d \in Run, NEW sv \in Service, NEW c \in Commit, Start(d, sv, c)
      PROVE  IInv'
  BY <1>1, StartStep
<1>2. ASSUME NEW d \in Run, Step(d)
      PROVE  IInv'
  BY <1>2, DescribeSecretStep, LookSteps, EnterSecretStep, CreateRepoStep, BuildSteps,
     TestSteps, PushStep, GetRoleStep, CreateRoleStep, AttachPolicyStep,
     ListServicesStep, DeployServiceStep, EndSteps DEF Step
<1>3. ASSUME NEW d \in Run, Fail(d) \/ Kill(d)
      PROVE  IInv'
  BY <1>3, EndSteps, KillStep
<1>4. ASSUME NEW sv \in Service, EndOperation(sv)
      PROVE  IInv'
  BY <1>4, EndOperationStep
<1>5. CASE UNCHANGED vars
  <2>1. TypeOK'
    BY <1>5 DEF IInv, TypeOK, vars, aws
  <2>2. Grows /\ service' = service /\ run' = run
    BY <1>5 DEF Grows, vars, aws
  <2> QED
    BY <2>1, <2>2, GatheredKept, GroundedKept DEF IInv
<1> QED
  BY <1>1, <1>2, <1>3, <1>4, <1>5 DEF Next

\* Whatever happens, runs gather before they deploy.
THEOREM Invariance == Spec => []IInv
  BY InitIInv, NextIInv, PTL DEF Spec

\* Every variable keeps its type; in particular only roles that exist have policies.
THEOREM TypeCorrect == Spec => []TypeOK
<1>1. IInv => TypeOK
  BY DEF IInv
<1> QED
  BY <1>1, Invariance, PTL

\* However many runs overlap, fail, are killed and are repeated, a service's image,
\* secrets and roles exist.
THEOREM ServicesGrounded == Spec => []ServiceGrounded
<1>1. IInv => ServiceGrounded
  BY DEF IInv
<1> QED
  BY <1>1, Invariance, PTL
=============================================================================
