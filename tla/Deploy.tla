------------------------------- MODULE Deploy -------------------------------
(***************************************************************************)
(* deploy/deploy-apprunner.py: runs of the script that interrupt, repeat   *)
(* and overlap each other.                                                 *)
(*                                                                         *)
(* A run is a sequence of calls: to AWS, which keeps secrets, repositories,*)
(* images, roles and services, and to the container engine of the machine, *)
(* which has one test container (its name and port are fixed).  Each action*)
(* is one such call and the code up to the next one.  A call may fail, and *)
(* the user may interrupt the script: the exception passes through the     *)
(* finally block it is in.  But what a finally block does may fail as well,*)
(* unnoticed, or be interrupted; and the script may be killed, and passes  *)
(* through none.                                                           *)
(*                                                                         *)
(* Runs share one machine; those of one commit share its checkout.  An     *)
(* image is known by the commit it is built from, and some do not start.   *)
(***************************************************************************)
EXTENDS Integers, FiniteSets

CONSTANTS
    Run,        \* identities of concurrent runs of the script
    Commit,     \* what --short HEAD may be
    Broken,     \* commits whose image does not pass the health check
    Service,    \* service names
    Var,        \* environment variables named in the configuration
    Target,     \* Target[d]: the services that run d may be started for
    MaxStarts,  \* how often a script is started
    MaxKills,   \* how often one is killed
    MaxSlips    \* how often it does not remove what it should

ASSUME DeployAssumption ==
    /\ Broken \subseteq Commit
    /\ Target \in [Run -> SUBSET Service]
    /\ MaxStarts \in Nat /\ MaxKills \in Nat /\ MaxSlips \in Nat

VARIABLES
    run,      \* run[d]: where a run is, and its local variables
    reqs,     \* the checkouts with a generated requirements.txt
    box,      \* the commit of the image the test container runs, or NoBox
    secret,   \* secrets that exist: for which service the value was entered
    repo,     \* services with an ECR repository
    image,    \* pushed images, as pairs of a service and a commit
    role,     \* roles that exist, as pairs of a service and a kind
    allowed,  \* those with their policy
    service,  \* App Runner services: commit, secrets and status
    starts, kills, slips

aws == <<secret, repo, image, role, allowed, service>>
vars == <<run, reqs, box, aws, starts, kills, slips>>

NoBox == "none"
NoVar == "none"
InProgress == "OPERATION_IN_PROGRESS"
NoCommit == "none"

Put(f, k, x) == [j \in DOMAIN f \cup {k} |-> IF j = k THEN x ELSE f[j]]

\* build_container_image and test_container up to the end of their finally blocks.
Building == {"export", "build", "tag"}
Testing == {"remove", "start", "health", "stop"}
Ended == {"idle", "done", "failed"}
Place == Ended \cup Building \cup Testing \cup
         {"secrets", "prompt", "repo", "newrepo", "push", "role", "newrole",
          "policy", "service", "deploy", "wait"}

Active(d) == run[d].at \notin Ended
At(d, place) == run[d].at = place
Goto(d, place) == run' = [run EXCEPT ![d].at = place]

Init ==
    /\ run = [d \in Run |-> [at |-> "idle", srv |-> "none", commit |-> "none",
                             todo |-> {}, var |-> NoVar, found |-> FALSE,
                             kind |-> "ecr"]]
    /\ reqs = {} /\ box = NoBox
    /\ secret = [v \in {} |-> {}] /\ repo = {} /\ image = {}
    /\ role = {} /\ allowed = {} /\ service = [s \in {} |-> {}]
    /\ starts = 0 /\ kills = 0 /\ slips = 0

\* main up to the first secret: the configuration is read, the commit is noted.
Start(d, s, c) ==
    /\ ~Active(d) /\ s \in Target[d] /\ starts < MaxStarts
    /\ starts' = starts + 1
    /\ run' = [run EXCEPT ![d] = [at |-> "secrets", srv |-> s, commit |-> c,
                                  todo |-> Var, var |-> NoVar, found |-> FALSE,
                                  kind |-> "ecr"]]
    /\ UNCHANGED <<reqs, box, aws, kills, slips>>
-----------------------------------------------------------------------------
\* get_or_create_secret: describe_secret, then the prompt it leads to.
DescribeSecret(d, v) ==
    /\ At(d, "secrets") /\ v \in run[d].todo
    /\ run' = [run EXCEPT ![d].at = "prompt", ![d].var = v,
                          ![d].found = v \in DOMAIN secret]
    /\ UNCHANGED <<reqs, box, aws, starts, kills, slips>>

NextSecret(d) ==
    run' = [run EXCEPT ![d].at = "secrets", ![d].todo = @ \ {run[d].var},
                       ![d].var = NoVar, ![d].found = FALSE]

KeepSecret(d) ==
    /\ At(d, "prompt") /\ run[d].found
    /\ NextSecret(d)
    /\ UNCHANGED <<reqs, box, aws, starts, kills, slips>>

\* put_secret_value of the secret found, or create_secret of one not there.
EnterSecret(d) ==
    /\ At(d, "prompt")
    /\ run[d].found \/ run[d].var \notin DOMAIN secret
    /\ secret' = Put(secret, run[d].var, run[d].srv)
    /\ NextSecret(d)
    /\ UNCHANGED <<reqs, box, repo, image, role, allowed, service, starts, kills, slips>>

SecretsDone(d) ==
    /\ At(d, "secrets") /\ run[d].todo = {}
    /\ Goto(d, "repo")
    /\ UNCHANGED <<reqs, box, aws, starts, kills, slips>>

\* get_or_create_ecr_repo
DescribeRepo(d) ==
    /\ At(d, "repo")
    /\ Goto(d, IF run[d].srv \in repo THEN "export" ELSE "newrepo")
    /\ UNCHANGED <<reqs, box, aws, starts, kills, slips>>

CreateRepo(d) ==
    /\ At(d, "newrepo") /\ run[d].srv \notin repo
    /\ repo' = repo \cup {run[d].srv}
    /\ Goto(d, "export")
    /\ UNCHANGED <<reqs, box, secret, image, role, allowed, service, starts, kills, slips>>
-----------------------------------------------------------------------------
\* The removal of the generated file, and "rm -f" of the test container, whose
\* result is not looked at.
RemoveFile(c) ==
    \/ reqs' = reqs \ {c} /\ UNCHANGED slips
    \/ /\ c \in reqs /\ slips < MaxSlips
       /\ slips' = slips + 1
       /\ UNCHANGED reqs

RemoveBox ==
    \/ box' = NoBox /\ UNCHANGED slips
    \/ /\ box # NoBox /\ slips < MaxSlips
       /\ slips' = slips + 1
       /\ UNCHANGED box

\* build_container_image: uv writes requirements.txt, the build copies it, the
\* image is tagged; then the finally block removes the file, or the run fails.
Export(d) ==
    /\ At(d, "export")
    /\ reqs' = reqs \cup {run[d].commit}
    /\ Goto(d, "build")
    /\ UNCHANGED <<box, aws, starts, kills, slips>>

Build(d) ==
    /\ At(d, "build") /\ run[d].commit \in reqs
    /\ Goto(d, "tag")
    /\ UNCHANGED <<reqs, box, aws, starts, kills, slips>>

\* Mutation: the file is removed only when the build fails.
TagLeaving(d) ==
    /\ At(d, "tag")
    /\ Goto(d, "remove")
    /\ UNCHANGED <<reqs, box, aws, starts, kills, slips>>

Tag(d) ==
    /\ At(d, "tag")
    /\ reqs' = reqs \ {run[d].commit}
    /\ Goto(d, "remove")
    /\ UNCHANGED <<box, aws, starts, kills, slips>>

\* test_container: whatever test container there is goes, a new one starts, and
\* the port is asked, whoever's container listens there.
RemoveOld(d) ==
    /\ At(d, "remove")
    /\ RemoveBox
    /\ Goto(d, "start")
    /\ UNCHANGED <<reqs, aws, starts, kills>>

StartBox(d) ==
    /\ At(d, "start") /\ box = NoBox
    /\ box' = run[d].commit
    /\ Goto(d, "health")
    /\ UNCHANGED <<reqs, aws, starts, kills, slips>>

\* Mutation: that no health check passed in time is only logged.
HealthIgnored(d) ==
    /\ At(d, "health")
    /\ Goto(d, "stop")
    /\ UNCHANGED <<reqs, box, aws, starts, kills, slips>>

Healthy(d) ==
    /\ At(d, "health") /\ box # NoBox /\ box \notin Broken
    /\ Goto(d, "stop")
    /\ UNCHANGED <<reqs, box, aws, starts, kills, slips>>

\* The finally block, after which the run goes on, whether the container is gone
\* or not.
StopBox(d) ==
    /\ At(d, "stop")
    /\ RemoveBox
    /\ Goto(d, "push")
    /\ UNCHANGED <<reqs, aws, starts, kills>>

\* Mutation: that the push failed is not noticed.
PushUnchecked(d) ==
    /\ At(d, "push")
    /\ Goto(d, "role")
    /\ UNCHANGED <<reqs, box, aws, starts, kills, slips>>

Push(d) ==
    /\ At(d, "push")
    /\ image' = image \cup {<<run[d].srv, run[d].commit>>}
    /\ Goto(d, "role")
    /\ UNCHANGED <<reqs, box, secret, repo, role, allowed, service, starts, kills, slips>>
-----------------------------------------------------------------------------
\* get_or_create_ecr_access_role and then get_or_create_iam_role: a role that is
\* there is used as it is.
Role(d) == <<run[d].srv, run[d].kind>>

NextRole(d) ==
    run' = [run EXCEPT ![d].at = IF run[d].kind = "ecr" THEN "role" ELSE "service",
                       ![d].kind = "instance"]

\* Mutation: the policy is put before there is a role.
GetRolePolicyFirst(d) ==
    /\ At(d, "role")
    /\ IF Role(d) \in role THEN NextRole(d) ELSE Goto(d, "policy")
    /\ UNCHANGED <<reqs, box, aws, starts, kills, slips>>

GetRole(d) ==
    /\ At(d, "role")
    /\ IF Role(d) \in role THEN NextRole(d) ELSE Goto(d, "newrole")
    /\ UNCHANGED <<reqs, box, aws, starts, kills, slips>>

CreateRole(d) ==
    /\ At(d, "newrole") /\ Role(d) \notin role
    /\ role' = role \cup {Role(d)}
    /\ Goto(d, "policy")
    /\ UNCHANGED <<reqs, box, secret, repo, image, allowed, service, starts, kills, slips>>

\* attach_role_policy or put_role_policy
AttachPolicy(d) ==
    /\ At(d, "policy")
    /\ allowed' = allowed \cup {Role(d)}
    /\ NextRole(d)
    /\ UNCHANGED <<reqs, box, secret, repo, image, role, service, starts, kills, slips>>

\* create_or_update_apprunner_service: list_services, then the call it leads to.
ListServices(d) ==
    /\ At(d, "service")
    /\ run' = [run EXCEPT ![d].at = "deploy",
                          ![d].found = run[d].srv \in DOMAIN service]
    /\ UNCHANGED <<reqs, box, aws, starts, kills, slips>>

\* App Runner updates a service only between two operations, and creates one
\* only under a name that is free.
CanDeploy(d) ==
    IF run[d].found THEN service[run[d].srv].status # InProgress
                    ELSE run[d].srv \notin DOMAIN service

\* What a service runs, to which App Runner goes back if an update fails.
Running(s) ==
    IF s \in DOMAIN service /\ service[s].status = "RUNNING" THEN service[s].commit
                                                            ELSE NoCommit

\* "by", the run whose call it is, is there to speak of it.
DeployService(d) ==
    /\ At(d, "deploy") /\ CanDeploy(d)
    /\ service' = Put(service, run[d].srv,
                      [commit |-> run[d].commit, secrets |-> Var,
                       before |-> Running(run[d].srv), by |-> d,
                       status |-> InProgress])
    /\ Goto(d, "wait")
    /\ UNCHANGED <<reqs, box, secret, repo, image, role, allowed, starts, kills, slips>>

\* Mutation: whatever is no failure is a success.
PollOnce(d) ==
    /\ At(d, "wait") /\ service[run[d].srv].status # "CREATE_FAILED"
    /\ Goto(d, "done")
    /\ UNCHANGED <<reqs, box, aws, starts, kills, slips>>

\* The service is asked for its status until the operation has ended: with success,
\* or with an update that has been rolled back.
Poll(d) ==
    /\ At(d, "wait") /\ service[run[d].srv].status = "RUNNING"
    /\ Goto(d, "done")
    /\ UNCHANGED <<reqs, box, aws, starts, kills, slips>>
-----------------------------------------------------------------------------
\* Mutation: the health check is tried without a limit.
StuckUnlessTesting(d) ==
    \/ At(d, "build") /\ run[d].commit \notin reqs
    \/ At(d, "start") /\ box # NoBox
    \/ At(d, "deploy") /\ ~CanDeploy(d)
    \/ At(d, "wait") /\ service[run[d].srv].status = "CREATE_FAILED"

\* The run can only fail where it is: the call that comes next is refused, the
\* file or the container's name is taken, the health check has been tried 60
\* times, the service has not been created.
Stuck(d) ==
    \/ At(d, "prompt") /\ ~run[d].found /\ run[d].var \in DOMAIN secret
    \/ At(d, "newrepo") /\ run[d].srv \in repo
    \/ At(d, "build") /\ run[d].commit \notin reqs
    \/ At(d, "start") /\ box # NoBox
    \/ At(d, "health")
    \/ At(d, "newrole") /\ Role(d) \in role
    \/ At(d, "deploy") /\ ~CanDeploy(d)
    \/ At(d, "wait") /\ service[run[d].srv].status = "CREATE_FAILED"

\* Mutation: the clean-up is not in a finally block.
FailLeaving(d) ==
    /\ Active(d)
    /\ Goto(d, "failed")
    /\ UNCHANGED <<reqs, box, aws, starts, kills, slips>>

\* An exception: from a call, by Control-C, or because the run is stuck.
Fail(d) ==
    /\ Active(d)
    /\ Goto(d, "failed")
    /\ \/ /\ run[d].at \in Building
          /\ RemoveFile(run[d].commit)
          /\ UNCHANGED box
       \/ /\ run[d].at \in Testing
          /\ RemoveBox
          /\ UNCHANGED reqs
       \/ /\ run[d].at \notin Building \cup Testing
          /\ UNCHANGED <<reqs, box, slips>>
    /\ UNCHANGED <<aws, starts, kills>>

\* The process or its machine's session goes away.
Kill(d) ==
    /\ Active(d) /\ kills < MaxKills
    /\ kills' = kills + 1
    /\ Goto(d, "failed")
    /\ UNCHANGED <<reqs, box, aws, starts, slips>>

\* App Runner ends an operation: the service runs what it was given, or runs again
\* what it ran before, or has not been created.
EndOperation(s) ==
    /\ s \in DOMAIN service /\ service[s].status = InProgress
    /\ \/ service' = [service EXCEPT ![s].status = "RUNNING"]
       \/ /\ service[s].before # NoCommit
          /\ service' = [service EXCEPT ![s].status = "RUNNING",
                                        ![s].commit = service[s].before]
       \/ /\ service[s].before = NoCommit
          /\ service' = [service EXCEPT ![s].status = "CREATE_FAILED"]
    /\ UNCHANGED <<run, reqs, box, secret, repo, image, role, allowed, starts, kills, slips>>

Step(d) ==
    \/ \E v \in Var : DescribeSecret(d, v)
    \/ KeepSecret(d) \/ EnterSecret(d) \/ SecretsDone(d)
    \/ DescribeRepo(d) \/ CreateRepo(d)
    \/ Export(d) \/ Build(d) \/ Tag(d)
    \/ RemoveOld(d) \/ StartBox(d) \/ Healthy(d) \/ StopBox(d) \/ Push(d)
    \/ GetRole(d) \/ CreateRole(d) \/ AttachPolicy(d)
    \/ ListServices(d) \/ DeployService(d) \/ Poll(d)

Next ==
    \/ \E d \in Run :
          \/ \E s \in Service, c \in Commit : Start(d, s, c)
          \/ Step(d) \/ Fail(d) \/ Kill(d)
    \/ \E s \in Service : EndOperation(s)

Spec == Init /\ [][Next]_vars

\* Calls return, prompts are answered, and App Runner ends its operations.  A
\* run fails of necessity only where it is stuck.
FairSpec ==
    /\ Spec
    /\ \A d \in Run : WF_vars(Step(d) \/ (Stuck(d) /\ Fail(d)))
    /\ \A s \in Service : WF_vars(EndOperation(s))
-----------------------------------------------------------------------------
RunRecord == [at : Place, srv : Service \cup {"none"}, commit : Commit \cup {"none"},
              todo : SUBSET Var, var : Var \cup {NoVar}, found : BOOLEAN,
              kind : {"ecr", "instance"}]
ServiceRecord == [commit : Commit, secrets : SUBSET Var,
                  before : Commit \cup {NoCommit}, by : Run,
                  status : {InProgress, "RUNNING", "CREATE_FAILED"}]

TypeOK ==
    /\ run \in [Run -> RunRecord]
    /\ reqs \subseteq Commit /\ box \in Commit \cup {NoBox}
    /\ DOMAIN secret \subseteq Var /\ secret \in [DOMAIN secret -> Service]
    /\ repo \subseteq Service /\ image \subseteq Service \X Commit
    /\ role \subseteq Service \X {"ecr", "instance"} /\ allowed \subseteq role
    /\ DOMAIN service \subseteq Service
    /\ service \in [DOMAIN service -> ServiceRecord]
    /\ starts \in 0 .. MaxStarts /\ kills \in 0 .. MaxKills
    /\ slips \in 0 .. MaxSlips

\* However runs overlap, fail and are repeated, a service never refers to what
\* is not there: its image is pushed, its secrets and its two roles exist.
ServiceGrounded ==
    \A s \in DOMAIN service :
        /\ <<s, service[s].commit>> \in image
        /\ service[s].secrets \subseteq DOMAIN secret
        /\ {<<s, "ecr">>, <<s, "instance">>} \subseteq role

\* A run reports success only when its service runs: its own commit or, if App
\* Runner has rolled the update back, the one that the service ran before it; until
\* another run deploys the same service.
SuccessIsOurs ==
    \A d \in Run :
        At(d, "done") =>
            LET s == service[run[d].srv]
            IN  s.by = d => /\ s.status = "RUNNING"
                            /\ s.commit \in {run[d].commit, s.before}

\* What runs leave on the machine.
Leftovers ==
    {<<"file", c>> : c \in reqs} \cup {<<"container", b>> : b \in {box} \ {NoBox}}

\* Runs clean up after themselves, and after each other: when none is active, each
\* thing left behind is due to a run that was killed or a removal not done.
LeftoversExplained ==
    (\A d \in Run : ~Active(d)) => Cardinality(Leftovers) <= kills + slips

\* "Push to ECR (only if test passes)", deploy/README.md line 144.
PushedIsHealthy == \A p \in image : p[2] \notin Broken

\* The instance role "allows App Runner to access Secrets Manager",
\* deploy/README.md line 251: so do the roles of every deployed service.
RolesAllow ==
    \A s \in DOMAIN service : {<<s, "ecr">>, <<s, "instance">>} \subseteq allowed

\* "Each gets its own ... Secrets namespace", deploy/README.md line 491: what a
\* service is given as a secret was entered when that service was deployed.
OwnSecrets ==
    \A s \in DOMAIN service : \A v \in service[s].secrets : secret[v] = s

\* A run of the script ends.
EveryRunEnds == \A d \in Run : Active(d) ~> ~Active(d)
=============================================================================
