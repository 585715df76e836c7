------------------------------- MODULE Rollout -------------------------------
(***************************************************************************)
(* From an edited servers.yml to an application that serves it: the data   *)
(* of deploy-apprunner.py, of the image and of the application's start.    *)
(*                                                                         *)
(* Deploy has the script's calls, their failures and overlapping runs, with*)
(* images that start or do not.  Here there is one run at a time, and what *)
(* matters is which configuration it has read, built in and tested, which  *)
(* variables it has found there, and what the application is started with. *)
(* The operator may edit the file at any time.  Configurations are those   *)
(* of Configuration.                                                       *)
(***************************************************************************)
EXTENDS Integers, Sequences

CONSTANTS
    Draft,       \* what a configuration file may contain
    Elsewhere,   \* drafts in other files than config/servers.yml
    Bare,        \* Bare[v]: the name v in a file, without "${" and "}"
    NameLength,  \* the lengths of the service names tried
    MaxEdits, MaxFaults

ASSUME RolloutAssumption ==
    /\ Elsewhere \subseteq DOMAIN Draft
    /\ NameLength \subseteq Nat /\ MaxEdits \in Nat /\ MaxFaults \in Nat

VARIABLES
    file,     \* the number of the draft in config/servers.yml
    run,      \* the run of the script: where it is and what it has read
    service,  \* the App Runner service: what it is to run, and its status
    live,     \* what it runs
    up,       \* whether the application has started
    edits, faults

vars == <<file, run, service, live, up, edits, faults>>

Conf == INSTANCE Configuration

NoRun == [at |-> "idle", length |-> 0, env |-> {}, image |-> 0]
None == [image |-> 0, env |-> {}]
Nowhere == [image |-> 0, env |-> {}, status |-> "none"]

Init ==
    /\ file \in DOMAIN Draft
    /\ run = NoRun /\ service = Nowhere /\ live = None /\ up = FALSE
    /\ edits = 0 /\ faults = 0

Servers(doc) == LET all == Conf!Section(doc, "servers")
                IN  {all[s] : s \in DOMAIN all}

\* Values of a mapping that are there.
Given(m, keys) == {m[k] : k \in keys \cap DOMAIN m}

\* Mutation: of an oauth_secret, only the secret is looked for.
NamedSecretOnly(server) ==
    Given(server, {"token"})
    \cup UNION {Given(o, {"client_secret"}) : o \in Given(server, {"oauth_secret"})}

Named(server) ==
    Given(server, {"token"})
    \cup UNION {Given(o, {"client_id", "client_secret"}) :
                    o \in Given(server, {"oauth_secret"})}

\* Mutation: the names are taken as they are written.
ExtractVerbatim(doc) == UNION {Named(s) : s \in Servers(doc)}

\* extract_env_vars_from_config
Extract(doc) == {Bare[v] : v \in UNION {Named(s) : s \in Servers(doc)}}

\* What names of variables may be.
Names == {Bare[v] : v \in DOMAIN Bare}

\* The drafts' names are known.
ASSUME NamesAssumption ==
    \A d \in DOMAIN Draft : \A s \in Servers(Draft[d]) : Named(s) \subseteq DOMAIN Bare

\* A name that has been stripped of "${" and "}" has none left.
ASSUME StripAssumption ==
    \A v \in DOMAIN Bare : Bare[v] \in DOMAIN Bare => Bare[Bare[v]] = Bare[v]

\* lifespan: the application starts when its configuration loads, and answers
\* /health from then on.
Loading == {what \in [image : DOMAIN Draft, env : SUBSET Names] :
               Conf!Loads(Draft[what.image], what.env)}
Starts(what) == [image |-> what.image, env |-> what.env] \in Loading
-----------------------------------------------------------------------------
At(place) == run.at = place
Goto(place) == run' = [run EXCEPT !.at = place]

\* validate_service_name, by length.
NameAccepted(length) == length \in 4 .. 40

\* IAM allows 64 characters: galaxy-publisher-{name}-ecr-access.
RoleNameFits == 17 + run.length + 11 <= 64

\* main up to the image: the variables are those of the file --config names, and
\* each gets its secret.  A file whose "servers" is null, which config.py refuses,
\* makes the script fail at line 130 before it has done anything: it starts nothing.
Start(d, length) ==
    /\ At("idle") /\ d \in {file} \cup Elsewhere /\ NameAccepted(length)
    /\ run' = [at |-> "build", length |-> length, image |-> 0,
               env |-> Extract(Draft[d])]
    /\ UNCHANGED <<file, service, live, up, edits, faults>>

\* The Dockerfile copies config/servers.yml, whatever --config says.
Build ==
    /\ At("build")
    /\ run' = [run EXCEPT !.at = "test", !.image = file]
    /\ UNCHANGED <<file, service, live, up, edits, faults>>

\* Mutation: that the container does not start is only logged.
TestIgnored ==
    /\ At("test")
    /\ Goto("push")
    /\ UNCHANGED <<file, service, live, up, edits, faults>>

\* test_container: with a dummy value for each of the variables.
Test ==
    /\ At("test") /\ Starts(run)
    /\ Goto("push")
    /\ UNCHANGED <<file, service, live, up, edits, faults>>

\* The image is pushed, the roles are created.
Push ==
    /\ At("push") /\ RoleNameFits
    /\ Goto("deploy")
    /\ UNCHANGED <<file, service, live, up, edits, faults>>

\* App Runner updates a service only between two operations.
CanDeploy == service.status # "OPERATION_IN_PROGRESS"

\* Mutation: the variables are read from the file again.
DeployServiceRead ==
    /\ At("deploy") /\ CanDeploy
    /\ service' = [image |-> run.image, env |-> Extract(Draft[file]),
                   status |-> "OPERATION_IN_PROGRESS"]
    /\ Goto("wait")
    /\ UNCHANGED <<file, live, up, edits, faults>>

\* create_or_update_apprunner_service
DeployService ==
    /\ At("deploy") /\ CanDeploy
    /\ service' = [image |-> run.image, env |-> run.env,
                   status |-> "OPERATION_IN_PROGRESS"]
    /\ Goto("wait")
    /\ UNCHANGED <<file, live, up, edits, faults>>

\* A service that has been rolled back is RUNNING, too: a success to the script.
Poll ==
    /\ At("wait") /\ service.status = "RUNNING"
    /\ run' = NoRun
    /\ UNCHANGED <<file, service, live, up, edits, faults>>

\* The run can only fail where it is: no health check passes in time, IAM
\* refuses the role's name, App Runner the update, the service has not been created.
Stuck ==
    \/ At("test") /\ ~Starts(run)
    \/ At("push") /\ ~RoleNameFits
    \/ At("deploy") /\ ~CanDeploy
    \/ At("wait") /\ service.status = "CREATE_FAILED"

\* Of necessity, or for any reason; App Runner goes on with what it has begun.
Fail ==
    /\ ~At("idle")
    /\ \/ Stuck /\ UNCHANGED faults
       \/ ~Stuck /\ faults < MaxFaults /\ faults' = faults + 1
    /\ run' = NoRun
    /\ UNCHANGED <<file, service, live, up, edits>>
-----------------------------------------------------------------------------
\* What App Runner makes of a service when an operation on it has failed: an
\* update is rolled back, and the service is RUNNING as it was before.
RolledBack ==
    IF live = None
    THEN [service EXCEPT !.status = "CREATE_FAILED"]
    ELSE [image |-> live.image, env |-> live.env, status |-> "RUNNING"]

\* App Runner starts the application from the new image and asks its /health;
\* when that, or anything else, fails, what was live stays so.
EndOperation ==
    /\ service.status = "OPERATION_IN_PROGRESS"
    /\ \/ /\ Starts(service)
          /\ service' = [service EXCEPT !.status = "RUNNING"]
          /\ live' = [image |-> service.image, env |-> service.env]
          /\ up' = TRUE
          /\ UNCHANGED faults
       \/ /\ Starts(service) => faults < MaxFaults
          /\ faults' = IF Starts(service) THEN faults + 1 ELSE faults
          /\ service' = RolledBack
          /\ UNCHANGED <<live, up>>
    /\ UNCHANGED <<file, run, edits>>

\* The application's process ends, and what it holds in memory with it.
Crash ==
    /\ up /\ faults < MaxFaults
    /\ up' = FALSE /\ faults' = faults + 1
    /\ UNCHANGED <<file, run, service, live, edits>>

\* App Runner starts it again.
Startup ==
    /\ ~up /\ live # None /\ Starts(live)
    /\ up' = TRUE
    /\ UNCHANGED <<file, run, service, live, edits, faults>>

Edit(d) ==
    /\ edits < MaxEdits /\ d # file
    /\ file' = d
    /\ edits' = edits + 1
    /\ UNCHANGED <<run, service, live, up, faults>>

Step == Build \/ Test \/ Push \/ DeployService \/ Poll \/ (Stuck /\ Fail)

\* Whatever leaves the application's process alone or replaces it in good order.
Orderly ==
    \/ \E d \in DOMAIN Draft, length \in NameLength : Start(d, length)
    \/ Build \/ Test \/ Push \/ DeployService \/ Poll \/ Fail
    \/ EndOperation \/ Startup
    \/ \E d \in DOMAIN Draft : Edit(d)

Next == Orderly \/ Crash

Spec == Init /\ [][Next]_vars

\* What is live differs from the file that the image gets.
Outdated == live.image # file

\* A service name of 4 .. 36 characters.
StartWithFile == \E length \in NameLength \cap 4 .. 36 : Start(file, length)

\* Calls return; App Runner ends its operations and starts the application
\* again; the operator deploys the file until it is live.
Fairness ==
    /\ WF_vars(Step) /\ WF_vars(EndOperation) /\ WF_vars(Startup)
    /\ SF_vars(Outdated /\ StartWithFile)
-----------------------------------------------------------------------------
Images == {0} \cup DOMAIN Draft

TypeOK ==
    /\ file \in DOMAIN Draft
    /\ run \in [at : {"idle", "build", "test", "push", "deploy", "wait"},
                length : NameLength \cup {0}, env : SUBSET Names, image : Images]
    /\ service \in [image : Images, env : SUBSET Names,
                    status : {"none", "OPERATION_IN_PROGRESS", "RUNNING",
                              "CREATE_FAILED"}]
    /\ live \in [image : Images, env : SUBSET Names]
    /\ up \in BOOLEAN
    /\ edits \in 0 .. MaxEdits /\ faults \in 0 .. MaxFaults

\* "Push to ECR (only if test passes)", deploy/README.md line 144: whatever the
\* operator edits during a run, and whichever file --config names, a service is
\* never given a configuration that does not load with the variables that it is
\* given too, so that the application starts whenever App Runner starts it.
DeployedStarts == service # Nowhere => Starts(service)

\* Every server of a configuration in use has credentials for get_server_token
\* to choose from: the ValueError of proxy.py line 45 is never raised.
LiveServersUsable ==
    live # None =>
        \A s \in Servers(Draft[live.image]) : Conf!AuthType(s) # "ValueError"

\* Drafts that some environment makes load.
Sound == {what.image : what \in Loading}

\* When the operator stops editing, the file goes live and stays so, if any
\* variables make it load at all: the script finds all that it takes.
LastEditServed == <>[](file \in Sound => up /\ live.image = file)
=============================================================================
