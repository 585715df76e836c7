------------------------------ MODULE Lifecycle ------------------------------
(***************************************************************************)
(* The application between those who deploy it and those who publish       *)
(* through it: Rollout decides which configuration is served, Publication's*)
(* sessions run on it, whatever is deployed, fails and restarts meanwhile. *)
(***************************************************************************)
EXTENDS Rollout, PublicationParameters

VARIABLES session, import, task, late, lost

\* lifespan: app_config is what has been loaded, as long as the process lives.
Serving ==
    IF up THEN LET all == Draft[live.image].servers
               IN  [s \in DOMAIN all |-> all[s].base_url]
          ELSE [s \in {} |-> {}]

Publishing == INSTANCE Publication WITH serving <- Serving

allVars == <<vars, session, import, task, late, lost>>

LifecycleInit == Init /\ Publishing!Init

\* The script's own steps up to the update of the service, and edits, neither
\* see nor change what sessions depend on: sessions go on before or after them.
Steady == edits = MaxEdits /\ run.at \in {"idle", "wait"}

LifecycleNext ==
    \/ Orderly /\ UNCHANGED <<session, import, task, late, lost>>
    \/ Crash /\ Publishing!Drop
    \/ Steady /\ Publishing!Next /\ UNCHANGED vars

LifecycleSpec ==
    LifecycleInit /\ [][LifecycleNext]_allVars /\ Fairness /\ Publishing!Fairness
-----------------------------------------------------------------------------
\* The types of both parts.
TypesOK == TypeOK /\ Publishing!TypeOK

\* As in Publication.
FollowsTask == Publishing!FollowsTask
ReplyReadable == Publishing!ReplyReadable
LearnsOutcome == Publishing!LearnsOutcome
ImplementsSession == Publishing!ImplementsSession

\* Whatever drafts can be loaded agree on the servers' base URLs.
Agreed(Base) ==
    \A d \in Sound : \A s \in DOMAIN Draft[d].servers :
        Draft[d].servers[s].base_url = Base[s]
=============================================================================
