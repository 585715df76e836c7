--------------------------- MODULE LifecycleProofs ---------------------------
(***************************************************************************)
(* What is proved of Rollout and of Publication holds of the application   *)
(* as a whole: Lifecycle takes only their steps.  The sessions' part is    *)
(* cited from PublicationProofs, instantiated as Lifecycle does it; its    *)
(* definitions are those of "Publishing" under another name.               *)
(***************************************************************************)
EXTENDS Lifecycle, RolloutProofs

Proofs == INSTANCE PublicationProofs WITH serving <- Serving

\* Sessions of the application start as Publication's.
LEMMA SessionsStart == LifecycleInit => Proofs!Init
BY DEF LifecycleInit,
       Publishing!Init, Proofs!Init, Publishing!Idle, Proofs!Idle,
       Publishing!NoReply, Proofs!NoReply, Publishing!Reply, Proofs!Reply,
       Publishing!Nowhere, Proofs!Nowhere, Publishing!URL, Proofs!URL

\* Whatever happens, to a session there happens a step of Publication, a stop of
\* the proxy, or nothing.
LEMMA SessionsStep ==
    [LifecycleNext]_allVars => [Proofs!Next \/ Proofs!Drop]_(Proofs!vars)
BY DEF LifecycleNext, allVars, Publishing!Forms, Proofs!Forms,
       Publishing!URL, Proofs!URL, Publishing!Nowhere, Proofs!Nowhere,
       Publishing!Proxied, Proofs!Proxied, Publishing!Task, Proofs!Task,
       Publishing!Reference, Proofs!Reference, Publishing!Ref, Proofs!Ref,
       Publishing!Resolve, Proofs!Resolve, Publishing!Reply, Proofs!Reply,
       Publishing!Readable, Proofs!Readable, Publishing!NoReply,
       Proofs!NoReply, Publishing!Idle, Proofs!Idle, Publishing!At,
       Proofs!At, Publishing!Up, Proofs!Up, Publishing!Tell, Proofs!Tell,
       Publishing!Fetched, Proofs!Fetched, Publishing!Rewritten,
       Proofs!Rewritten, Publishing!Routed, Proofs!Routed,
       Publishing!Target, Proofs!Target, Publishing!InFlight,
       Proofs!InFlight, Publishing!Upload, Proofs!Upload, Publishing!Accept,
       Proofs!Accept, Publishing!Refuse, Proofs!Refuse,
       Publishing!EndImport, Proofs!EndImport, Publishing!Answer,
       Proofs!Answer, Publishing!Follow, Proofs!Follow, Publishing!Ask,
       Proofs!Ask, Publishing!AskOutside, Proofs!AskOutside,
       Publishing!Status, Proofs!Status, Publishing!Learn, Proofs!Learn,
       Publishing!Lose, Proofs!Lose, Publishing!Unserved, Proofs!Unserved,
       Publishing!Expire, Proofs!Expire, Publishing!Again, Proofs!Again,
       Publishing!ArriveLate, Proofs!ArriveLate, Publishing!Sent, Proofs!Sent,
       Publishing!Adrift, Proofs!Adrift,
       Publishing!Drop, Proofs!Drop, Publishing!Progress, Proofs!Progress,
       Publishing!Next, Proofs!Next, Publishing!Unknown, Proofs!Unknown,
       Publishing!Server, Proofs!Server, Publishing!vars, Proofs!vars

\* The two names mean the same promise.
LEMMA SamePromise ==
    ASSUME NEW c \in Client
    PROVE  /\ Proofs!Session(c)!Init => Publishing!Session(c)!Init
           /\ [Proofs!Session(c)!Next]_(Proofs!Session(c)!vars)
                => [Publishing!Session(c)!Next]_(Publishing!Session(c)!vars)
BY DEF
       Publishing!Known, Proofs!Known, Publishing!Unknown, Proofs!Unknown,
       Publishing!Session!Init, Proofs!Session!Init,
       Publishing!Session!vars, Proofs!Session!vars,
       Publishing!Session!Next, Proofs!Session!Next,
       Publishing!Session!Accept, Proofs!Session!Accept,
       Publishing!Session!End, Proofs!Session!End,
       Publishing!Session!Report, Proofs!Session!Report,
       Publishing!Session!Refuse, Proofs!Session!Refuse,
       Publishing!Session!Conflict, Proofs!Session!Conflict,
       Publishing!Session!GiveUp, Proofs!Session!GiveUp,
       Publishing!Session!Arrive, Proofs!Session!Arrive,
       Publishing!Session!Free, Proofs!Session!Free,
       Publishing!Session!TryAgain, Proofs!Session!TryAgain,
       Publishing!Session!Outcome, Proofs!Session!Outcome

\* Whatever the operator deploys, edits and breaks meanwhile, and however often
\* the application crashes, every client's session keeps its promise.
THEOREM LifecycleImplementsSession == LifecycleSpec => ImplementsSession
<1>1. LifecycleSpec => Proofs!Spec
  BY SessionsStart, SessionsStep, PTL DEF LifecycleSpec, Proofs!Spec
<1>2. Proofs!Spec => Proofs!ImplementsSession
  <2>1. Proofs!PublicationAssumption
    BY PublicationAssumption DEF Forms, Proofs!PublicationAssumption, Proofs!Forms
  <2> QED BY <2>1, Proofs!SessionsImplemented
<1>3. Proofs!ImplementsSession => ImplementsSession
  <2>1. (\A c \in Client : Proofs!Session(c)!Init)
           => \A c \in Client : Publishing!Session(c)!Init
    BY SamePromise
  <2>2. [\A c \in Client : [Proofs!Session(c)!Next]_(Proofs!Session(c)!vars)]_(Proofs!vars)
           => [\A c \in Client : [Publishing!Session(c)!Next]_(Publishing!Session(c)!vars)]_(Publishing!vars)
    BY SamePromise DEF Proofs!vars, Publishing!vars
  <2> QED BY <2>1, <2>2, PTL
          DEF ImplementsSession, Proofs!ImplementsSession, Publishing!ImplementsSession
<1> QED BY <1>1, <1>2, <1>3
-----------------------------------------------------------------------------
\* To the deployment there happens a step of Rollout, or nothing.
LEMMA DeploymentSteps == [LifecycleNext]_allVars => [Next]_vars
BY DEF LifecycleNext, allVars, Next

\* Sessions do not get in the way of the deployment: what is deployed starts.
THEOREM LifecycleDeployedStarts == LifecycleSpec => []DeployedStarts
BY DeploymentSteps, DeployedServicesStart, PTL DEF LifecycleSpec, LifecycleInit, Spec

LEMMA SameTypes == Proofs!TypeOK => Publishing!TypeOK
BY DEF Proofs!TypeOK, Publishing!TypeOK, Proofs!Server, Publishing!Server,
       Proofs!Told, Publishing!Told, Proofs!Unknown, Publishing!Unknown,
       Proofs!State, Publishing!State

\* Both parts keep their types.
THEOREM LifecycleTypes == LifecycleSpec => []TypesOK
<1>1. LifecycleSpec => []TypeOK
  BY DeploymentSteps, TypeCorrect, PTL DEF LifecycleSpec, LifecycleInit, Spec
<1>2. LifecycleSpec => Proofs!Spec
  BY SessionsStart, SessionsStep, PTL DEF LifecycleSpec, Proofs!Spec
<1>3. Proofs!Spec => []Proofs!TypeOK
  <2>1. Proofs!PublicationAssumption
    BY PublicationAssumption DEF Forms, Proofs!PublicationAssumption, Proofs!Forms
  <2> QED BY <2>1, Proofs!TypeCorrect
<1> QED BY <1>1, <1>2, <1>3, SameTypes, PTL DEF TypesOK

-----------------------------------------------------------------------------
\* The servers of a configuration that is live are usable, whoever uses them.
THEOREM LifecycleLiveUsable == LifecycleSpec => []LiveServersUsable
BY DeploymentSteps, LiveUsable, PTL DEF LifecycleSpec, LifecycleInit, Spec

LEMMA SameReadable == Proofs!ReplyReadable => ReplyReadable
BY DEF ReplyReadable, Proofs!ReplyReadable, Publishing!ReplyReadable,
       Proofs!At, Publishing!At, Proofs!Readable, Publishing!Readable

\* Without content codings every reply that the application passes on is what
\* its headers say, whatever happens to the application.
THEOREM LifecycleReadable ==
    ASSUME Coding \subseteq {"identity"}
    PROVE  LifecycleSpec => []ReplyReadable
<1>1. LifecycleSpec => Proofs!Spec
  BY SessionsStart, SessionsStep, PTL DEF LifecycleSpec, Proofs!Spec
<1>2. Proofs!Spec => []Proofs!ReplyReadable
  <2>1. Proofs!PublicationAssumption
    BY PublicationAssumption DEF Forms, Proofs!PublicationAssumption, Proofs!Forms
  <2> QED BY <2>1, Proofs!RepliesReadable
<1> QED BY <1>1, <1>2, SameReadable, PTL

LEMMA SameTasks == Proofs!FollowsTask => FollowsTask
BY DEF FollowsTask, Proofs!FollowsTask, Publishing!FollowsTask, Proofs!At, Publishing!At

\* What is served has been loaded.
LEMMA ServesAgreed ==
    ASSUME NEW Base, Agreed(Base), IInv
    PROVE  Proofs!Consistent(Base)
<1>1. CASE up
  <2>1. live.image \in Sound
    BY <1>1 DEF IInv, LiveStarts, Starts, Sound
  <2> QED BY <1>1, <2>1 DEF Agreed, Serving, Proofs!Consistent
<1>2. CASE ~up
  BY <1>2 DEF Serving, Proofs!Consistent
<1> QED BY <1>1, <1>2

\* When the drafts agree on the base URLs, a client that follows its import is
\* answered of the very task that Galaxy has named, whatever is deployed, fails
\* and restarts meanwhile.
THEOREM LifecycleFollowsTask ==
    ASSUME NEW CONSTANT Base, Proofs!Fitting(Base), Agreed(Base)
    PROVE  LifecycleSpec => []FollowsTask
<1>1. LifecycleSpec => Proofs!Spec
  BY SessionsStart, SessionsStep, PTL DEF LifecycleSpec, Proofs!Spec
<1>2. LifecycleSpec => []Proofs!Consistent(Base)
  <2>1. LifecycleSpec => []IInv
    BY DeploymentSteps, Invariance, PTL DEF LifecycleSpec, LifecycleInit, Spec
  <2> QED BY <2>1, ServesAgreed, PTL
<1>3. Proofs!Spec /\ []Proofs!Consistent(Base) => []Proofs!FollowsTask
  <2>1. Proofs!PublicationAssumption
    BY PublicationAssumption DEF Forms, Proofs!PublicationAssumption, Proofs!Forms
  <2> QED BY <2>1, Proofs!TasksFollowed
<1> QED BY <1>1, <1>2, <1>3, SameTasks, PTL
=============================================================================
