-------------------------- MODULE DeployOutcomeProofs --------------------------
(***************************************************************************)
(* More proofs about Deploy: what runs leave behind, what their success    *)
(* means, and what they push.  Each property has its own strengthening;    *)
(* types come from DeployProofs.                                           *)
(***************************************************************************)
EXTENDS DeployProofs, FiniteSetTheorems

\* The places between making something that must go and removing it.
Holding == {"build", "tag", "health", "stop"}

\* What is there and held by no run that will remove it.
HeldFile(c) == \E d \in Run : run[d].at \in {"build", "tag"} /\ run[d].commit = c
HeldBox == \E d \in Run : run[d].at \in {"health", "stop"}
StrayFiles == {c \in reqs : ~HeldFile(c)}
StrayBoxes == {b \in {box} \ {NoBox} : ~HeldBox}
Strays == {<<"file", c>> : c \in StrayFiles} \cup {<<"container", b>> : b \in StrayBoxes}

\* A set with at most n elements.
AtMost(n, S) == IsFiniteSet(S) /\ Cardinality(S) <= n

\* The invariant: there are no more of them than kills and removals not done.
StraysCounted == AtMost(kills + slips, Strays)

LEMMA AtMostSubset ==
    ASSUME NEW n \in Nat, NEW S, AtMost(n, S), NEW T, T \subseteq S
    PROVE  AtMost(n, T)
<1>1. IsFiniteSet(T) /\ Cardinality(T) <= Cardinality(S)
  BY FS_Subset DEF AtMost
<1>2. Cardinality(T) \in Nat /\ Cardinality(S) \in Nat
  BY <1>1, FS_CardinalityType DEF AtMost
<1> QED
  BY <1>1, <1>2 DEF AtMost

LEMMA AtMostOneMore ==
    ASSUME NEW n \in Nat, NEW S, AtMost(n, S), NEW x, NEW T, T \subseteq S \cup {x}
    PROVE  AtMost(n + 1, T)
<1>1. /\ IsFiniteSet(S \cup {x})
      /\ Cardinality(S \cup {x}) = IF x \in S THEN Cardinality(S) ELSE Cardinality(S) + 1
  BY FS_AddElement DEF AtMost
<1>2. Cardinality(S) \in Nat
  BY FS_CardinalityType DEF AtMost
<1>3. AtMost(n + 1, S \cup {x})
  BY <1>1, <1>2 DEF AtMost
<1>4. n + 1 \in Nat
  OBVIOUS
<1> QED
  BY <1>3, <1>4, AtMostSubset

\* A step that leaves nothing new behind keeps the count, and so does one that leaves
\* one thing and is a kill or a removal not done.
LEMMA NoNewStray ==
    ASSUME TypeOK, StraysCounted, UNCHANGED <<kills, slips>>,
           StrayFiles' \subseteq StrayFiles, StrayBoxes' \subseteq StrayBoxes
    PROVE  StraysCounted'
<1>1. Strays' \subseteq Strays
  BY DEF Strays
<1>2. kills + slips \in Nat
  BY DeployAssumption DEF TypeOK
<1>3. AtMost(kills + slips, Strays')
  BY <1>1, <1>2, AtMostSubset DEF StraysCounted
<1> QED
  BY <1>3 DEF StraysCounted

LEMMA OneNewStray ==
    ASSUME TypeOK, StraysCounted, kills' + slips' = (kills + slips) + 1,
           NEW x, Strays' \subseteq Strays \cup {x}
    PROVE  StraysCounted'
<1>1. kills + slips \in Nat
  BY DeployAssumption DEF TypeOK
<1>2. AtMost((kills + slips) + 1, Strays')
  BY <1>1, AtMostOneMore DEF StraysCounted
<1> QED
  BY <1>2 DEF StraysCounted

OthersStay(d) == \A e \in Run \ {d} : run'[e] = run[e]

\* Every action moves one run only.
LEMMA OneMoves ==
    ASSUME TypeOK, NEW d \in Run,
           \/ \E sv \in Service, c \in Commit : Start(d, sv, c)
           \/ Step(d) \/ Fail(d) \/ Kill(d)
    PROVE  OthersStay(d)
<1>0. run \in [Run -> RunRecord]
  BY DEF TypeOK
<1>1. (\E sv \in Service, c \in Commit : Start(d, sv, c)) => OthersStay(d)
  BY <1>0 DEF Start, OthersStay
<1>2. Step(d) => OthersStay(d)
  <2>1. ASSUME NEW place, Goto(d, place) PROVE OthersStay(d)
    BY <1>0, <2>1 DEF Goto, OthersStay
  <2>2. NextSecret(d) => OthersStay(d)
    BY <1>0 DEF NextSecret, OthersStay
  <2>3. NextRole(d) => OthersStay(d)
    BY <1>0 DEF NextRole, OthersStay
  <2>4. (\E v \in Var : DescribeSecret(d, v)) \/ ListServices(d) => OthersStay(d)
    BY <1>0 DEF DescribeSecret, ListServices, OthersStay
  <2>5. KeepSecret(d) \/ EnterSecret(d) \/ SecretsDone(d) \/ DescribeRepo(d)
           \/ CreateRepo(d) \/ Export(d) \/ Build(d) \/ Tag(d) => OthersStay(d)
    BY <2>1, <2>2 DEF KeepSecret, EnterSecret, SecretsDone, DescribeRepo, CreateRepo,
       Export, Build, Tag
  <2>6. RemoveOld(d) \/ StartBox(d) \/ Healthy(d) \/ StopBox(d) \/ Push(d) \/ GetRole(d)
           \/ CreateRole(d) \/ AttachPolicy(d) \/ DeployService(d) \/ Poll(d) => OthersStay(d)
    BY <2>1, <2>3 DEF RemoveOld, StartBox, Healthy, StopBox, Push, GetRole, CreateRole,
       AttachPolicy, DeployService, Poll
  <2> QED
    BY <2>4, <2>5, <2>6 DEF Step
<1>3. Fail(d) \/ Kill(d) => OthersStay(d)
  BY <1>0 DEF Fail, Kill, Goto, OthersStay
<1> QED
  BY <1>1, <1>2, <1>3

\* The actions that have nothing to do with the machine: they start where nothing is
\* held, and touch neither the test container nor a generated file.
Elsewhere(d) ==
    \/ \E sv \in Service, c \in Commit : Start(d, sv, c)
    \/ \E v \in Var : DescribeSecret(d, v)
    \/ KeepSecret(d) \/ EnterSecret(d) \/ SecretsDone(d)
    \/ DescribeRepo(d) \/ CreateRepo(d) \/ Push(d)
    \/ GetRole(d) \/ CreateRole(d) \/ AttachPolicy(d)
    \/ ListServices(d) \/ DeployService(d) \/ Poll(d)

\* They leave what is held where it is.
LEMMA ElsewhereCounts ==
    ASSUME TypeOK, StraysCounted, NEW d \in Run, Elsewhere(d)
    PROVE  StraysCounted'
<1>1. OthersStay(d)
  BY OneMoves DEF Elsewhere, Step
<1>2. UNCHANGED <<reqs, box, kills, slips>>
  BY DEF Elsewhere, Start, DescribeSecret, KeepSecret, EnterSecret, SecretsDone,
     DescribeRepo, CreateRepo, Push, GetRole, CreateRole, AttachPolicy, ListServices,
     DeployService, Poll
<1>3. run[d].at \notin Holding
  BY DEF Elsewhere, Start, DescribeSecret, KeepSecret, EnterSecret, SecretsDone,
     DescribeRepo, CreateRepo, Push, GetRole, CreateRole, AttachPolicy, ListServices,
     DeployService, Poll, Holding, Active, Ended, At
<1>4. \A e \in Run : run[e].at \in Holding => run'[e] = run[e]
  BY <1>1, <1>3 DEF OthersStay
<1>5. (\A c : HeldFile(c) => HeldFile(c)') /\ (HeldBox => HeldBox')
  BY <1>4 DEF HeldFile, HeldBox, Holding
<1> QED
  BY <1>2, <1>5, NoNewStray DEF StrayFiles, StrayBoxes

\* The other runs hold what they held.
LEMMA OthersHold ==
    ASSUME NEW d \in Run, OthersStay(d)
    PROVE  /\ \A c : HeldFile(c) =>
                  HeldFile(c)' \/ (run[d].at \in {"build", "tag"} /\ run[d].commit = c)
           /\ HeldBox => HeldBox' \/ run[d].at \in {"health", "stop"}
  BY DEF OthersStay, HeldFile, HeldBox

\* The steps that make what must go, or hold it: it is held, by the run that moves.
LEMMA MakingCounts ==
    ASSUME TypeOK, StraysCounted, NEW d \in Run,
           Export(d) \/ Build(d) \/ Tag(d) \/ StartBox(d) \/ Healthy(d)
    PROVE  StraysCounted'
<1>0. OthersStay(d) /\ run \in [Run -> RunRecord] /\ UNCHANGED <<kills, slips>>
  BY OneMoves DEF Step, TypeOK, Export, Build, Tag, StartBox, Healthy
<1> SUFFICES StrayFiles' \subseteq StrayFiles /\ StrayBoxes' \subseteq StrayBoxes
  BY <1>0, NoNewStray
<1>1. ASSUME Export(d) PROVE StrayFiles' \subseteq StrayFiles /\ StrayBoxes' \subseteq StrayBoxes
  <2>1. run'[d].at = "build" /\ run'[d].commit = run[d].commit
    BY <1>0, <1>1, GotoMoves DEF Export, Place, Building
  <2>2. run[d].at = "export" /\ reqs' = reqs \cup {run[d].commit} /\ box' = box
    BY <1>1 DEF Export, At
  <2>3. \A c : c = run[d].commit => HeldFile(c)'
    BY <2>1 DEF HeldFile
  <2> QED
    BY <1>0, <2>2, <2>3, OthersHold DEF StrayFiles, StrayBoxes
<1>2. ASSUME Build(d) PROVE StrayFiles' \subseteq StrayFiles /\ StrayBoxes' \subseteq StrayBoxes
  <2>1. run'[d].at = "tag" /\ run'[d].commit = run[d].commit
    BY <1>0, <1>2, GotoMoves DEF Build, Place, Building
  <2>2. run[d].at = "build" /\ reqs' = reqs /\ box' = box
    BY <1>2 DEF Build, At
  <2>3. \A c : HeldFile(c) => HeldFile(c)'
    <3>1. \A c : c = run[d].commit => HeldFile(c)'
      BY <2>1 DEF HeldFile
    <3> QED
      BY <1>0, <3>1, OthersHold
  <2>4. HeldBox => HeldBox'
    BY <1>0, <2>2, OthersHold
  <2> QED
    BY <2>2, <2>3, <2>4 DEF StrayFiles, StrayBoxes
<1>3. ASSUME Tag(d) PROVE StrayFiles' \subseteq StrayFiles /\ StrayBoxes' \subseteq StrayBoxes
  <2>1. run[d].at = "tag" /\ reqs' = reqs \ {run[d].commit} /\ box' = box
    BY <1>3 DEF Tag, At
  <2>2. \A c : HeldFile(c) => HeldFile(c)' \/ c = run[d].commit
    BY <1>0, OthersHold
  <2>3. HeldBox => HeldBox'
    BY <1>0, <2>1, OthersHold
  <2> QED
    BY <2>1, <2>2, <2>3 DEF StrayFiles, StrayBoxes
<1>4. ASSUME StartBox(d) PROVE StrayFiles' \subseteq StrayFiles /\ StrayBoxes' \subseteq StrayBoxes
  <2>1. run'[d].at = "health"
    BY <1>0, <1>4, GotoMoves DEF StartBox, Place, Testing
  <2>2. run[d].at = "start" /\ reqs' = reqs
    BY <1>4 DEF StartBox, At
  <2>3. HeldBox'
    BY <2>1 DEF HeldBox
  <2> QED
    BY <1>0, <2>2, <2>3, OthersHold DEF StrayFiles, StrayBoxes
<1>5. ASSUME Healthy(d) PROVE StrayFiles' \subseteq StrayFiles /\ StrayBoxes' \subseteq StrayBoxes
  <2>1. run'[d].at = "stop"
    BY <1>0, <1>5, GotoMoves DEF Healthy, Place, Testing
  <2>2. run[d].at = "health" /\ reqs' = reqs /\ box' = box
    BY <1>5 DEF Healthy, At
  <2>3. HeldBox'
    BY <2>1 DEF HeldBox
  <2> QED
    BY <1>0, <2>2, <2>3, OthersHold DEF StrayFiles, StrayBoxes
<1> QED
  BY <1>1, <1>2, <1>3, <1>4, <1>5

\* Removing the test container: it is gone, or it is one more that is left.
LEMMA RemoveBoxCounts ==
    ASSUME TypeOK, StraysCounted, NEW d \in Run, OthersStay(d), RemoveBox,
           run[d].at \notin {"build", "tag"}, UNCHANGED <<reqs, kills>>
    PROVE  StraysCounted'
<1>0. slips \in Nat /\ kills \in Nat
  BY DeployAssumption DEF TypeOK
<1>1. StrayFiles' \subseteq StrayFiles
  BY OthersHold DEF StrayFiles
<1>2. CASE box' = NoBox /\ UNCHANGED slips
  <2>1. StrayBoxes' = {}
    BY <1>2 DEF StrayBoxes
  <2> QED
    BY <1>1, <1>2, <2>1, NoNewStray
<1>3. CASE slips' = slips + 1 /\ UNCHANGED box
  <2>1. Strays' \subseteq Strays \cup {<<"container", box>>}
    BY <1>1, <1>3 DEF Strays, StrayBoxes
  <2>2. kills' + slips' = (kills + slips) + 1
    BY <1>0, <1>3
  <2> QED
    BY <2>1, <2>2, OneNewStray
<1> QED
  BY <1>2, <1>3 DEF RemoveBox

LEMMA RemoveFileCounts ==
    ASSUME TypeOK, StraysCounted, NEW d \in Run, OthersStay(d), RemoveFile(run[d].commit),
           run[d].at \notin {"health", "stop"}, UNCHANGED <<box, kills>>
    PROVE  StraysCounted'
<1>0. slips \in Nat /\ kills \in Nat
  BY DeployAssumption DEF TypeOK
<1>1. StrayBoxes' \subseteq StrayBoxes
  BY OthersHold DEF StrayBoxes
<1>2. CASE reqs' = reqs \ {run[d].commit} /\ UNCHANGED slips
  <2>1. StrayFiles' \subseteq StrayFiles
    BY <1>2, OthersHold DEF StrayFiles
  <2> QED
    BY <1>1, <1>2, <2>1, NoNewStray
<1>3. CASE slips' = slips + 1 /\ UNCHANGED reqs
  <2>1. StrayFiles' \subseteq StrayFiles \cup {run[d].commit}
    BY <1>3, OthersHold DEF StrayFiles
  <2>2. Strays' \subseteq Strays \cup {<<"file", run[d].commit>>}
    BY <1>1, <2>1 DEF Strays
  <2>3. kills' + slips' = (kills + slips) + 1
    BY <1>0, <1>3
  <2> QED
    BY <2>2, <2>3, OneNewStray
<1> QED
  BY <1>2, <1>3 DEF RemoveFile

\* A failure passes through the finally block it is in, if it is in one.
LEMMA FailCounts ==
    ASSUME TypeOK, StraysCounted, NEW d \in Run, Fail(d)
    PROVE  StraysCounted'
<1>0. OthersStay(d) /\ UNCHANGED kills
  BY OneMoves DEF Fail
<1>1. CASE run[d].at \in Building /\ RemoveFile(run[d].commit) /\ UNCHANGED box
  BY <1>0, <1>1, RemoveFileCounts DEF Building
<1>2. CASE run[d].at \in Testing /\ RemoveBox /\ UNCHANGED reqs
  BY <1>0, <1>2, RemoveBoxCounts DEF Testing
<1>3. CASE run[d].at \notin Building \cup Testing /\ UNCHANGED <<reqs, box, slips>>
  <2>1. run[d].at \notin {"build", "tag"} /\ run[d].at \notin {"health", "stop"}
    BY <1>3 DEF Building, Testing
  <2>2. StrayFiles' \subseteq StrayFiles /\ StrayBoxes' \subseteq StrayBoxes
    BY <1>0, <1>3, <2>1, OthersHold DEF StrayFiles, StrayBoxes
  <2> QED
    BY <1>0, <1>3, <2>2, NoNewStray
<1> QED
  BY <1>1, <1>2, <1>3 DEF Fail

\* A kill leaves the one thing the run held.
LEMMA KillCounts ==
    ASSUME TypeOK, StraysCounted, NEW d \in Run, Kill(d)
    PROVE  StraysCounted'
<1>0. /\ OthersStay(d) /\ UNCHANGED <<reqs, box, slips>> /\ kills' = kills + 1
      /\ kills \in Nat /\ slips \in Nat
  BY OneMoves, DeployAssumption DEF Kill, TypeOK
<1>1. kills' + slips' = (kills + slips) + 1
  BY <1>0
<1>2. CASE run[d].at \in {"build", "tag"}
  <2>1. StrayFiles' \subseteq StrayFiles \cup {run[d].commit}
    BY <1>0, OthersHold DEF StrayFiles
  <2>2. StrayBoxes' \subseteq StrayBoxes
    BY <1>0, <1>2, OthersHold DEF StrayBoxes
  <2>3. Strays' \subseteq Strays \cup {<<"file", run[d].commit>>}
    BY <2>1, <2>2 DEF Strays
  <2> QED
    BY <1>1, <2>3, OneNewStray
<1>3. CASE run[d].at \notin {"build", "tag"}
  <2>1. StrayFiles' \subseteq StrayFiles
    BY <1>0, <1>3, OthersHold DEF StrayFiles
  <2>2. StrayBoxes' \subseteq {box}
    BY <1>0 DEF StrayBoxes
  <2>3. Strays' \subseteq Strays \cup {<<"container", box>>}
    BY <2>1, <2>2 DEF Strays
  <2> QED
    BY <1>1, <2>3, OneNewStray
<1> QED
  BY <1>2, <1>3

\* However runs overlap, fail and are repeated: when none is active, the machine holds no
\* more of what they make than there were kills and removals that were not done.
THEOREM LeftoversAreExplained == Spec => []LeftoversExplained
<1>1. Init => StraysCounted
  <2>1. Init => Strays = {} /\ kills + slips = 0
    BY DEF Init, Strays, StrayFiles, StrayBoxes
  <2> QED
    BY <2>1, FS_EmptySet DEF StraysCounted, AtMost
<1>2. TypeOK /\ StraysCounted /\ [Next]_vars => StraysCounted'
  <2> SUFFICES ASSUME TypeOK, StraysCounted, [Next]_vars
               PROVE  StraysCounted'
    OBVIOUS
  <2>1. ASSUME NEW d \in Run, RemoveOld(d) \/ StopBox(d)
        PROVE  StraysCounted'
    <3>1. OthersStay(d)
      BY <2>1, OneMoves DEF Step
    <3>2. RemoveBox /\ UNCHANGED <<reqs, kills>> /\ run[d].at \notin {"build", "tag"}
      BY <2>1 DEF RemoveOld, StopBox, At
    <3> QED
      BY <3>1, <3>2, RemoveBoxCounts
  <2>2. ASSUME NEW d \in Run, Step(d) \/ (\E sv \in Service, c \in Commit : Start(d, sv, c))
        PROVE  StraysCounted'
    BY <2>1, <2>2, ElsewhereCounts, MakingCounts DEF Step, Elsewhere
  <2>3. ASSUME UNCHANGED <<run, reqs, box, kills, slips>>
        PROVE  StraysCounted'
    BY <2>3 DEF StraysCounted, Strays, StrayFiles, StrayBoxes, HeldFile, HeldBox
  <2>4. UNCHANGED vars \/ (\E sv \in Service : EndOperation(sv))
           => UNCHANGED <<run, reqs, box, kills, slips>>
    BY DEF vars, EndOperation
  <2> QED
    BY <2>2, <2>3, <2>4, FailCounts, KillCounts DEF Next
<1>3. TypeOK /\ StraysCounted => LeftoversExplained
  <2> SUFFICES ASSUME TypeOK, StraysCounted, \A d \in Run : ~Active(d)
               PROVE  Cardinality(Leftovers) <= kills + slips
    BY DEF LeftoversExplained
  <2>1. ~HeldBox /\ \A c : ~HeldFile(c)
    BY DEF HeldBox, HeldFile, Active, Ended
  <2>2. Strays = Leftovers
    BY <2>1 DEF Strays, StrayFiles, StrayBoxes, Leftovers
  <2> QED
    BY <2>2 DEF StraysCounted, AtMost
<1> QED
  BY <1>1, <1>2, <1>3, TypeCorrect, PTL DEF Spec
-----------------------------------------------------------------------------
\* A run that has deployed its service finds there, unless another has deployed it since,
\* its own commit or the one to which that is rolled back.
Owned(d) ==
    LET s == service[run[d].srv]
    IN  At(d, "wait") \/ At(d, "done") =>
            /\ run[d].srv \in DOMAIN service
            /\ s.by = d => /\ s.commit \in {run[d].commit, s.before}
                           /\ At(d, "done") => s.status = "RUNNING"

\* A run that does not move stays right about its service while its deployment stands.
LEMMA OwnedKept ==
    ASSUME NEW d \in Run, Owned(d), run'[d] = run[d],
           DOMAIN service \subseteq DOMAIN service',
           \A s \in DOMAIN service : service'[s].by = d => service'[s] = service[s]
    PROVE  Owned(d)'
  BY DEF Owned, At

\* Going on, to anywhere but the end, with the service not asked for yet.
LEMMA OwnedMoves ==
    ASSUME NEW d \in Run, run'[d].at \notin {"wait", "done"}
    PROVE  Owned(d)'
  BY DEF Owned, At

\* Nearly every step leaves the services alone and the run short of its end.
LEMMA StepsOn ==
    ASSUME TypeOK, NEW d \in Run, Step(d) \/ Fail(d) \/ Kill(d),
           ~DeployService(d), ~Poll(d)
    PROVE  service' = service /\ run'[d].at \notin {"wait", "done"}
<1> DEFINE On == run'[d].at \notin {"wait", "done"}
<1>0. run \in [Run -> RunRecord]
  BY DEF TypeOK
<1>1. ASSUME NEW place, place \notin {"wait", "done"}, Goto(d, place) PROVE On
  BY <1>0, <1>1 DEF Goto, RunRecord
<1>2. NextSecret(d) => On
  BY <1>0 DEF NextSecret, RunRecord
<1>3. NextRole(d) => On
  BY <1>0, NextRoleMoves
<1>4. (\E v \in Var : DescribeSecret(d, v)) \/ ListServices(d) => On
  <2>1. ASSUME NEW v \in Var, DescribeSecret(d, v) PROVE On
    <3>1. run'[d] = [run[d] EXCEPT !.at = "prompt", !.var = v, !.found = v \in DOMAIN secret]
      BY <1>0, <2>1 DEF DescribeSecret
    <3> QED
      BY <1>0, <3>1 DEF RunRecord
  <2>2. ASSUME ListServices(d) PROVE On
    <3>1. run'[d] = [run[d] EXCEPT !.at = "deploy", !.found = run[d].srv \in DOMAIN service]
      BY <1>0, <2>2 DEF ListServices
    <3> QED
      BY <1>0, <3>1 DEF RunRecord
  <2> QED
    BY <2>1, <2>2
<1>5. KeepSecret(d) \/ EnterSecret(d) \/ SecretsDone(d) \/ DescribeRepo(d)
         \/ CreateRepo(d) \/ Export(d) \/ Build(d) \/ Tag(d) => On
  BY <1>1, <1>2 DEF KeepSecret, EnterSecret, SecretsDone, DescribeRepo, CreateRepo,
     Export, Build, Tag
<1>6. RemoveOld(d) \/ StartBox(d) \/ Healthy(d) \/ StopBox(d) \/ Push(d) \/ GetRole(d)
         \/ CreateRole(d) \/ AttachPolicy(d) \/ Fail(d) \/ Kill(d) => On
  BY <1>1, <1>3 DEF RemoveOld, StartBox, Healthy, StopBox, Push, GetRole, CreateRole,
     AttachPolicy, Fail, Kill
<1>7. service' = service
  BY DEF Step, DescribeSecret, KeepSecret, EnterSecret, SecretsDone, DescribeRepo,
     CreateRepo, Export, Build, Tag, RemoveOld, StartBox, Healthy, StopBox, Push, GetRole,
     CreateRole, AttachPolicy, ListServices, Fail, Kill, aws
<1> QED
  BY <1>4, <1>5, <1>6, <1>7 DEF Step

\* A deployment is the run's own from then on, and no longer another's.
LEMMA DeployServiceOwned ==
    ASSUME TypeOK, \A e \in Run : Owned(e), NEW d \in Run, DeployService(d)
    PROVE  \A e \in Run : Owned(e)'
<1>0. run \in [Run -> RunRecord] /\ Goto(d, "wait") /\ "wait" \in Place
  BY DEF TypeOK, DeployService, Place
<1>1. /\ DOMAIN service' = DOMAIN service \cup {run[d].srv}
      /\ service'[run[d].srv].commit = run[d].commit
      /\ service'[run[d].srv].by = d
      /\ \A s \in DOMAIN service : s # run[d].srv => service'[s] = service[s]
  BY DEF DeployService, Put
<1>2. Owned(d)'
  BY <1>0, <1>1, GotoMoves DEF Owned, At
<1>3. ASSUME NEW e \in Run, e # d PROVE Owned(e)'
  <2>1. \A s \in DOMAIN service : service'[s].by = e => service'[s] = service[s]
    BY <1>1, <1>3
  <2>2. run'[e] = run[e]
    BY <1>0, <1>3 DEF Goto
  <2> QED
    BY <1>1, <2>1, <2>2, OwnedKept
<1> QED
  BY <1>2, <1>3

\* App Runner ends an operation with what it was given or with what was there before.
LEMMA EndOperationOwned ==
    ASSUME TypeOK, \A e \in Run : Owned(e), NEW sv \in Service, EndOperation(sv)
    PROVE  \A e \in Run : Owned(e)'
<1>1. \A s \in DOMAIN service : service[s] \in ServiceRecord
  BY DEF TypeOK
<1>2. /\ run' = run /\ DOMAIN service' = DOMAIN service
      /\ sv \in DOMAIN service /\ service[sv].status = InProgress
      /\ \A s \in DOMAIN service \ {sv} : service'[s] = service[s]
  BY DEF EndOperation
<1>3. /\ service'[sv].by = service[sv].by /\ service'[sv].before = service[sv].before
      /\ service'[sv].commit \in {service[sv].commit, service[sv].before}
  BY <1>1, <1>2 DEF EndOperation, ServiceRecord
<1>4. ASSUME NEW e \in Run PROVE Owned(e)'
  <2>1. Owned(e)
    OBVIOUS
  <2>2. CASE run[e].srv = sv
    BY <1>2, <1>3, <2>1, <2>2 DEF Owned, At, InProgress
  <2>3. CASE run[e].srv # sv
    BY <1>2, <2>1, <2>3 DEF Owned, At
  <2> QED
    BY <2>2, <2>3
<1> QED
  BY <1>4

\* Whoever deploys what, no run reports a success that is not that of its own deployment
\* or of its rollback, unless another run has deployed the service since.
THEOREM SuccessesAreOurs == Spec => []SuccessIsOurs
<1> DEFINE AllOwned == \A d \in Run : Owned(d)
<1>1. Init => AllOwned
  BY DEF Init, Owned, At
<1>2. TypeOK /\ AllOwned /\ [Next]_vars => AllOwned'
  <2> SUFFICES ASSUME TypeOK, AllOwned, [Next]_vars
               PROVE  AllOwned'
    OBVIOUS
  <2>0. run \in [Run -> RunRecord]
    BY DEF TypeOK
  <2>1. ASSUME NEW d \in Run, Step(d) \/ Fail(d) \/ Kill(d), ~DeployService(d), ~Poll(d)
        PROVE  AllOwned'
    <3>1. OthersStay(d)
      BY <2>1, OneMoves
    <3>2. Owned(d)'
      BY <2>1, StepsOn, OwnedMoves
    <3>3. \A e \in Run \ {d} : Owned(e)'
      BY <2>1, <3>1, StepsOn, OwnedKept DEF OthersStay
    <3> QED
      BY <3>2, <3>3
  <2>2. ASSUME NEW d \in Run, DeployService(d) PROVE AllOwned'
    BY <2>2, DeployServiceOwned
  <2>3. ASSUME NEW d \in Run, Poll(d) PROVE AllOwned'
    <3>1. Goto(d, "done") /\ "done" \in Place /\ At(d, "wait")
      BY <2>3 DEF Poll, Place, Ended
    <3>2. service' = service /\ service[run[d].srv].status = "RUNNING"
      BY <2>3 DEF Poll, aws
    <3>3. Owned(d)'
      BY <2>0, <3>1, <3>2, GotoMoves DEF Owned, At
    <3>4. \A e \in Run \ {d} : Owned(e)'
      BY <2>0, <3>1, <3>2, OwnedKept DEF Goto
    <3> QED
      BY <3>3, <3>4
  <2>4. ASSUME NEW d \in Run, NEW sv \in Service, NEW c \in Commit, Start(d, sv, c)
        PROVE  AllOwned'
    <3>1. service' = service /\ OthersStay(d) /\ run'[d].at = "secrets"
      BY <2>0, <2>4 DEF Start, aws, OthersStay
    <3>2. Owned(d)'
      BY <3>1, OwnedMoves
    <3>3. \A e \in Run \ {d} : Owned(e)'
      BY <3>1, OwnedKept DEF OthersStay
    <3> QED
      BY <3>2, <3>3
  <2>5. ASSUME NEW sv \in Service, EndOperation(sv) PROVE AllOwned'
    BY <2>5, EndOperationOwned
  <2>6. CASE UNCHANGED vars
    BY <2>6, OwnedKept DEF vars, aws
  <2> QED
    BY <2>1, <2>2, <2>3, <2>4, <2>5, <2>6 DEF Next
<1>3. AllOwned => SuccessIsOurs
  BY DEF Owned, SuccessIsOurs, At
<1> QED
  BY <1>1, <1>2, <1>3, TypeCorrect, PTL DEF Spec
-----------------------------------------------------------------------------
\* With one run at a time, the container that is asked is the run's own.
OneRun == \A d, e \in Run : d = e

Tested(d) ==
    /\ At(d, "health") => box = run[d].commit
    /\ run[d].at \in {"stop", "push"} => run[d].commit \notin Broken

\* All other steps lead away from the test and push nothing.
LEMMA Untested ==
    ASSUME TypeOK, NEW d \in Run,
           \/ \E sv \in Service, c \in Commit : Start(d, sv, c)
           \/ Step(d) \/ Fail(d) \/ Kill(d),
           ~StartBox(d), ~Healthy(d), ~StopBox(d), ~Push(d)
    PROVE  image' = image /\ run'[d].at \notin {"health", "stop", "push"}
<1> DEFINE Away == run'[d].at \notin {"health", "stop", "push"}
<1>0. run \in [Run -> RunRecord]
  BY DEF TypeOK
<1>1. ASSUME NEW place, place \notin {"health", "stop", "push"}, Goto(d, place) PROVE Away
  BY <1>0, <1>1 DEF Goto, RunRecord
<1>2. NextSecret(d) => Away
  BY <1>0, NextSecretMoves
<1>3. NextRole(d) => Away
  BY <1>0, NextRoleMoves
<1>4. ASSUME NEW v \in Var, DescribeSecret(d, v) PROVE Away
  <2>1. run'[d] = [run[d] EXCEPT !.at = "prompt", !.var = v, !.found = v \in DOMAIN secret]
    BY <1>0, <1>4 DEF DescribeSecret
  <2> QED
    BY <1>0, <2>1 DEF RunRecord
<1>5. ASSUME ListServices(d) PROVE Away
  <2>1. run'[d] = [run[d] EXCEPT !.at = "deploy", !.found = run[d].srv \in DOMAIN service]
    BY <1>0, <1>5 DEF ListServices
  <2> QED
    BY <1>0, <2>1 DEF RunRecord
<1>6. ASSUME NEW sv \in Service, NEW c \in Commit, Start(d, sv, c) PROVE Away
  BY <1>0, <1>6 DEF Start
<1>7. KeepSecret(d) \/ EnterSecret(d) \/ SecretsDone(d) \/ DescribeRepo(d)
         \/ CreateRepo(d) \/ Export(d) \/ Build(d) \/ Tag(d) => Away
  BY <1>1, <1>2 DEF KeepSecret, EnterSecret, SecretsDone, DescribeRepo, CreateRepo,
     Export, Build, Tag
<1>8. RemoveOld(d) \/ GetRole(d) \/ CreateRole(d) \/ AttachPolicy(d) \/ DeployService(d)
         \/ Poll(d) \/ Fail(d) \/ Kill(d) => Away
  BY <1>1, <1>3 DEF RemoveOld, GetRole, CreateRole, AttachPolicy, DeployService, Poll,
     Fail, Kill
<1>9. image' = image
  BY DEF Step, Start, DescribeSecret, KeepSecret, EnterSecret, SecretsDone, DescribeRepo,
     CreateRepo, Export, Build, Tag, RemoveOld, GetRole, CreateRole, AttachPolicy,
     ListServices, DeployService, Poll, Fail, Kill, aws
<1> QED
  BY <1>4, <1>5, <1>6, <1>7, <1>8, <1>9 DEF Step

\* One run after the other, whatever interrupts them, only images that passed the health
\* check are pushed.  With two at a time this is false: the port may be answered
\* by the other run's container.
THEOREM OnePushesHealthy == OneRun => (Spec => []PushedIsHealthy)
<1> SUFFICES ASSUME OneRun PROVE Spec => []PushedIsHealthy
  OBVIOUS
<1> DEFINE TInv == PushedIsHealthy /\ \A d \in Run : Tested(d)
<1>1. Init => TInv
  BY DEF Init, PushedIsHealthy, Tested, At
<1>2. TypeOK /\ TInv /\ [Next]_vars => TInv'
  <2> SUFFICES ASSUME TypeOK, TInv, [Next]_vars
               PROVE  TInv'
    OBVIOUS
  <2>0. run \in [Run -> RunRecord]
    BY DEF TypeOK
  <2>1. ASSUME NEW d \in Run, Tested(d)', PushedIsHealthy' PROVE TInv'
    BY <2>1 DEF OneRun
  <2>2. ASSUME NEW d \in Run,
               \/ \E sv \in Service, c \in Commit : Start(d, sv, c)
               \/ Step(d) \/ Fail(d) \/ Kill(d),
               ~StartBox(d), ~Healthy(d), ~StopBox(d), ~Push(d)
        PROVE  TInv'
    BY <2>1, <2>2, Untested DEF Tested, At, PushedIsHealthy
  <2>3. ASSUME NEW d \in Run, StartBox(d) PROVE TInv'
    BY <2>0, <2>1, <2>3, GotoMoves
    DEF StartBox, Tested, At, PushedIsHealthy, aws, Place, Testing
  <2>4. ASSUME NEW d \in Run, Healthy(d) PROVE TInv'
    BY <2>0, <2>1, <2>4, GotoMoves
    DEF Healthy, Tested, At, PushedIsHealthy, aws, Place, Testing
  <2>5. ASSUME NEW d \in Run, StopBox(d) PROVE TInv'
    BY <2>0, <2>1, <2>5, GotoMoves DEF StopBox, Tested, At, PushedIsHealthy, aws, Place
  <2>6. ASSUME NEW d \in Run, Push(d) PROVE TInv'
    <3>1. Tested(d)'
      BY <2>0, <2>6, GotoMoves DEF Push, Tested, At, Place
    <3>2. PushedIsHealthy'
      BY <2>6 DEF Push, Tested, At, PushedIsHealthy
    <3> QED
      BY <2>1, <3>1, <3>2
  <2>7. ASSUME UNCHANGED <<run, box, image>> PROVE TInv'
    BY <2>7 DEF Tested, At, PushedIsHealthy
  <2>8. UNCHANGED vars \/ (\E sv \in Service : EndOperation(sv))
           => UNCHANGED <<run, box, image>>
    BY DEF vars, aws, EndOperation
  <2> QED
    BY <2>2, <2>3, <2>4, <2>5, <2>6, <2>7, <2>8 DEF Next
<1> QED
  BY <1>1, <1>2, TypeCorrect, PTL DEF Spec
=============================================================================
