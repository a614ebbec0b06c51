-------------------- MODULE NFReconfigController_proofs --------------------
(* Theorems about NFReconfigController, for every clusterInfo and every     *)
(* value of the bounds.                                                     *)
EXTENDS NFReconfigController, TLAPS

(***************************************************************************)
(* Why the safety properties hold: an inductive invariant.                 *)
(***************************************************************************)

(* Where a run is says which handler it is in and what it works on. *)
RunInv ==
  /\ run.pc = "idle" => run = Idle
  /\ run.pc # "idle" => run.ips \in Specs
  /\ run.entry \in 0 .. Len(ClusterInfo)
  /\ run.pc \in {"update", "push"} \union AfterPush => Current \in Manifests
  /\ run.pc = "push" => run.ips \in Assignments
  /\ run.pc \in {"initClient", "createApp", "getTargetClient", "syncTarget"} =>
       run.type = "NFDeployment"
  /\ run.pc = "syncTarget" => ClusterInfo[run.entry].target # None
  /\ run.pc \in {"deleteConfig", "deleteConfigPods", "next", "sync"} =>
       run.type = "ConfigRef"
  /\ run.type = "NFDeployment" /\ run.pc \notin {"idle", "initClient"} =>
       IsTargetEntry(run.entry)
  /\ run.type = "ConfigRef" /\ run.pc = "clone" =>
       run.entry \in Entries /\ IsDependent(run.entry)

(* A run has told the CU before it turns to the DUs and CU-UPs, and has     *)
(* pushed a manifest before it touches the workload.                        *)
FollowInv ==
  /\ run.pc \in AfterPush => run.ips \in told[Current]
  /\ run.type = "ConfigRef" =>
       \E t \in Manifests : t[2] = "NFDeployment" /\ run.ips \in told[t]

(* A run that has pushed a manifest and not yet begun to delete still owes  *)
(* the manifest's teardown.                                                 *)
Owing ==
  \/ run.pc \in {"getClient", "deleteConfig"}
  \/ run.pc = "deleteNF" /\ run.type = "NFDeployment"

Owes(m) == Owing /\ m = Current

TeardownInv ==
  \A m \in Manifests :
    teardowns[m] + (IF Owes(m) THEN 1 ELSE 0) <= pushes[m]

(* While the branch is where it was cloned, the clone differs from it in    *)
(* what the run rewrote, and in nothing else.                               *)
Expected(f) ==
  IF run.pc = "push" /\ f \in OwnFiles(run.entry, run.type)
  THEN Rewrite(head[f], run.ips)
  ELSE head[f]

CloneInv ==
  run.pc \in {"update", "push"} =>
    /\ run.base <= rev[CurrentRepo]
    /\ rev[CurrentRepo] = run.base =>
         /\ \A f \in Files : RepoOf(f) = CurrentRepo => run.tree[f] = Expected(f)
         /\ run.pc = "push" /\ run.dirty =>
              \E f \in OwnFiles(run.entry, run.type) : Expected(f) # head[f]

(* Every commit still to come has been asked for: the assignment a run      *)
(* works with, the cached one and the one in the API server can each make   *)
(* the manifest dirty once more, and only if they are new.                  *)
CommitsToCome(m) ==
  (IF Stale(m, Working) THEN 1 ELSE 0)
    + (IF Working # cached THEN 1 ELSE 0)
    + (IF cached # nfr THEN 1 ELSE 0)

CommitInv ==
  \A m \in Manifests : pushes[m] + CommitsToCome(m) <= edits + foreign

(* Without faults, the CU is gone from its cluster once its Application is  *)
(* about to be created, and nothing there is ever synced.                   *)
OneCUInv ==
  \A e \in Entries : SeparateTarget(e) =>
    /\ ClusterInfo[e].name \notin ops
    /\ ClusterInfo[e].name \notin run.apps
    /\ faults = 0 /\ "NFDeployment" \in alive[e] =>
         /\ ~ migrated
         /\ appFiles = 0
         /\ run.type = "NFDeployment" =>
              run.pc \notin {"deletePods", "createApp", "getTargetClient", "syncTarget"}

-----------------------------------------------------------------------------
(* What the assumptions say of the elements of clusterInfo and the files. *)
LEMMA EntryTypes ==
  /\ \A e \in Entries : /\ ClusterInfo[e] \in EntryRecord
                        /\ ClusterInfo[e].name \in ClusterNames
                        /\ ClusterInfo[e].repo \in ClusterNames
                        /\ ClusterInfo[e].target \in ClusterNames \union {None}
  /\ Len(ClusterInfo) \in Nat
  /\ \A f \in Files : f[1] \in Entries /\ RepoOf(f) \in ClusterNames
  /\ Manifests \subseteq Files
  /\ \A m \in Manifests : m = <<m[1], m[2]>> /\ m[2] \in ManifestTypes
<1>1. ClusterInfo \in Seq(EntryRecord)
  BY ClusterInfoAssumption
<1>2. \A e \in Entries : ClusterInfo[e] \in EntryRecord
  BY <1>1 DEF Entries
<1>3. Len(ClusterInfo) \in Nat
  BY <1>1
<1>4. \A f \in Files : f[1] \in Entries
  BY DEF Files
<1>5. \A m \in Manifests : m = <<m[1], m[2]>> /\ m[2] \in ManifestTypes
  BY DEF Manifests, Files, ManifestTypes
<1>6. Manifests \subseteq Files
  BY DEF Manifests
<1> QED
  BY <1>2, <1>3, <1>4, <1>5, <1>6 DEF EntryRecord, RepoOf

(* The manifests a run may be at: the CU's, and those of its dependents. *)
LEMMA CurrentManifests ==
  /\ \A e : IsTargetEntry(e) /\ e # 0 => <<e, "NFDeployment">> \in Manifests
  /\ \A e \in Entries : IsDependent(e) => <<e, "ConfigRef">> \in Manifests
BY DEF IsTargetEntry, IsDependent, Manifests, Files, ManifestTypes

-----------------------------------------------------------------------------
(* The local variables of a run are never other than the code declares. *)
LEMMA IdleType == Idle \in Runs /\ Idle.pc = "idle" /\ Idle.entry = 0
                  /\ Idle.type = "NFDeployment" /\ Idle.apps = {}
                  /\ Idle.ips = None
<1>1. EmptyTree \in [Files -> Contents]
  BY DEF EmptyTree, Contents
<1> QED
  BY <1>1 DEF Idle, Runs, ManifestTypes, Locations

TypeInv == TypeOK /\ RunInv

(* The initial state has the types and a run that is idle. *)
LEMMA InitTypeInv == Init => TypeInv
<1> SUFFICES ASSUME Init PROVE TypeInv
  OBVIOUS
<1>1. head \in [Files -> Contents]
  BY ContentsAssumption DEF Init
<1>2. \A e \in Entries : Workload(e) \subseteq Kinds
  BY DEF Workload, Kinds
<1>3. TypeOK
  BY <1>1, <1>2, IdleType DEF Init, TypeOK
<1>4. RunInv
  BY EntryTypes, IdleType DEF Init, RunInv, AfterPush
<1> QED
  BY <1>3, <1>4 DEF TypeInv

(* A step that only moves a run on. *)
LEMMA GotoFields ==
  ASSUME run \in Runs, NEW l \in Locations, run' = [run EXCEPT !.pc = l]
  PROVE  /\ run' \in Runs
         /\ run'.pc = l
         /\ run'.type = run.type
         /\ run'.entry = run.entry
         /\ run'.ips = run.ips
         /\ run'.apps = run.apps
         /\ run'.tree = run.tree
         /\ run'.base = run.base
         /\ run'.dirty = run.dirty
BY DEF Runs

(* Counting in a function of counters. *)
LEMMA Increment ==
  ASSUME NEW S, NEW f \in [S -> Nat], NEW x \in S
  PROVE  /\ [f EXCEPT ![x] = @ + 1] \in [S -> Nat]
         /\ [f EXCEPT ![x] = @ + 1][x] = f[x] + 1
         /\ \A y \in S \ {x} : [f EXCEPT ![x] = @ + 1][y] = f[y]
<1>1. f[x] + 1 \in Nat
  OBVIOUS
<1> QED
  BY <1>1

(* The variables that say how the controller itself goes on, and the rest. *)
ControlTypes == run \in Runs /\ queued \in BOOLEAN /\ faults \in Nat

DataTypes ==
  /\ nfr \in Specs \union {Deleted}
  /\ cached \in Specs \union {Deleted}
  /\ edits \in Nat
  /\ client \in {"nil", "uninitialized", "valid", "revoked"}
  /\ head \in [Files -> Contents]
  /\ rev \in [ClusterNames -> Nat]
  /\ foreign \in Nat
  /\ alive \in [Entries -> SUBSET Kinds]
  /\ appFiles \in Nat
  /\ ops \in SUBSET ClusterNames
  /\ migrated \in BOOLEAN
  /\ told \in [Manifests -> SUBSET Assignments]
  /\ pushes \in [Manifests -> Nat]
  /\ teardowns \in [Manifests -> Nat]

(* TypeOK, split into what the run changes itself and the rest. *)
LEMMA TypeParts == TypeOK <=> ControlTypes /\ DataTypes
BY DEF TypeOK, ControlTypes, DataTypes

(* A step of the run that calls nobody leaves the rest as it is. *)
LEMMA DataFrame ==
  ASSUME DataTypes, UNCHANGED <<apiVars, client, gitVars, clusterVars, historyVars>>
  PROVE  DataTypes'
BY DEF DataTypes, apiVars, gitVars, clusterVars, historyVars

(* Faults are counted, not undone. *)
LEMMA FaultTypes ==
  ASSUME faults \in Nat, Fault \/ NoFault
  PROVE  faults' \in Nat
<1>1. faults' = faults \/ faults' = faults + 1
  BY Zenon DEF Fault, NoFault
<1> QED
  BY <1>1

(* A deletion, lost or not, leaves a set of kinds for every element. *)
LEMMA LostDeleteTypes ==
  ASSUME alive \in [Entries -> SUBSET Kinds], faults \in Nat, NEW k,
         alive' = Without(k) \/ UNCHANGED alive \/ LostDelete(k)
  PROVE  alive' \in [Entries -> SUBSET Kinds]
<1>1. Without(k) \in [Entries -> SUBSET Kinds]
  BY DEF Without
<1> QED
  BY <1>1 DEF LostDelete

(* A run that is over satisfies what is asked of runs. *)
LEMMA IdleRunInv ==
  ASSUME run' = Idle
  PROVE  run' \in Runs /\ RunInv'
BY IdleType, EntryTypes DEF RunInv, AfterPush, Current

(* The same for a run that returns, whatever becomes of its key. *)
LEMMA ReturnTypes ==
  ASSUME queued \in BOOLEAN, NEW b \in BOOLEAN, Return(b)
  PROVE  run' \in Runs /\ RunInv' /\ queued' \in BOOLEAN
<1>1. run' \in Runs /\ RunInv'
  BY IdleRunInv DEF Return
<1>2. queued' \in BOOLEAN
  BY Zenon DEF Return
<1> QED
  BY <1>1, <1>2

(* A run that moves on stays a run. *)
LEMMA GotoTypes ==
  ASSUME run \in Runs, queued \in BOOLEAN, NEW l \in Locations, Goto(l)
  PROVE  /\ run' \in Runs
         /\ run'.pc = l
         /\ run'.type = run.type
         /\ run'.entry = run.entry
         /\ run'.ips = run.ips
         /\ queued' \in BOOLEAN
BY GotoFields DEF Goto

(* What follows the deletions is a run at the next dependent or the Application. *)
LEMMA AfterTeardownTypes ==
  ASSUME run \in Runs, RunInv, queued \in BOOLEAN, AfterTeardown,
         run.pc \in {"deleteConfig", "deleteConfigPods", "deleteNF", "deletePods"}
  PROVE  run' \in Runs /\ RunInv' /\ queued' \in BOOLEAN
<1>1. queued' \in BOOLEAN
  BY DEF AfterTeardown
<1>2. Current \in Manifests /\ run.entry \in Entries
  BY EntryTypes DEF RunInv, AfterPush, Current
<1>3. CASE run.type = "ConfigRef"
  <2>1. ClusterInfo[run.entry].name \in ClusterNames
    BY <1>2, EntryTypes
  <2>2. /\ run' \in Runs
        /\ run'.pc = "next"
        /\ run'.type = run.type
        /\ run'.entry = run.entry
        /\ run'.ips = run.ips
    <3> DEFINE apps == run.apps \union {ClusterInfo[run.entry].name}
    <3>1. run.apps \in SUBSET ClusterNames
      BY DEF Runs
    <3>2. apps \in SUBSET ClusterNames
      BY <2>1, <3>1
    <3>3. run' = [run EXCEPT !.pc = "next", !.apps = apps]
      BY <1>3 DEF AfterTeardown, Runs
    <3> HIDE DEF apps
    <3> QED
      BY <3>2, <3>3 DEF Runs, Locations
  <2> QED
    BY <1>1, <1>3, <2>2 DEF RunInv, AfterPush, Current
<1>4. CASE run.type # "ConfigRef"
  <2>1. run.type = "NFDeployment"
    BY <1>4 DEF Runs, ManifestTypes
  <2>2. /\ run' \in Runs
        /\ run'.pc = "createApp"
        /\ run'.type = run.type
        /\ run'.entry = run.entry
        /\ run'.ips = run.ips
    BY <1>4, GotoFields DEF AfterTeardown, Locations
  <2> QED
    BY <1>1, <1>2, <2>1, <2>2 DEF RunInv, AfterPush, Current
<1> QED
  BY <1>3, <1>4

(* Every step preserves the types and the place of the run. *)
LEMMA NextTypeInv == TypeInv /\ [Next]_vars => TypeInv'
<1> SUFFICES ASSUME TypeOK, RunInv, [Next]_vars PROVE TypeInv'
  BY DEF TypeInv
<1>types. /\ run \in Runs
          /\ queued \in BOOLEAN
          /\ faults \in Nat
          /\ DataTypes
  BY TypeParts DEF ControlTypes
<1> SUFFICES ControlTypes' /\ DataTypes' /\ RunInv'
  BY TypeParts DEF TypeInv, TypeOK, ControlTypes, DataTypes
<1> USE DEF ControlTypes
<1>1. CASE Reconcile
  <2>1. run' \in Runs /\ RunInv'
    <3>1. CASE cached # Deleted /\ run' = [Idle EXCEPT !.pc = "initClient", !.ips = cached]
      <4>1. /\ run' \in Runs
            /\ run'.pc = "initClient"
            /\ run'.type = "NFDeployment"
            /\ run'.entry = 0
            /\ run'.ips \in Specs
        BY <3>1, <1>types, IdleType DEF Runs, DataTypes, Locations
      <4> QED
        BY <4>1, EntryTypes DEF RunInv, AfterPush, Current
    <3>2. CASE UNCHANGED run
      BY <1>types, <3>2 DEF RunInv, Current
    <3> QED
      BY <1>1, <3>1, <3>2 DEF Reconcile
  <2>2. queued' \in BOOLEAN
    BY <1>1, <1>types, Zenon DEF Reconcile
  <2>3. faults' \in Nat
    BY <1>1, <1>types, FaultTypes DEF Reconcile
  <2>4. DataTypes'
    BY <1>1, <1>types, DataFrame DEF Reconcile
  <2> QED
    BY <2>1, <2>2, <2>3, <2>4
<1>2. CASE GetMyUserInfo
  <2>1. run' \in Runs /\ RunInv' /\ queued' \in BOOLEAN
    <3>1. CASE Goto(IF run.type = "NFDeployment" THEN "clone" ELSE "next")
      BY <1>types, <1>2, <3>1, GotoTypes DEF RunInv, AfterPush, Current, GetMyUserInfo, Locations, Runs, ManifestTypes
    <3>2. CASE Return(FALSE)
      BY <1>types, <3>2, ReturnTypes
    <3> QED
      BY <1>2, <3>1, <3>2 DEF GetMyUserInfo
  <2>3. faults' \in Nat
    BY <1>2, <1>types, FaultTypes DEF GetMyUserInfo
  <2>4. DataTypes'
    BY <1>2, <1>types, DataFrame DEF GetMyUserInfo
  <2> QED
    BY <2>1, <2>3, <2>4
<1>3. CASE InitializeGiteaClient
  <2>1. run' \in Runs /\ RunInv' /\ queued' \in BOOLEAN
    <3>1. ASSUME NEW e \in 0 .. Len(ClusterInfo), IsTargetEntry(e), UNCHANGED queued,
                 run' = [run EXCEPT !.pc = "userInfo", !.entry = e]
          PROVE  run' \in Runs /\ RunInv' /\ queued' \in BOOLEAN
      <4>1. /\ run' \in Runs
            /\ run'.pc = "userInfo"
            /\ run'.type = run.type
            /\ run'.entry = e
            /\ run'.ips = run.ips
        <5>1. e \in Nat
          BY EntryTypes
        <5> QED
          BY <3>1, <5>1, <1>types DEF Runs, Locations
      <4>2. run.pc = "initClient"
        BY <1>3 DEF InitializeGiteaClient
      <4> QED
        BY <3>1, <4>1, <4>2, <1>types DEF RunInv, AfterPush, Current
    <3>2. CASE Return(FALSE) \/ Return(TRUE)
      BY <1>types, <3>2, ReturnTypes
    <3> QED
      BY <1>3, <3>1, <3>2 DEF InitializeGiteaClient, UninitializedClient
  <2>2. faults' \in Nat
    BY <1>3, <1>types, FaultTypes DEF InitializeGiteaClient
  <2>3. DataTypes'
    BY <1>3, <1>types DEF InitializeGiteaClient, DataTypes, apiVars, gitVars, clusterVars, historyVars
  <2> QED
    BY <2>1, <2>2, <2>3
<1>4. CASE CheckRepoForMatchingManifests
  <2>1. run' \in Runs /\ RunInv' /\ queued' \in BOOLEAN
    <3>1. CASE /\ run.entry # 0
               /\ UNCHANGED queued
               /\ run' = [run EXCEPT
                    !.pc = "update",
                    !.tree = [f \in Files |-> IF RepoOf(f) = CurrentRepo
                                              THEN head[f] ELSE EmptyTree[f]],
                    !.base = rev[CurrentRepo]]
      <4>1. Current \in Manifests
        BY <1>4, <3>1, <1>types, CurrentManifests
        DEF CheckRepoForMatchingManifests, RunInv, Current, Runs, ManifestTypes
      <4>2. CurrentRepo \in ClusterNames
        BY <4>1, EntryTypes DEF Current, CurrentRepo, RepoOf
      <4>3. [f \in Files |-> IF RepoOf(f) = CurrentRepo
                             THEN head[f] ELSE EmptyTree[f]] \in [Files -> Contents]
        BY <1>types DEF DataTypes, EmptyTree, Contents
      <4>4. /\ run' \in Runs
            /\ run'.pc = "update"
            /\ run'.type = run.type
            /\ run'.entry = run.entry
            /\ run'.ips = run.ips
        BY <3>1, <4>2, <4>3, <1>types DEF Runs, Locations, DataTypes
      <4>5. run.pc = "clone"
        BY <1>4 DEF CheckRepoForMatchingManifests
      <4> QED
        BY <3>1, <4>1, <4>4, <4>5, <1>types DEF RunInv, AfterPush, Current
    <3>2. CASE NoMatch
      BY <1>4, <3>2, <1>types, GotoTypes, ReturnTypes
      DEF CheckRepoForMatchingManifests, NoMatch, RunInv, AfterPush, Current, Runs, ManifestTypes, Locations
    <3>3. CASE Return(FALSE)
      BY <3>3, <1>types, ReturnTypes
    <3> QED
      BY <1>4, <3>1, <3>2, <3>3 DEF CheckRepoForMatchingManifests
  <2>2. faults' \in Nat
    BY <1>4, <1>types, FaultTypes DEF CheckRepoForMatchingManifests
  <2>3. DataTypes'
    BY <1>4, <1>types, DataFrame DEF CheckRepoForMatchingManifests
  <2> QED
    BY <2>1, <2>2, <2>3
<1>5. CASE UpdateManifests
  <2>1. run' \in Runs /\ RunInv' /\ queued' \in BOOLEAN
    <3> DEFINE tree == [f \in Files |-> IF f \in OwnFiles(run.entry, run.type)
                                        THEN Rewrite(run.tree[f], run.ips)
                                        ELSE run.tree[f]]
    <3>1. CASE /\ run.ips # NoIPv4
               /\ UNCHANGED queued
               /\ run' = [run EXCEPT !.pc = "push", !.tree = tree,
                                     !.dirty = (tree # run.tree)]
      <4>1. run.pc = "update"
        BY <1>5 DEF UpdateManifests
      <4>2. run.ips \in Assignments
        BY <3>1, <4>1 DEF RunInv, Specs
      <4>3. tree \in [Files -> Contents]
        BY <4>2, <1>types DEF Runs, Rewrite, Contents
      <4>4. /\ run' \in Runs
            /\ run'.pc = "push"
            /\ run'.type = run.type
            /\ run'.entry = run.entry
            /\ run'.ips = run.ips
        BY <3>1, <4>3, <1>types DEF Runs, Locations
      <4> QED
        BY <3>1, <4>1, <4>2, <4>4, <1>types DEF RunInv, AfterPush, Current
    <3>2. CASE Return(FALSE) \/ Return(TRUE)
      BY <1>types, <3>2, ReturnTypes
    <3> QED
      BY <1>5, <3>1, <3>2 DEF UpdateManifests
  <2>2. faults' \in Nat
    BY <1>5, <1>types, FaultTypes DEF UpdateManifests
  <2>3. DataTypes'
    BY <1>5, <1>types, DataFrame DEF UpdateManifests
  <2> QED
    BY <2>1, <2>2, <2>3
<1>6. CASE CommitAndPush
  <2>0. run.pc = "push" /\ Current \in Manifests /\ run.ips \in Assignments
    BY <1>6 DEF CommitAndPush, RunInv
  <2>1. run' \in Runs /\ RunInv' /\ queued' \in BOOLEAN
    <3>1. CASE Goto("getClient")
      BY <3>1, <2>0, <1>types, GotoTypes DEF RunInv, AfterPush, Current, Locations
    <3>2. CASE PushFailed
      BY <3>2, <1>types, ReturnTypes DEF PushFailed
    <3> QED
      BY <1>6, <3>1, <3>2 DEF CommitAndPush
  <2>2. faults' \in Nat
    BY <1>6, <1>types, FaultTypes DEF CommitAndPush
  <2>3. DataTypes'
    <3>1. CASE UNCHANGED <<gitVars, historyVars>>
      BY <1>6, <3>1, <1>types, DataFrame DEF CommitAndPush
    <3>2. CASE /\ head' = [f \in Files |-> IF RepoOf(f) = CurrentRepo
                                           THEN run.tree[f] ELSE head[f]]
               /\ rev' = [rev EXCEPT ![CurrentRepo] = @ + 1]
               /\ told' = [told EXCEPT ![Current] = @ \union {run.ips}]
               /\ pushes' = [pushes EXCEPT ![Current] = @ + 1]
               /\ UNCHANGED <<foreign, teardowns>>
      <4>1. head' \in [Files -> Contents]
        BY <3>2, <1>types DEF Runs, DataTypes
      <4>2. rev' \in [ClusterNames -> Nat]
        <5>1. CurrentRepo \in ClusterNames
          <6>1. Current \in Files /\ Current[1] = run.entry
            BY <2>0, EntryTypes DEF Current
          <6> QED
            BY <6>1, EntryTypes DEF CurrentRepo, RepoOf
        <5>2. rev \in [ClusterNames -> Nat]
          BY <1>types DEF DataTypes
        <5> QED
          BY <3>2, <5>1, <5>2, Increment
      <4>3. told' \in [Manifests -> SUBSET Assignments]
        BY <3>2, <2>0, <1>types DEF DataTypes
      <4>4. pushes' \in [Manifests -> Nat]
        BY <3>2, <2>0, <1>types, Increment DEF DataTypes
      <4> QED
        BY <1>6, <3>2, <4>1, <4>2, <4>3, <4>4, <1>types
        DEF CommitAndPush, DataTypes, apiVars, clusterVars
    <3> QED
      BY <1>6, <3>1, <3>2 DEF CommitAndPush
  <2> QED
    BY <2>1, <2>2, <2>3
<1>7. CASE GetWorkloadClusterClient
  <2>1. run' \in Runs /\ RunInv' /\ queued' \in BOOLEAN
    <3>1. CASE run.pc = "getClient" /\ Goto(FirstDeletion)
      BY <3>1, <1>types, GotoTypes DEF FirstDeletion, RunInv, AfterPush, Current, Runs, ManifestTypes, Locations
    <3>2. CASE /\ run.pc = "getTargetClient"
               /\ TargetCluster # None
               /\ Goto("syncTarget")
      BY <3>2, <1>types, GotoTypes DEF RunInv, AfterPush, Current, Locations, TargetCluster
    <3>3. CASE Return(TRUE)
      BY <1>types, <3>3, ReturnTypes
    <3> QED
      BY <1>7, <3>1, <3>2, <3>3 DEF GetWorkloadClusterClient, NoTargetClient
  <2>2. faults' \in Nat
    BY <1>7, <1>types, FaultTypes DEF GetWorkloadClusterClient
  <2>3. DataTypes'
    BY <1>7, <1>types, DataFrame DEF GetWorkloadClusterClient
  <2> QED
    BY <2>1, <2>2, <2>3
<1>8. CASE DeleteConfig
  <2>0. run.pc = "deleteConfig" /\ Current \in Manifests
    BY <1>8 DEF DeleteConfig, RunInv, AfterPush
  <2>1. run' \in Runs /\ RunInv' /\ queued' \in BOOLEAN
    <3>1. CASE Goto("deleteConfigPods")
      BY <3>1, <2>0, <1>types, GotoTypes DEF RunInv, AfterPush, Current, Locations
    <3>2. CASE AfterTeardown
      BY <3>2, <2>0, <1>types, AfterTeardownTypes
    <3> QED
      BY <1>8, <3>1, <3>2 DEF DeleteConfig
  <2>2. faults' \in Nat
    BY <1>8, <1>types, FaultTypes DEF DeleteConfig, LostDelete
  <2>3. alive' \in [Entries -> SUBSET Kinds]
    BY <1>8, <1>types, LostDeleteTypes DEF DeleteConfig, DataTypes
  <2>4. teardowns' \in [Manifests -> Nat]
    BY <1>8, <2>0, <1>types, Increment DEF DeleteConfig, CountTeardown, DataTypes
  <2>5. DataTypes'
    BY <1>8, <2>3, <2>4, <1>types DEF DeleteConfig, DataTypes, apiVars, gitVars
  <2> QED
    BY <2>1, <2>2, <2>5
<1>9. CASE DeleteConfigPods
  <2>0. run.pc = "deleteConfigPods" /\ Current \in Manifests
    BY <1>9 DEF DeleteConfigPods, RunInv, AfterPush
  <2>1. run' \in Runs /\ RunInv' /\ queued' \in BOOLEAN
    <3>1. CASE Goto("deleteNF")
      BY <3>1, <2>0, <1>types, GotoTypes DEF RunInv, AfterPush, Current, Locations
    <3>2. CASE AfterTeardown
      BY <3>2, <2>0, <1>types, AfterTeardownTypes
    <3> QED
      BY <1>9, <3>1, <3>2 DEF DeleteConfigPods
  <2>2. faults' \in Nat
    BY <1>9, <1>types, FaultTypes DEF DeleteConfigPods, LostDelete
  <2>3. alive' \in [Entries -> SUBSET Kinds]
    BY <1>9, <1>types, LostDeleteTypes DEF DeleteConfigPods, DataTypes
  <2>4. DataTypes'
    BY <1>9, <2>3, <1>types DEF DeleteConfigPods, DataTypes, apiVars, gitVars, historyVars
  <2> QED
    BY <2>1, <2>2, <2>4
<1>10. CASE DeleteNFDeployment
  <2>0. run.pc = "deleteNF" /\ Current \in Manifests
    BY <1>10 DEF DeleteNFDeployment, RunInv, AfterPush
  <2>1. run' \in Runs /\ RunInv' /\ queued' \in BOOLEAN
    <3>1. CASE Goto("deletePods")
      BY <3>1, <2>0, <1>types, GotoTypes DEF RunInv, AfterPush, Current, Locations
    <3>2. CASE AfterTeardown
      BY <3>2, <2>0, <1>types, AfterTeardownTypes
    <3> QED
      BY <1>10, <3>1, <3>2 DEF DeleteNFDeployment
  <2>2. faults' \in Nat
    BY <1>10, <1>types, FaultTypes DEF DeleteNFDeployment, LostDelete
  <2>3. alive' \in [Entries -> SUBSET Kinds]
    BY <1>10, <1>types, LostDeleteTypes DEF DeleteNFDeployment, DataTypes
  <2>4. teardowns' \in [Manifests -> Nat]
    BY <1>10, <2>0, <1>types, Increment DEF DeleteNFDeployment, CountTeardown, DataTypes
  <2>5. DataTypes'
    BY <1>10, <2>3, <2>4, <1>types DEF DeleteNFDeployment, DataTypes, apiVars, gitVars
  <2> QED
    BY <2>1, <2>2, <2>5
<1>11. CASE DeletePods
  <2>0. run.pc = "deletePods" /\ Current \in Manifests
    BY <1>11 DEF DeletePods, RunInv, AfterPush
  <2>1. run' \in Runs /\ RunInv' /\ queued' \in BOOLEAN
    BY <1>11, <2>0, <1>types, AfterTeardownTypes DEF DeletePods
  <2>2. faults' \in Nat
    BY <1>11, <1>types, FaultTypes DEF DeletePods, LostDelete
  <2>3. alive' \in [Entries -> SUBSET Kinds]
    BY <1>11, <1>types, LostDeleteTypes DEF DeletePods, DataTypes
  <2>4. DataTypes'
    BY <1>11, <2>3, <1>types DEF DeletePods, DataTypes, apiVars, gitVars, historyVars
  <2> QED
    BY <2>1, <2>2, <2>4
<1>12. CASE CreateAndPushArgoApp
  <2>1. run' \in Runs /\ RunInv' /\ queued' \in BOOLEAN
    BY <1>12, <1>types, GotoTypes DEF CreateAndPushArgoApp, RunInv, AfterPush, Current, Locations
  <2>2. faults' \in Nat
    BY <1>12, <1>types, FaultTypes DEF CreateAndPushArgoApp
  <2>3. TargetCluster \in ClusterNames \union {None}
    BY <1>12, EntryTypes DEF CreateAndPushArgoApp, TargetCluster, RunInv, AfterPush, Current
  <2>4. rev' \in [ClusterNames -> Nat] /\ appFiles' \in Nat
    <3>1. CASE UNCHANGED <<appFiles, rev>>
      BY <3>1, <1>types DEF DataTypes
    <3>2. CASE /\ TargetCluster # None
               /\ appFiles' = appFiles + 1
               /\ rev' = [rev EXCEPT ![TargetCluster] = @ + 1]
      BY <3>2, <2>3, <1>types, Increment DEF DataTypes
    <3> QED
      BY <1>12, <3>1, <3>2 DEF CreateAndPushArgoApp
  <2>5. DataTypes'
    BY <1>12, <2>4, <1>types DEF CreateAndPushArgoApp, DataTypes, apiVars, historyVars
  <2> QED
    BY <2>1, <2>2, <2>5
<1>13. CASE SyncTarget
  <2>1. run' \in Runs /\ RunInv' /\ queued' \in BOOLEAN
    <3>1. /\ run' \in Runs
          /\ run'.pc = "userInfo"
          /\ run'.type = "ConfigRef"
          /\ run'.entry = 0
          /\ run'.ips = run.ips
          /\ run.pc = "syncTarget"
      BY <1>13, <1>types DEF SyncTarget, HandleDependentClusterPkgNF, Runs, Locations, ManifestTypes
    <3>2. queued' \in BOOLEAN
      BY <1>13, <1>types DEF SyncTarget, HandleDependentClusterPkgNF
    <3> QED
      BY <3>1, <3>2, EntryTypes DEF RunInv, AfterPush, Current
  <2>2. faults' \in Nat
    BY <1>13, <1>types, FaultTypes DEF SyncTarget, TriggerArgoCDSync
  <2>3. TargetCluster \in ClusterNames
    BY <1>13, EntryTypes DEF SyncTarget, TargetCluster, RunInv, AfterPush, Current
  <2>4. DataTypes'
    BY <1>13, <2>3, <1>types DEF SyncTarget, TriggerArgoCDSync, DataTypes, apiVars, gitVars, historyVars
  <2> QED
    BY <2>1, <2>2, <2>4
<1>14. CASE NextDependent
  <2>1. run' \in Runs /\ RunInv' /\ queued' \in BOOLEAN
    <3>0. run.pc = "next" /\ run.type = "ConfigRef" /\ queued' \in BOOLEAN
      BY <1>14, <1>types DEF NextDependent, RunInv
    <3>1. ASSUME NEW e \in Entries, IsDependent(e),
                 run' = [run EXCEPT !.pc = "clone", !.entry = e]
          PROVE  run' \in Runs /\ RunInv'
      <4>1. e \in 0 .. Len(ClusterInfo) /\ e \in Nat
        BY EntryTypes DEF Entries
      <4>2. /\ run' \in Runs
            /\ run'.pc = "clone"
            /\ run'.type = run.type
            /\ run'.entry = e
            /\ run'.ips = run.ips
        BY <3>1, <4>1, <1>types DEF Runs, Locations
      <4> QED
        BY <3>0, <3>1, <4>1, <4>2, <1>types DEF RunInv, AfterPush, Current
    <3>2. CASE run' = [run EXCEPT !.pc = "sync"]
      BY <3>0, <3>2, <1>types, GotoFields DEF RunInv, AfterPush, Current, Locations
    <3> QED
      BY <1>14, <3>0, <3>1, <3>2 DEF NextDependent
  <2>2. faults' \in Nat
    BY <1>14, <1>types DEF NextDependent
  <2>3. DataTypes'
    BY <1>14, <1>types, DataFrame DEF NextDependent
  <2> QED
    BY <2>1, <2>2, <2>3
<1>15. ASSUME NEW c \in ClusterNames, SyncDependent(c)
       PROVE  ControlTypes' /\ DataTypes' /\ RunInv'
  <2>1. run' \in Runs /\ RunInv' /\ queued' \in BOOLEAN
    <3>1. /\ run' \in Runs
          /\ run'.pc = "sync"
          /\ run'.type = run.type
          /\ run'.entry = run.entry
          /\ run'.ips = run.ips
          /\ run.pc = "sync"
      <4>1. CASE run' = [run EXCEPT !.app = c]
        BY <1>15, <4>1, <1>types DEF SyncDependent, Runs
      <4>2. CASE run' = [run EXCEPT !.app = None, !.apps = @ \ {c}]
        BY <1>15, <4>2, <1>types DEF SyncDependent, Runs
      <4> QED
        BY <1>15, <4>1, <4>2 DEF SyncDependent
    <3>2. queued' \in BOOLEAN
      BY <1>15, <1>types DEF SyncDependent
    <3> QED
      BY <3>1, <3>2, <1>types DEF RunInv, AfterPush, Current
  <2>2. faults' \in Nat
    BY <1>15, <1>types, FaultTypes DEF SyncDependent, TriggerArgoCDSync
  <2>3. DataTypes'
    BY <1>15, <1>types DEF SyncDependent, TriggerArgoCDSync, DataTypes, apiVars, gitVars, historyVars
  <2> QED
    BY <2>1, <2>2, <2>3
<1>16. CASE ReconcileDone
  <2>1. run' \in Runs /\ RunInv' /\ queued' \in BOOLEAN
    BY <1>16, <1>types, ReturnTypes DEF ReconcileDone
  <2>2. DataTypes' /\ faults' \in Nat
    BY <1>16, <1>types, DataFrame DEF ReconcileDone
  <2> QED
    BY <2>1, <2>2
<1> SUFFICES ASSUME ~ Worker PROVE ControlTypes' /\ DataTypes' /\ RunInv'
  BY <1>1, <1>2, <1>3, <1>4, <1>5, <1>6, <1>7, <1>8, <1>9, <1>10, <1>11, <1>12,
     <1>13, <1>14, <1>15, <1>16 DEF Worker
<1>run. ASSUME UNCHANGED run PROVE run' \in Runs /\ RunInv'
  BY <1>run, <1>types DEF RunInv, Current
<1>17. CASE EditNFReconfig
  <2>1. DataTypes'
    BY <1>17, <1>types DEF EditNFReconfig, DataTypes, gitVars, clusterVars, historyVars
  <2> QED
    BY <1>17, <1>types, <1>run, <2>1 DEF EditNFReconfig
<1>18. CASE DeliverEvent
  <2>1. DataTypes'
    BY <1>18, <1>types DEF DeliverEvent, DataTypes, gitVars, clusterVars, historyVars
  <2> QED
    BY <1>18, <1>types, <1>run, <2>1 DEF DeliverEvent
<1>19. CASE Resync
  <2>1. DataTypes'
    BY <1>19, <1>types, DataFrame DEF Resync
  <2> QED
    BY <1>19, <1>types, <1>run, <2>1 DEF Resync
<1>20. CASE ForeignCommit
  <2>1. head' \in [Files -> Contents]
    BY <1>20, <1>types DEF ForeignCommit, DataTypes, Contents
  <2>2. rev' \in [ClusterNames -> Nat]
    BY <1>20, <1>types, EntryTypes, Increment DEF ForeignCommit, DataTypes
  <2>3. DataTypes'
    BY <1>20, <2>1, <2>2, <1>types
    DEF ForeignCommit, DataTypes, apiVars, clusterVars, historyVars
  <2> QED
    BY <1>20, <1>types, <1>run, <2>3 DEF ForeignCommit
<1>21. CASE RotateCredentials
  <2>1. DataTypes'
    BY <1>21, <1>types
    DEF RotateCredentials, DataTypes, apiVars, gitVars, clusterVars, historyVars
  <2> QED
    BY <1>21, <1>types, <1>run, <2>1, FaultTypes DEF RotateCredentials
<1>22. CASE Restart
  <2>1. DataTypes'
    BY <1>22, <1>types DEF Restart, DataTypes, gitVars, clusterVars, historyVars
  <2>2. queued' \in BOOLEAN
    BY <1>22 DEF Restart
  <2> QED
    BY <1>22, <1>types, <2>1, <2>2, FaultTypes, IdleRunInv DEF Restart
<1>23. ASSUME NEW c \in ClusterNames, ArgoSync(c)
       PROVE  ControlTypes' /\ DataTypes' /\ RunInv'
  <2>1. alive' \in [Entries -> SUBSET Kinds]
    BY <1>23, <1>types DEF ArgoSync, DataTypes, Workload, Kinds
  <2>2. ops' \in SUBSET ClusterNames /\ migrated' \in BOOLEAN
    BY <1>23, <1>types DEF ArgoSync, DataTypes
  <2>3. DataTypes'
    BY <1>23, <2>1, <2>2, <1>types DEF ArgoSync, DataTypes, apiVars, gitVars, historyVars
  <2> QED
    BY <1>23, <1>types, <1>run, <2>3 DEF ArgoSync
<1>24. ASSUME NEW e \in Entries, StartPods(e)
       PROVE  ControlTypes' /\ DataTypes' /\ RunInv'
  <2>1. alive' \in [Entries -> SUBSET Kinds]
    BY <1>24, <1>types DEF StartPods, DataTypes, Kinds
  <2>2. DataTypes'
    BY <1>24, <2>1, <1>types DEF StartPods, DataTypes, apiVars, gitVars, historyVars
  <2> QED
    BY <1>24, <1>types, <1>run, <2>2 DEF StartPods
<1>25. CASE UNCHANGED vars
  <2>1. DataTypes'
    BY <1>25, <1>types DEF vars, DataTypes
  <2> QED
    BY <1>25, <1>types, <1>run, <2>1 DEF vars
<1> QED
  BY <1>17, <1>18, <1>19, <1>20, <1>21, <1>22, <1>23, <1>24, <1>25
  DEF Next, Environment

(* Every variable always has the type it is declared with, and a run is     *)
(* only ever at a manifest, and in a handler, that its place in the code    *)
(* allows.                                                                  *)
THEOREM TypeCorrect == Spec => []TypeInv
<1>1. Init => TypeInv
  BY InitTypeInv
<1>2. TypeInv /\ [Next]_vars => TypeInv'
  BY NextTypeInv
<1> QED
  BY <1>1, <1>2, PTL DEF Spec

(* No call leaves a local variable of a run, or anything it writes, outside *)
(* what the code declares; in particular no index is ever out of range.     *)
THEOREM TypeSafety == Spec => []TypeOK
<1>1. TypeInv => TypeOK
  BY DEF TypeInv
<1> QED
  BY <1>1, TypeCorrect, PTL

-----------------------------------------------------------------------------
(***************************************************************************)
(* What a step does to the run in progress.                                *)
(***************************************************************************)
Begins ==
  /\ Reconcile
  /\ cached # Deleted
  /\ run' = [Idle EXCEPT !.pc = "initClient", !.ips = cached]

TurnsToDependents ==
  /\ SyncTarget
  /\ run' = [run EXCEPT !.pc = "userInfo", !.type = "ConfigRef", !.entry = 0]

(* It goes on in the same handler, with the same assignment; what follows a *)
(* push is about the manifest that was pushed, and its teardown is owed     *)
(* from the push on.                                                        *)
GoesOn ==
  /\ run.pc # "idle"
  /\ run'.pc # "idle"
  /\ run'.type = run.type
  /\ run'.ips = run.ips
  /\ run'.pc \in AfterPush =>
       /\ run'.entry = run.entry
       /\ run.pc \in AfterPush \/ CommitAndPush
  /\ Owing' => Owing \/ CommitAndPush
  /\ run'.pc = "update" => CheckRepoForMatchingManifests
  /\ run'.pc = "push" => UpdateManifests

(* After the deletions the run goes on with the same manifest or the next. *)
LEMMA TeardownGoesOn ==
  ASSUME run \in Runs, AfterTeardown, run.pc \in AfterPush
  PROVE  GoesOn
<1>1. CASE run.type = "ConfigRef"
  BY <1>1 DEF AfterTeardown, GoesOn, AfterPush, Owing, Runs
<1>2. CASE run.type # "ConfigRef"
  BY <1>2 DEF AfterTeardown, GoesOn, AfterPush, Owing, Runs
<1> QED
  BY <1>1, <1>2

(* A step leaves the run, ends it, or moves it on in one of these ways. *)
LEMMA RunSteps ==
  ASSUME TypeInv, [Next]_vars
  PROVE  UNCHANGED run \/ run' = Idle \/ Begins \/ TurnsToDependents \/ GoesOn
<1> DEFINE Goal == UNCHANGED run \/ run' = Idle \/ Begins \/ TurnsToDependents \/ GoesOn
<1> SUFFICES Goal
  OBVIOUS
<1>types. run \in Runs /\ RunInv
  BY DEF TypeInv, TypeOK
<1>return. ASSUME NEW b \in BOOLEAN, Return(b) PROVE Goal
  BY <1>return DEF Return
<1>goto. ASSUME NEW l \in Locations \ {"idle", "update", "push"}, Goto(l), run.pc # "idle",
                l \in AfterPush => run.pc \in AfterPush \/ CommitAndPush,
                \/ l \in {"getClient", "deleteConfig"}
                \/ l = "deleteNF" /\ run.type = "NFDeployment"
                => Owing \/ CommitAndPush
         PROVE  Goal
  BY <1>goto, <1>types, GotoFields DEF GoesOn, Goto, Owing
<1>teardown. ASSUME AfterTeardown, run.pc \in AfterPush PROVE Goal
  BY <1>teardown, <1>types, TeardownGoesOn
<1> HIDE DEF Goal
<1>1. CASE Reconcile
  BY <1>1 DEF Reconcile, Begins, Goal
<1>2. CASE GetMyUserInfo
  BY <1>2, <1>goto, <1>return DEF GetMyUserInfo, Locations, AfterPush, Owing
<1>3. CASE InitializeGiteaClient
  <2>1. ASSUME NEW e, run' = [run EXCEPT !.pc = "userInfo", !.entry = e] PROVE Goal
    BY <1>3, <2>1, <1>types DEF InitializeGiteaClient, GoesOn, Owing, Runs, AfterPush, Goal
  <2> QED
    BY <1>3, <2>1, <1>return DEF InitializeGiteaClient, UninitializedClient
<1>4. CASE CheckRepoForMatchingManifests
  <2>1. ASSUME NEW t, NEW b, run' = [run EXCEPT !.pc = "update", !.tree = t, !.base = b]
        PROVE  Goal
    BY <1>4, <2>1, <1>types DEF CheckRepoForMatchingManifests, GoesOn, Owing, Runs, AfterPush, Goal
  <2>2. CASE NoMatch
    BY <1>4, <2>2, <1>goto, <1>return
    DEF CheckRepoForMatchingManifests, NoMatch, Locations, AfterPush, Owing
  <2> QED
    BY <1>4, <2>1, <2>2, <1>return DEF CheckRepoForMatchingManifests
<1>5. CASE UpdateManifests
  <2>1. ASSUME NEW t, NEW d, run' = [run EXCEPT !.pc = "push", !.tree = t, !.dirty = d]
        PROVE  Goal
    BY <1>5, <2>1, <1>types DEF UpdateManifests, GoesOn, Owing, Runs, AfterPush, Goal
  <2> QED
    BY <1>5, <2>1, <1>return DEF UpdateManifests
<1>6. CASE CommitAndPush
  BY <1>6, <1>goto, <1>return DEF CommitAndPush, PushFailed, Locations
<1>7. CASE GetWorkloadClusterClient
  BY <1>7, <1>goto, <1>return
  DEF GetWorkloadClusterClient, NoTargetClient, FirstDeletion, Locations, AfterPush, Owing
<1>8. CASE DeleteConfig
  BY <1>8, <1>types, <1>goto, <1>teardown DEF DeleteConfig, Locations, AfterPush, Owing
<1>9. CASE DeleteConfigPods
  BY <1>9, <1>types, <1>goto, <1>teardown DEF DeleteConfigPods, RunInv, Locations, AfterPush, Owing
<1>10. CASE DeleteNFDeployment
  BY <1>10, <1>goto, <1>teardown DEF DeleteNFDeployment, Locations, AfterPush, Owing
<1>11. CASE DeletePods
  BY <1>11, <1>teardown DEF DeletePods, AfterPush
<1>12. CASE CreateAndPushArgoApp
  BY <1>12, <1>goto DEF CreateAndPushArgoApp, Locations, AfterPush, Owing
<1>13. CASE SyncTarget
  BY <1>13 DEF SyncTarget, HandleDependentClusterPkgNF, TurnsToDependents, Goal
<1>14. CASE NextDependent
  <2>1. ASSUME NEW e, run' = [run EXCEPT !.pc = "clone", !.entry = e] PROVE Goal
    BY <1>14, <2>1, <1>types DEF NextDependent, GoesOn, Owing, Runs, AfterPush, Goal
  <2>2. CASE run' = [run EXCEPT !.pc = "sync"]
    BY <1>14, <2>2, <1>types DEF NextDependent, GoesOn, Owing, Runs, AfterPush, Goal
  <2> QED
    BY <1>14, <2>1, <2>2 DEF NextDependent
<1>15. ASSUME NEW c \in ClusterNames, SyncDependent(c) PROVE Goal
  <2>1. CASE run' = [run EXCEPT !.app = c]
    BY <1>15, <2>1, <1>types DEF SyncDependent, GoesOn, Owing, Runs, AfterPush, Goal
  <2>2. CASE run' = [run EXCEPT !.app = None, !.apps = @ \ {c}]
    BY <1>15, <2>2, <1>types DEF SyncDependent, GoesOn, Owing, Runs, AfterPush, Goal
  <2> QED
    BY <1>15, <2>1, <2>2 DEF SyncDependent
<1>16. CASE ReconcileDone
  BY <1>16, <1>return DEF ReconcileDone
<1>17. CASE Environment
  BY <1>17
  DEF Environment, EditNFReconfig, DeliverEvent, Resync, ForeignCommit,
      RotateCredentials, Restart, ArgoSync, StartPods, Goal
<1>18. CASE UNCHANGED vars
  BY <1>18 DEF vars, Goal
<1> QED
  BY <1>1, <1>2, <1>3, <1>4, <1>5, <1>6, <1>7, <1>8, <1>9, <1>10, <1>11, <1>12,
     <1>13, <1>14, <1>15, <1>16, <1>17, <1>18 DEF Next, Worker

(* What only some steps change. *)
LEMMA Frames ==
  ASSUME [Next]_vars
  PROVE  /\ CommitAndPush \/ UNCHANGED <<told, pushes>>
         /\ DeleteConfig \/ DeleteNFDeployment \/ UNCHANGED teardowns
         /\ CommitAndPush \/ ForeignCommit \/ UNCHANGED head
         /\ CommitAndPush \/ ForeignCommit \/ CreateAndPushArgoApp \/ UNCHANGED rev
         /\ EditNFReconfig \/ UNCHANGED edits
         /\ ForeignCommit \/ UNCHANGED foreign
         /\ EditNFReconfig \/ DeliverEvent \/ Restart \/ UNCHANGED <<nfr, cached>>
<1> USE DEF apiVars, gitVars, clusterVars, historyVars
<1>1. CASE Worker
  BY <1>1
  DEF Worker, Reconcile, InitializeGiteaClient, GetMyUserInfo,
      CheckRepoForMatchingManifests, UpdateManifests, CommitAndPush,
      GetWorkloadClusterClient, DeleteConfig, DeleteConfigPods, DeleteNFDeployment,
      DeletePods, CreateAndPushArgoApp, SyncTarget, NextDependent, SyncDependent,
      ReconcileDone
<1>2. CASE Environment
  BY <1>2
  DEF Environment, EditNFReconfig, DeliverEvent, Resync, ForeignCommit,
      RotateCredentials, Restart, ArgoSync, StartPods
<1>3. CASE UNCHANGED vars
  BY <1>3 DEF vars
<1> QED
  BY <1>1, <1>2, <1>3 DEF Next

(* A push adds the run's assignment to what its manifest was told. *)
LEMMA PushTells ==
  ASSUME TypeInv, [Next]_vars
  PROVE  /\ \A m \in Manifests : told[m] \subseteq told'[m]
         /\ CommitAndPush /\ run'.pc \in AfterPush => run.ips \in told'[Current]
<1>types. told \in [Manifests -> SUBSET Assignments] /\ run \in Runs /\ RunInv
  BY DEF TypeInv, TypeOK
<1>1. CASE CommitAndPush
  <2>0. Current \in Manifests
    BY <1>1, <1>types DEF RunInv, CommitAndPush
  <2>1. CASE told' = [told EXCEPT ![Current] = @ \union {run.ips}]
    BY <2>0, <2>1, <1>types
  <2>2. CASE UNCHANGED told /\ PushFailed
    BY <2>2, IdleType DEF PushFailed, Return, AfterPush
  <2> QED
    BY <1>1, <2>1, <2>2 DEF CommitAndPush, historyVars
<1>2. CASE ~ CommitAndPush
  BY <1>2, Frames
<1> QED
  BY <1>1, <1>2

-----------------------------------------------------------------------------
(* The DUs and CU-UPs follow the CU. *)
LEMMA NextFollowInv == TypeInv /\ FollowInv /\ [Next]_vars => FollowInv'
<1> SUFFICES ASSUME TypeInv, FollowInv, [Next]_vars PROVE FollowInv'
  OBVIOUS
<1>types. run \in Runs /\ RunInv
  BY DEF TypeInv, TypeOK
<1>told. \A m \in Manifests : told[m] \subseteq told'[m]
  BY PushTells
<1>1. CASE UNCHANGED run
  <2>1. run.pc \in AfterPush => Current \in Manifests
    BY <1>types DEF RunInv
  <2> QED
    BY <1>1, <1>told, <2>1 DEF FollowInv, Current
<1>2. CASE run' = Idle
  BY <1>2, IdleType DEF FollowInv, AfterPush
<1>3. CASE Begins
  BY <1>3, IdleType DEF Begins, FollowInv, AfterPush, Runs
<1>4. CASE TurnsToDependents
  <2>1. /\ run'.pc = "userInfo"
        /\ run'.ips = run.ips
    BY <1>4, <1>types DEF TurnsToDependents, Runs
  <2>2. Current \in Manifests /\ run.type = "NFDeployment" /\ run.ips \in told[Current]
    BY <1>4, <1>types DEF TurnsToDependents, SyncTarget, RunInv, FollowInv, AfterPush
  <2> QED
    BY <2>1, <2>2, <1>told DEF FollowInv, AfterPush, Current
<1>5. CASE GoesOn
  <2>1. run'.pc \in AfterPush => run'.ips \in told'[Current']
    <3>1. CASE run.pc \in AfterPush
      BY <1>5, <3>1, <1>types, <1>told DEF GoesOn, FollowInv, RunInv, Current
    <3>2. CASE CommitAndPush
      BY <1>5, <3>2, PushTells DEF GoesOn, Current
    <3> QED
      BY <1>5, <3>1, <3>2 DEF GoesOn
  <2>2. run'.type = "ConfigRef" =>
          \E t \in Manifests : t[2] = "NFDeployment" /\ run'.ips \in told'[t]
    BY <1>5, <1>told DEF GoesOn, FollowInv
  <2> QED
    BY <2>1, <2>2 DEF FollowInv
<1> QED
  BY <1>1, <1>2, <1>3, <1>4, <1>5, RunSteps

(* No push tells a DU or CU-UP what no CU was told. *)
LEMMA NextDependentsFollowTarget ==
  TypeInv /\ FollowInv /\ DependentsFollowTarget /\ [Next]_vars
    => DependentsFollowTarget'
<1> SUFFICES ASSUME TypeInv, FollowInv, DependentsFollowTarget, [Next]_vars,
                    NEW d \in Manifests, d[2] = "ConfigRef", NEW v \in told'[d]
             PROVE  \E t \in Manifests : t[2] = "NFDeployment" /\ v \in told'[t]
  BY DEF DependentsFollowTarget
<1>types. told \in [Manifests -> SUBSET Assignments] /\ run \in Runs /\ RunInv
  BY DEF TypeInv, TypeOK
<1>1. CASE v \in told[d]
  BY <1>1, PushTells DEF DependentsFollowTarget
<1>2. CASE v \notin told[d]
  <2>1. CommitAndPush /\ told' = [told EXCEPT ![Current] = @ \union {run.ips}]
    BY <1>2, Frames DEF CommitAndPush, historyVars
  <2>2. d = Current /\ v = run.ips
    BY <1>2, <2>1, <1>types
  <2>3. run.type = "ConfigRef"
    BY <2>2 DEF Current
  <2> QED
    BY <2>2, <2>3, PushTells DEF FollowInv
<1> QED
  BY <1>1, <1>2

(* What a DU or CU-UP is told, the CU was told before, in every execution. *)
THEOREM Following == Spec => []DependentsFollowTarget
<1>1. Init => FollowInv /\ DependentsFollowTarget
  BY IdleType DEF Init, FollowInv, DependentsFollowTarget, AfterPush
<1>2. TypeInv /\ FollowInv /\ DependentsFollowTarget /\ [Next]_vars
        => FollowInv' /\ DependentsFollowTarget'
  BY NextFollowInv, NextDependentsFollowTarget
<1> QED
  BY <1>1, <1>2, TypeCorrect, PTL DEF Spec

-----------------------------------------------------------------------------
(* The CU's Application is on its way before a DU or CU-UP is told.         *)
Sent ==
  \E t \in Entries :
    /\ IsTargetEntry(t)
    /\ ClusterInfo[t].target # None
    /\ faults = 0 => appFiles > 0 /\ (migrated \/ ClusterInfo[t].target \in ops)

MoveInv ==
  /\ faults = 0 => client \in {"nil", "valid"}
  /\ faults = 0 /\ run.pc \notin {"idle", "initClient"} => client = "valid"
  /\ faults = 0 /\ run.pc = "getTargetClient" /\ TargetCluster # None => appFiles > 0
  /\ faults = 0 /\ run.pc = "syncTarget" => appFiles > 0
  /\ run.type = "ConfigRef" => Sent

(* What only some steps change of Argo CD, and what none takes back. *)
LEMMA ArgoFrames ==
  ASSUME [Next]_vars
  PROVE  /\ UNCHANGED faults \/ Fault
         /\ UNCHANGED appFiles \/ CreateAndPushArgoApp
         /\ UNCHANGED migrated \/ \E c \in ClusterNames : ArgoSync(c)
         /\ UNCHANGED client \/ InitializeGiteaClient \/ RotateCredentials \/ Restart
         /\ \/ UNCHANGED ops
            \/ SyncTarget
            \/ \E c \in ClusterNames : SyncDependent(c)
            \/ \E c \in ClusterNames : ArgoSync(c)
<1> USE DEF apiVars, gitVars, clusterVars, historyVars, NoFault
<1>1. CASE Worker
  BY <1>1
  DEF Worker, Reconcile, InitializeGiteaClient, GetMyUserInfo,
      CheckRepoForMatchingManifests, UpdateManifests, CommitAndPush,
      GetWorkloadClusterClient, DeleteConfig, DeleteConfigPods, DeleteNFDeployment,
      DeletePods, LostDelete, CreateAndPushArgoApp, SyncTarget, NextDependent,
      SyncDependent, TriggerArgoCDSync, ReconcileDone
<1>2. CASE Environment
  BY <1>2
  DEF Environment, EditNFReconfig, DeliverEvent, Resync, ForeignCommit,
      RotateCredentials, Restart, ArgoSync, StartPods
<1>3. CASE UNCHANGED vars
  BY <1>3 DEF vars
<1> QED
  BY <1>1, <1>2, <1>3 DEF Next

(* Faults, Applications and a CU that moved are never taken back. *)
LEMMA ArgoGrows ==
  ASSUME TypeInv, [Next]_vars
  PROVE  /\ faults' = 0 => faults = 0 /\ ~ Fault
         /\ appFiles > 0 => appFiles' > 0
         /\ migrated => migrated'
         /\ (\E c \in ClusterNames : ArgoSync(c)) \/ ops \subseteq ops'
<1>types. faults \in Nat /\ appFiles \in Nat
  BY DEF TypeInv, TypeOK
<1>1. faults' = 0 => faults = 0 /\ ~ Fault
  <2>1. Fault => faults' = faults + 1
    BY DEF Fault
  <2> QED
    BY <1>types, <2>1, ArgoFrames
<1>2. appFiles > 0 => appFiles' > 0
  BY <1>types, ArgoFrames DEF CreateAndPushArgoApp
<1>3. migrated => migrated'
  BY ArgoFrames DEF ArgoSync
<1>4. (\E c \in ClusterNames : ArgoSync(c)) \/ ops \subseteq ops'
  BY ArgoFrames DEF SyncTarget, SyncDependent, TriggerArgoCDSync
<1> QED
  BY <1>1, <1>2, <1>3, <1>4

(* Argo CD takes an operation away by running it, and then the CU is there. *)
LEMMA SentStays == TypeInv /\ Sent /\ [Next]_vars => Sent'
<1> SUFFICES ASSUME TypeInv, Sent, [Next]_vars PROVE Sent'
  OBVIOUS
<1>1. PICK t \in Entries :
        /\ IsTargetEntry(t)
        /\ ClusterInfo[t].target # None
        /\ faults = 0 => appFiles > 0 /\ (migrated \/ ClusterInfo[t].target \in ops)
  BY DEF Sent
<1> SUFFICES ASSUME faults' = 0
             PROVE  appFiles' > 0 /\ (migrated' \/ ClusterInfo[t].target \in ops')
  BY <1>1 DEF Sent
<1>2. appFiles > 0 /\ appFiles' > 0 /\ (migrated \/ ClusterInfo[t].target \in ops)
  BY <1>1, ArgoGrows
<1>3. CASE migrated
  BY <1>2, <1>3, ArgoGrows
<1>4. ASSUME NEW c \in ClusterNames, ArgoSync(c)
      PROVE  migrated' \/ ClusterInfo[t].target \in ops'
  <2>1. CASE c = ClusterInfo[t].target
    BY <1>1, <1>2, <1>4, <2>1 DEF ArgoSync
  <2>2. CASE c # ClusterInfo[t].target
    BY <1>2, <1>3, <1>4, <2>2 DEF ArgoSync
  <2> QED
    BY <2>1, <2>2
<1> QED
  BY <1>2, <1>3, <1>4, ArgoGrows

(* The ways into a handler, to the target cluster's client and to its sync. *)
LEMMA Places ==
  ASSUME TypeInv, [Next]_vars
  PROVE  /\ run'.pc \notin {"idle", "initClient"} =>
              run.pc \notin {"idle", "initClient"} \/ InitializeGiteaClient
         /\ run'.pc = "getTargetClient" => UNCHANGED run \/ CreateAndPushArgoApp
         /\ run'.pc = "syncTarget" =>
              \/ UNCHANGED run
              \/ run.pc = "getTargetClient" /\ TargetCluster # None
<1>types. run \in Runs /\ RunInv
  BY DEF TypeInv, TypeOK
<1>goto. \A l \in Locations : Goto(l) => run'.pc = l
  BY <1>types, GotoFields DEF Goto
<1>return. \A b \in BOOLEAN : Return(b) => run'.pc = "idle"
  BY IdleType DEF Return
<1>teardown. AfterTeardown => run'.pc \in {"next", "createApp"}
  BY <1>types DEF AfterTeardown, Runs
<1>1. CASE Reconcile \/ InitializeGiteaClient \/ GetMyUserInfo
  BY <1>1, <1>types, <1>goto, <1>return, IdleType
  DEF Reconcile, InitializeGiteaClient, UninitializedClient, GetMyUserInfo, Runs, Locations
<1>2. CASE CheckRepoForMatchingManifests \/ UpdateManifests \/ CommitAndPush
  BY <1>2, <1>types, <1>goto, <1>return
  DEF CheckRepoForMatchingManifests, NoMatch, UpdateManifests, CommitAndPush, PushFailed,
      Runs, Locations
<1>3. CASE GetWorkloadClusterClient
  BY <1>3, <1>goto, <1>return
  DEF GetWorkloadClusterClient, NoTargetClient, FirstDeletion, Locations
<1>4. CASE DeleteConfig \/ DeleteConfigPods \/ DeleteNFDeployment \/ DeletePods
  BY <1>4, <1>goto, <1>teardown
  DEF DeleteConfig, DeleteConfigPods, DeleteNFDeployment, DeletePods, Locations
<1>5. CASE CreateAndPushArgoApp
  BY <1>5, <1>goto DEF CreateAndPushArgoApp, Locations
<1>6. CASE SyncTarget
  BY <1>6, <1>types DEF SyncTarget, HandleDependentClusterPkgNF, Runs
<1>7. CASE NextDependent
  BY <1>7, <1>types DEF NextDependent, Runs
<1>8. ASSUME NEW c \in ClusterNames, SyncDependent(c)
      PROVE  run.pc = "sync" /\ run'.pc = "sync"
  BY <1>8, <1>types DEF SyncDependent, Runs
<1>9. CASE ReconcileDone
  BY <1>9, <1>return DEF ReconcileDone
<1>10. CASE Environment
  BY <1>10, IdleType
  DEF Environment, EditNFReconfig, DeliverEvent, Resync, ForeignCommit,
      RotateCredentials, Restart, ArgoSync, StartPods
<1>11. CASE UNCHANGED vars
  BY <1>11 DEF vars
<1> QED
  BY <1>1, <1>2, <1>3, <1>4, <1>5, <1>6, <1>7, <1>8, <1>9, <1>10, <1>11 DEF Next, Worker

(* The client of a run that got past its start is valid without faults.    *)
LEMMA NextClient ==
  ASSUME TypeInv, MoveInv, [Next]_vars, faults' = 0
  PROVE  /\ client' \in {"nil", "valid"}
         /\ run'.pc \notin {"idle", "initClient"} => client' = "valid"
<1>types. run \in Runs /\ RunInv
  BY DEF TypeInv, TypeOK
<1>1. faults = 0 /\ ~ Fault
  BY ArgoGrows
<1>2. /\ client \in {"nil", "valid"}
      /\ run.pc \notin {"idle", "initClient"} => client = "valid"
  BY <1>1 DEF MoveInv
<1>3. CASE InitializeGiteaClient
  BY <1>1, <1>2, <1>3 DEF InitializeGiteaClient
<1>4. CASE UNCHANGED client
  <2>1. run'.pc \notin {"idle", "initClient"} =>
          run.pc \notin {"idle", "initClient"} \/ InitializeGiteaClient
    BY Places
  <2> QED
    BY <1>2, <1>3, <1>4, <2>1
<1> QED
  BY <1>1, <1>3, <1>4, ArgoFrames DEF RotateCredentials, Restart

(* A run comes to the dependents by the target cluster's sync only. *)
LEMMA NextMoveInv == TypeInv /\ MoveInv /\ [Next]_vars => MoveInv'
<1> SUFFICES ASSUME TypeInv, MoveInv, [Next]_vars PROVE MoveInv'
  OBVIOUS
<1>types. run \in Runs /\ RunInv /\ appFiles \in Nat
  BY DEF TypeInv, TypeOK
<1>calm. faults' = 0 => faults = 0 /\ ~ Fault
  BY ArgoGrows
<1>apps. appFiles > 0 => appFiles' > 0
  BY ArgoGrows
<1>client. faults' = 0 =>
             /\ client' \in {"nil", "valid"}
             /\ run'.pc \notin {"idle", "initClient"} => client' = "valid"
  BY NextClient
<1>sent. Sent => Sent'
  BY SentStays
<1>created. ASSUME faults' = 0, run'.pc = "getTargetClient", TargetCluster' # None
            PROVE  appFiles' > 0
  <2>1. CASE UNCHANGED run
    BY <1>created, <1>calm, <1>apps, <2>1 DEF MoveInv, TargetCluster
  <2>2. CASE CreateAndPushArgoApp
    <3>1. TargetCluster # None
      BY <1>created, <1>types, <2>2, GotoFields DEF CreateAndPushArgoApp, Goto, TargetCluster
    <3>2. client = "valid"
      BY <1>calm, <1>created, <2>2 DEF CreateAndPushArgoApp, MoveInv
    <3> QED
      BY <1>calm, <1>created, <1>types, <2>2, <3>1, <3>2 DEF CreateAndPushArgoApp
  <2> QED
    BY <1>created, <2>1, <2>2, Places
<1>synced. ASSUME faults' = 0, run'.pc = "syncTarget" PROVE appFiles' > 0
  <2>1. CASE UNCHANGED run
    BY <1>synced, <1>calm, <1>apps, <2>1 DEF MoveInv
  <2>2. CASE run.pc = "getTargetClient" /\ TargetCluster # None
    BY <1>synced, <1>calm, <1>apps, <2>2 DEF MoveInv
  <2> QED
    BY <1>synced, <2>1, <2>2, Places
<1>turned. ASSUME run'.type = "ConfigRef" PROVE Sent'
  <2>1. CASE run.type = "ConfigRef"
    BY <1>sent, <2>1 DEF MoveInv
  <2>2. CASE TurnsToDependents
    <3>1. /\ run.pc = "syncTarget"
          /\ IsTargetEntry(run.entry)
          /\ Current \in Manifests
          /\ TargetCluster # None
      BY <1>types, <2>2 DEF TurnsToDependents, SyncTarget, RunInv, AfterPush, TargetCluster
    <3>2. run.entry \in Entries
      BY <3>1, EntryTypes DEF Current
    <3>3. faults' = 0 => appFiles' > 0
      BY <1>calm, <1>apps, <3>1 DEF MoveInv
    <3>4. faults' = 0 => TargetCluster \in ops'
      BY <1>calm, <2>2 DEF TurnsToDependents, SyncTarget, TriggerArgoCDSync
    <3> QED
      BY <3>1, <3>2, <3>3, <3>4 DEF Sent, TargetCluster
  <2> QED
    BY <1>turned, <2>1, <2>2, RunSteps, IdleType DEF Begins, GoesOn, Runs
<1> QED
  BY <1>client, <1>created, <1>synced, <1>turned DEF MoveInv

(* A push to a DU's or CU-UP's manifest comes from the dependents' handler. *)
LEMMA NextDependentsFollowMove ==
  TypeInv /\ MoveInv /\ DependentsFollowMove /\ [Next]_vars => DependentsFollowMove'
<1> SUFFICES ASSUME TypeInv, MoveInv, DependentsFollowMove, [Next]_vars,
                    NEW d \in Manifests, d[2] = "ConfigRef", told'[d] # {}
             PROVE  Sent'
  BY DEF DependentsFollowMove, Sent
<1>types. told \in [Manifests -> SUBSET Assignments] /\ run \in Runs /\ RunInv
  BY DEF TypeInv, TypeOK
<1>1. CASE told[d] # {}
  BY <1>1, SentStays DEF DependentsFollowMove, Sent
<1>2. CASE told[d] = {}
  <2>1. CommitAndPush /\ told' = [told EXCEPT ![Current] = @ \union {run.ips}]
    BY <1>2, Frames DEF CommitAndPush, historyVars
  <2>2. run.type = "ConfigRef"
    BY <1>2, <1>types, <2>1 DEF Current
  <2> QED
    BY <2>2, SentStays DEF MoveInv
<1> QED
  BY <1>1, <1>2

(* However a run fails and is retried, no DU or CU-UP is pointed at a CU    *)
(* that was not sent to a target cluster.                                   *)
THEOREM FollowingTheMove == Spec => []DependentsFollowMove
<1>1. Init => MoveInv /\ DependentsFollowMove
  BY IdleType DEF Init, MoveInv, DependentsFollowMove
<1>2. TypeInv /\ MoveInv /\ DependentsFollowMove /\ [Next]_vars
        => MoveInv' /\ DependentsFollowMove'
  BY NextMoveInv, NextDependentsFollowMove
<1> QED
  BY <1>1, <1>2, TypeCorrect, PTL DEF Spec

-----------------------------------------------------------------------------
(* One teardown for every push. *)
LEMMA NextTeardownInv == TypeInv /\ TeardownInv /\ [Next]_vars => TeardownInv'
<1> SUFFICES ASSUME TypeInv, TeardownInv, [Next]_vars, NEW m \in Manifests
             PROVE  teardowns'[m] + (IF Owes(m)' THEN 1 ELSE 0) <= pushes'[m]
  BY DEF TeardownInv
<1>types. /\ run \in Runs /\ RunInv
          /\ pushes \in [Manifests -> Nat]
          /\ teardowns \in [Manifests -> Nat]
  BY DEF TypeInv, TypeOK
<1>before. /\ teardowns[m] \in Nat /\ pushes[m] \in Nat
           /\ teardowns[m] <= pushes[m]
           /\ Owes(m) => teardowns[m] + 1 <= pushes[m]
  BY <1>types DEF TeardownInv
<1>owes. Owes(m)' => Owes(m) \/ CommitAndPush
  <2>1. CASE UNCHANGED run
    BY <2>1 DEF Owes, Owing, Current
  <2>2. CASE run' = Idle \/ Begins
    BY <2>2, IdleType DEF Begins, Owes, Owing, Runs
  <2>3. CASE TurnsToDependents
    BY <2>3, <1>types DEF TurnsToDependents, Owes, Owing, Runs
  <2>4. CASE GoesOn
    BY <2>4 DEF GoesOn, Owes, Owing, Current, AfterPush
  <2> QED
    BY <2>1, <2>2, <2>3, <2>4, RunSteps
<1>1. CASE CommitAndPush
  <2>1. ~ Owes(m)
    BY <1>1 DEF CommitAndPush, Owes, Owing
  <2>2. UNCHANGED teardowns
    BY <1>1 DEF CommitAndPush, historyVars
  <2>3. CASE UNCHANGED pushes /\ PushFailed
    BY <2>2, <2>3, <1>before, IdleType DEF PushFailed, Return, Owes, Owing
  <2>4. CASE pushes' = [pushes EXCEPT ![Current] = @ + 1]
    <3>1. pushes'[m] = pushes[m] \/ (m = Current /\ pushes'[m] = pushes[m] + 1)
      BY <2>4, <1>types
    <3>2. Owes(m)' => m = Current
      BY <1>1, GotoFields, IdleType, <1>types
      DEF CommitAndPush, PushFailed, Return, Goto, Owes, Owing, Current, Locations
    <3>3. m = Current => pushes'[m] = pushes[m] + 1
      BY <2>4, <1>types
    <3> QED
      BY <3>1, <3>2, <3>3, <2>2, <1>before
  <2> QED
    BY <1>1, <2>3, <2>4 DEF CommitAndPush, historyVars
<1>2. CASE (DeleteConfig \/ DeleteNFDeployment) /\ CountTeardown /\ Owing
  <2>1. UNCHANGED pushes
    BY <1>2 DEF DeleteConfig, DeleteNFDeployment
  <2>2. ~ Owing'
    BY <1>2, <1>types, GotoFields
    DEF DeleteConfig, DeleteNFDeployment, AfterTeardown, Goto, Owing, Locations, Runs
  <2>3. teardowns'[m] = IF m = Current THEN teardowns[m] + 1 ELSE teardowns[m]
    BY <1>2, <1>types DEF CountTeardown
  <2>4. m = Current => Owes(m)
    BY <1>2 DEF Owes
  <2> QED
    BY <2>1, <2>2, <2>3, <2>4, <1>before DEF Owes
<1>3. CASE ~ CommitAndPush /\ UNCHANGED teardowns
  BY <1>3, <1>before, <1>owes, Frames
<1>4. DeleteConfig => CountTeardown /\ Owing
  BY DEF DeleteConfig, Owing
<1>5. DeleteNFDeployment => (CountTeardown /\ Owing) \/ UNCHANGED teardowns
  BY <1>types DEF DeleteNFDeployment, Owing
<1>6. DeleteNFDeployment => ~ CommitAndPush
  BY DEF DeleteNFDeployment, CommitAndPush
<1> QED
  BY <1>1, <1>2, <1>3, <1>4, <1>5, <1>6, Frames

(* Whatever is retried or delivered again, there is a pushed commit for     *)
(* every teardown.                                                          *)
THEOREM TeardownsArePaidFor == Spec => []OneTeardownPerPush
<1>1. Init => TeardownInv
  BY IdleType DEF Init, TeardownInv, Owes, Owing
<1>2. TypeInv /\ TeardownInv /\ [Next]_vars => TeardownInv'
  BY NextTeardownInv
<1>3. TypeInv /\ TeardownInv => OneTeardownPerPush
  <2> SUFFICES ASSUME TypeInv, TeardownInv, NEW m \in Manifests
               PROVE  teardowns[m] <= pushes[m]
    BY DEF OneTeardownPerPush
  <2>1. teardowns[m] \in Nat /\ pushes[m] \in Nat
    BY DEF TypeInv, TypeOK
  <2> QED
    BY <2>1 DEF TeardownInv
<1> QED
  BY <1>1, <1>2, <1>3, TypeCorrect, PTL DEF Spec

-----------------------------------------------------------------------------
(* What a clone is worth. *)
LEMMA OwnFilesInRepo ==
  ASSUME NEW m \in Manifests
  PROVE  \A f \in OwnFiles(m[1], m[2]) : f \in Files /\ RepoOf(f) = RepoOf(m)
BY EntryTypes DEF OwnFiles, Manifests, Files, RepoOf, ManifestTypes

(* A foreign commit moves the branch, and changes one file. *)
LEMMA ForeignCommitMoves ==
  ASSUME TypeInv, ForeignCommit
  PROVE  \E f \in Files :
           /\ \A g \in Files : g # f => head'[g] = head[g]
           /\ rev'[RepoOf(f)] = rev[RepoOf(f)] + 1
           /\ \A r \in ClusterNames : r # RepoOf(f) => rev'[r] = rev[r]
<1>1. head \in [Files -> Contents] /\ rev \in [ClusterNames -> Nat]
  BY DEF TypeInv, TypeOK
<1>2. PICK f \in Files, v \in Assignments :
         /\ head' = [head EXCEPT ![f] = [ips |-> v, canonical |-> FALSE]]
         /\ rev' = [rev EXCEPT ![RepoOf(f)] = @ + 1]
  BY DEF ForeignCommit
<1>3. RepoOf(f) \in ClusterNames
  BY EntryTypes
<1> QED
  BY <1>1, <1>2, <1>3, Increment

(* Every step preserves what is known of the clone. *)
LEMMA NextCloneInv == TypeInv /\ CloneInv /\ [Next]_vars => CloneInv'
<1> SUFFICES ASSUME TypeInv, CloneInv, [Next]_vars, run'.pc \in {"update", "push"}
             PROVE  /\ run'.base <= rev'[CurrentRepo']
                    /\ rev'[CurrentRepo'] = run'.base =>
                         /\ \A f \in Files : RepoOf(f) = CurrentRepo' =>
                              run'.tree[f] = Expected(f)'
                         /\ run'.pc = "push" /\ run'.dirty =>
                              \E f \in OwnFiles(run.entry, run.type)' :
                                Expected(f)' # head'[f]
  BY DEF CloneInv
<1>types. /\ run \in Runs /\ RunInv
          /\ head \in [Files -> Contents]
          /\ rev \in [ClusterNames -> Nat]
  BY DEF TypeInv, TypeOK
<1>1. CASE UNCHANGED run
  <2>0. /\ Current \in Manifests
        /\ CurrentRepo \in ClusterNames
        /\ CurrentRepo' = CurrentRepo
        /\ \A f \in OwnFiles(run.entry, run.type) : f \in Files /\ RepoOf(f) = CurrentRepo
    <3>1. Current \in Manifests
      BY <1>1, <1>types DEF RunInv
    <3> QED
      BY <1>1, <3>1, OwnFilesInRepo, EntryTypes DEF Current, CurrentRepo, RepoOf
  <2>1. CASE UNCHANGED <<head, rev>>
    BY <1>1, <2>1, <2>0 DEF CloneInv, Expected
  <2>2. CASE ForeignCommit
    <3>1. PICK f \in Files :
            /\ \A g \in Files : g # f => head'[g] = head[g]
            /\ rev'[RepoOf(f)] = rev[RepoOf(f)] + 1
            /\ \A r \in ClusterNames : r # RepoOf(f) => rev'[r] = rev[r]
      BY <2>2, ForeignCommitMoves
    <3>2. CASE RepoOf(f) = CurrentRepo
      <4>1. /\ run.base \in Nat /\ rev[CurrentRepo] \in Nat
            /\ run.base <= rev[CurrentRepo]
        BY <1>1, <2>0, <1>types DEF CloneInv, Runs
      <4>2. rev'[CurrentRepo] = rev[CurrentRepo] + 1
        BY <3>1, <3>2
      <4> QED
        BY <1>1, <2>0, <4>1, <4>2
    <3>3. CASE RepoOf(f) # CurrentRepo
      <4>1. rev'[CurrentRepo] = rev[CurrentRepo]
        BY <2>0, <3>1, <3>3
      <4>2. \A g \in Files : RepoOf(g) = CurrentRepo => head'[g] = head[g]
        BY <3>1, <3>3
      <4>3. \A g \in Files : RepoOf(g) = CurrentRepo => Expected(g)' = Expected(g)
        BY <1>1, <4>2 DEF Expected
      <4> QED
        BY <1>1, <2>0, <4>1, <4>2, <4>3 DEF CloneInv
    <3> QED
      BY <3>2, <3>3
  <2>3. ~ CommitAndPush /\ ~ CreateAndPushArgoApp
    <3>1. CommitAndPush => run.pc = "push" /\ run'.pc \in {"getClient", "idle"}
      BY <1>types, IdleType, GotoFields
      DEF CommitAndPush, PushFailed, Return, Goto, Locations
    <3> QED
      BY <1>1, <3>1 DEF CreateAndPushArgoApp
  <2> QED
    BY <2>1, <2>2, <2>3, Frames
<1>2. CASE CheckRepoForMatchingManifests /\ run'.pc = "update"
  <2>1. run' = [run EXCEPT
             !.pc = "update",
             !.tree = [f \in Files |-> IF RepoOf(f) = CurrentRepo
                                       THEN head[f] ELSE EmptyTree[f]],
             !.base = rev[CurrentRepo]]
    BY <1>2, <1>types, IdleType, GotoFields
    DEF CheckRepoForMatchingManifests, NoMatch, Return, Goto, Locations
  <2>2. /\ run'.entry = run.entry
        /\ run'.base = rev[CurrentRepo]
        /\ \A f \in Files : RepoOf(f) = CurrentRepo => run'.tree[f] = head[f]
    BY <2>1, <1>types DEF Runs
  <2>3. UNCHANGED <<head, rev>>
    BY <1>2 DEF CheckRepoForMatchingManifests, gitVars
  <2>4. CurrentRepo' = CurrentRepo /\ rev[CurrentRepo] \in Nat
    <3>1. run'.base \in Nat
      BY NextTypeInv DEF TypeInv, TypeOK, Runs
    <3> QED
      BY <2>2, <3>1 DEF CurrentRepo
  <2> QED
    BY <1>2, <2>2, <2>3, <2>4 DEF Expected
<1>3. CASE UpdateManifests /\ run'.pc = "push"
  <2> DEFINE own == OwnFiles(run.entry, run.type)
             tree == [f \in Files |-> IF f \in own THEN Rewrite(run.tree[f], run.ips)
                                                   ELSE run.tree[f]]
  <2>0. run.pc = "update"
    BY <1>3 DEF UpdateManifests
  <2>1. run' = [run EXCEPT !.pc = "push", !.tree = tree, !.dirty = (tree # run.tree)]
    BY <1>3, <1>types, IdleType DEF UpdateManifests, Return
  <2>2. /\ run'.entry = run.entry
        /\ run'.type = run.type
        /\ run'.ips = run.ips
        /\ run'.base = run.base
        /\ run'.tree = tree
        /\ run'.dirty = (tree # run.tree)
    BY <2>1, <1>types DEF Runs
  <2>3. UNCHANGED <<head, rev>>
    BY <1>3 DEF UpdateManifests, gitVars
  <2>4. CurrentRepo' = CurrentRepo /\ OwnFiles(run.entry, run.type)' = own
    BY <2>2 DEF CurrentRepo, OwnFiles
  <2>5. run.base <= rev[CurrentRepo]
    BY <2>0 DEF CloneInv
  <2>6. ASSUME rev[CurrentRepo] = run.base
        PROVE  /\ \A f \in Files : RepoOf(f) = CurrentRepo => tree[f] = Expected(f)'
               /\ tree # run.tree => \E f \in own : Expected(f)' # head[f]
    <3>1. \A f \in Files : RepoOf(f) = CurrentRepo => run.tree[f] = head[f]
      BY <2>0, <2>6 DEF CloneInv, Expected
    <3>2. \A f \in own : f \in Files /\ RepoOf(f) = CurrentRepo
      <4>1. Current \in Manifests
        BY <2>0, <1>types DEF RunInv
      <4> QED
        BY <4>1, OwnFilesInRepo DEF Current, CurrentRepo, RepoOf
    <3>3. \A f \in Files : Expected(f)' = IF f \in own THEN Rewrite(head[f], run.ips)
                                                      ELSE head[f]
      BY <1>3, <2>2, <2>3, <2>4 DEF Expected
    <3>4. \A f \in Files : RepoOf(f) = CurrentRepo => tree[f] = Expected(f)'
      BY <3>1, <3>3
    <3>5. ASSUME tree # run.tree PROVE \E f \in own : Expected(f)' # head[f]
      <4>1. run.tree \in [Files -> Contents]
        BY <1>types DEF Runs
      <4>2. PICK f \in Files : tree[f] # run.tree[f]
        BY <3>5, <4>1
      <4>3. f \in own
        BY <4>2
      <4> QED
        BY <4>2, <4>3, <3>1, <3>2, <3>4
    <3> QED
      BY <3>4, <3>5
  <2> QED
    BY <2>2, <2>3, <2>4, <2>5, <2>6
<1>4. run' # Idle /\ ~ Begins /\ ~ TurnsToDependents
  <2>1. Begins => run'.pc = "initClient"
    BY IdleType DEF Begins, Runs
  <2>2. TurnsToDependents => run'.pc = "userInfo"
    BY <1>types DEF TurnsToDependents, Runs
  <2> QED
    BY <2>1, <2>2, IdleType
<1>5. CASE GoesOn
  BY <1>2, <1>3, <1>5 DEF GoesOn
<1> QED
  BY <1>1, <1>4, <1>5, RunSteps

(* The files a push changes, and what it makes of them. *)
LEMMA PushChanges ==
  ASSUME TypeInv, CloneInv, CommitAndPush, NEW f \in Files, head'[f] # head[f]
  PROVE  /\ f \in OwnFiles(run.entry, run.type)
         /\ head'[f] = Rewrite(head[f], run.ips)
<1>1. head \in [Files -> Contents]
  BY DEF TypeInv, TypeOK
<1>2. /\ run.pc = "push"
      /\ PushAccepted
      /\ head' = [g \in Files |-> IF RepoOf(g) = CurrentRepo
                                  THEN run.tree[g] ELSE head[g]]
  BY DEF CommitAndPush, gitVars
<1>3. RepoOf(f) = CurrentRepo /\ head'[f] = run.tree[f]
  BY <1>1, <1>2
<1>4. run.tree[f] = Expected(f)
  BY <1>2, <1>3 DEF CloneInv, PushAccepted
<1> QED
  BY <1>2, <1>3, <1>4 DEF Expected

(* A content that Rewrite changes carries the new assignment. *)
LEMMA RewriteIps ==
  ASSUME NEW c, NEW v, Rewrite(c, v) # c
  PROVE  Rewrite(c, v).ips = v
BY DEF Rewrite

(* Rewriting a file a second time changes nothing. *)
LEMMA RewriteTwice ==
  ASSUME NEW c, NEW v
  PROVE  Rewrite(Rewrite(c, v), v) = Rewrite(c, v)
BY DEF Rewrite

(* A push never undoes the work of other committers, in every execution.    *)
THEOREM ForeignWorkIsSafe == Spec => PushPreservesForeignWork
<1> DEFINE A == foreign' = foreign =>
                  \A f \in Files : head'[f] # head[f] =>
                    /\ f \in OwnFiles(run.entry, run.type)
                    /\ head'[f].ips = run.ips
<1>1. Init => CloneInv
  BY IdleType DEF Init, CloneInv
<1>2. TypeInv /\ CloneInv /\ [Next]_vars => CloneInv'
  BY NextCloneInv
<1>3. TypeInv /\ CloneInv /\ [Next]_vars => [A]_vars
  <2> SUFFICES ASSUME TypeInv, CloneInv, [Next]_vars, foreign' = foreign,
                      NEW f \in Files, head'[f] # head[f]
               PROVE  /\ f \in OwnFiles(run.entry, run.type)
                      /\ head'[f].ips = run.ips
    OBVIOUS
  <2>1. ~ ForeignCommit
    BY DEF ForeignCommit, TypeInv, TypeOK
  <2>2. CommitAndPush
    BY <2>1, Frames
  <2> QED
    BY <2>2, PushChanges, RewriteIps
<1> QED
  BY <1>1, <1>2, <1>3, TypeCorrect, PTL DEF Spec, PushPreservesForeignWork

(* Nothing is torn down before it is published, in every execution. *)
THEOREM PublishedBeforeTeardown == Spec => TeardownOnlyAfterPublish
<1> DEFINE A == \A e \in Entries : ~ (alive[e] \subseteq alive'[e]) =>
                  /\ e = run.entry
                  /\ run.ips \in told[Current]
<1>1. Init => FollowInv
  BY IdleType DEF Init, FollowInv, AfterPush
<1>2. TypeInv /\ FollowInv /\ [Next]_vars => FollowInv'
  BY NextFollowInv
<1>3. TypeInv /\ FollowInv /\ [Next]_vars => [A]_vars
  <2> SUFFICES ASSUME TypeInv, FollowInv, [Next]_vars,
                      NEW e \in Entries, ~ (alive[e] \subseteq alive'[e])
               PROVE  e = run.entry /\ run.ips \in told[Current]
    OBVIOUS
  <2>1. alive \in [Entries -> SUBSET Kinds]
    BY DEF TypeInv, TypeOK
  <2>2. ASSUME NEW k, alive' = Without(k) PROVE e = run.entry
    BY <2>1, <2>2 DEF Without
  <2>3. CASE DeleteConfig \/ DeleteConfigPods \/ DeleteNFDeployment \/ DeletePods
    <3>1. run.pc \in AfterPush
      BY <2>3 DEF DeleteConfig, DeleteConfigPods, DeleteNFDeployment, DeletePods, AfterPush
    <3>2. \E k : alive' = Without(k)
      BY <2>3 DEF DeleteConfig, DeleteConfigPods, DeleteNFDeployment, DeletePods, LostDelete
    <3> QED
      BY <3>1, <3>2, <2>2 DEF FollowInv
  <2>4. ASSUME NEW c, ArgoSync(c) PROVE FALSE
    BY <2>1, <2>4 DEF ArgoSync
  <2>5. ASSUME NEW g, StartPods(g) PROVE FALSE
    BY <2>1, <2>5 DEF StartPods
  <2>6. DeleteConfig \/ DeleteConfigPods \/ DeleteNFDeployment \/ DeletePods
    <3> USE DEF clusterVars
    <3>1. CASE Worker
      BY <3>1
      DEF Worker, Reconcile, InitializeGiteaClient, GetMyUserInfo,
          CheckRepoForMatchingManifests, UpdateManifests, CommitAndPush,
          GetWorkloadClusterClient, CreateAndPushArgoApp, SyncTarget, NextDependent,
          SyncDependent, ReconcileDone
    <3>2. CASE Environment
      BY <3>2, <2>4, <2>5
      DEF Environment, EditNFReconfig, DeliverEvent, Resync, ForeignCommit,
          RotateCredentials, Restart
    <3> QED
      BY <3>1, <3>2 DEF Next, vars
  <2> QED
    BY <2>3, <2>6
<1> QED
  BY <1>1, <1>2, <1>3, TypeCorrect, PTL DEF Spec, TeardownOnlyAfterPublish

-----------------------------------------------------------------------------
(* No commit is repeated. *)

(* Whether assignment v would change m's files, were their contents h. *)
Changes(h, m, v) ==
  /\ v \in Assignments
  /\ \E f \in OwnFiles(m[1], m[2]) : Rewrite(h[f], v) # h[f]

(* CommitsToCome, of the values it is made of. *)
Cost(h, m, working, inCache, asked) ==
  (IF Changes(h, m, working) THEN 1 ELSE 0)
    + (IF working # inCache THEN 1 ELSE 0)
    + (IF inCache # asked THEN 1 ELSE 0)

(* CommitsToCome, as a function of the three places an assignment waits in. *)
LEMMA CostOf ==
  ASSUME NEW m
  PROVE  CommitsToCome(m) = Cost(head, m, Working, cached, nfr)
BY DEF CommitsToCome, Cost, Stale, Changes

(* The commits to come are a number. *)
LEMMA CostNat ==
  ASSUME NEW h, NEW m, NEW x, NEW y, NEW z
  PROVE  Cost(h, m, x, y, z) \in 0 .. 3
BY DEF Cost

(* Going on to the next value costs nothing new. *)
LEMMA CostNext ==
  ASSUME NEW h, NEW m, NEW x, NEW y, NEW z
  PROVE  /\ Cost(h, m, y, y, z) <= Cost(h, m, x, y, z)
         /\ y # z => Cost(h, m, x, z, z) <= Cost(h, m, x, y, z)
         /\ Cost(h, m, z, z, z) <= Cost(h, m, x, y, z)
         /\ \A a : Cost(h, m, x, y, a) <= Cost(h, m, x, y, z) + 1
         /\ \A g : Cost(g, m, x, y, z) <= Cost(h, m, x, y, z) + 1
         /\ \A g : Changes(h, m, x) /\ ~ Changes(g, m, x)
               => Cost(g, m, x, y, z) + 1 <= Cost(h, m, x, y, z)
<1>1. CASE x = y /\ y = z
  BY <1>1 DEF Cost
<1>2. CASE x = y /\ y # z
  BY <1>2 DEF Cost
<1>3. CASE x # y /\ y = z
  BY <1>3 DEF Cost
<1>4. CASE x # y /\ y # z
  BY <1>4 DEF Cost
<1> QED
  BY <1>1, <1>2, <1>3, <1>4

(* What a manifest costs depends on its own files only. *)
LEMMA CostFrame ==
  ASSUME NEW m, NEW h, NEW g, NEW x, NEW y, NEW z,
         \A f \in OwnFiles(m[1], m[2]) : g[f] = h[f]
  PROVE  Cost(g, m, x, y, z) = Cost(h, m, x, y, z)
BY DEF Cost, Changes

(* Other manifests own none of a manifest's files. *)
LEMMA OwnFilesDisjoint ==
  ASSUME NEW m \in Manifests, NEW n \in Manifests, m # n,
         NEW f \in OwnFiles(m[1], m[2])
  PROVE  f \notin OwnFiles(n[1], n[2])
BY EntryTypes DEF OwnFiles, Manifests, Files, ManifestTypes

(* What the run works with, from step to step. *)
LEMMA WorkingSteps ==
  ASSUME TypeInv, [Next]_vars, UNCHANGED cached
  PROVE  Working' = Working \/ Working' = cached
<1>types. run \in Runs /\ RunInv
  BY DEF TypeInv, TypeOK
<1>1. CASE UNCHANGED run
  BY <1>1 DEF Working
<1>2. CASE run' = Idle
  BY <1>2, IdleType DEF Working
<1>3. CASE Begins
  <2>1. run'.pc = "initClient" /\ run'.ips = cached
    BY <1>3, IdleType DEF Begins, Runs
  <2> QED
    BY <2>1 DEF Working
<1>4. CASE TurnsToDependents
  <2>1. run'.pc = "userInfo" /\ run'.ips = run.ips /\ run.pc = "syncTarget"
    BY <1>4, <1>types DEF TurnsToDependents, SyncTarget, Runs
  <2> QED
    BY <2>1 DEF Working
<1>5. CASE GoesOn
  BY <1>5 DEF GoesOn, Working
<1> QED
  BY <1>1, <1>2, <1>3, <1>4, <1>5, RunSteps

(* A push spends one of the commits to come of its manifest. *)
LEMMA CommitCosts ==
  ASSUME TypeInv, CloneInv, CommitInv, [Next]_vars, CommitAndPush,
         NEW m \in Manifests
  PROVE  pushes'[m] + CommitsToCome(m)' <= edits' + foreign'
<1>types. /\ run \in Runs /\ RunInv
          /\ pushes \in [Manifests -> Nat]
          /\ edits \in Nat /\ foreign \in Nat
          /\ head \in [Files -> Contents]
  BY DEF TypeInv, TypeOK
<1>1. /\ UNCHANGED <<nfr, cached, edits, foreign>>
      /\ run.pc = "push" /\ Current \in Manifests
      /\ Working = run.ips
  BY <1>types DEF CommitAndPush, apiVars, gitVars, RunInv, Working
<1> DEFINE before == Cost(head, m, run.ips, cached, nfr)
           after == Cost(head', m, run.ips, cached, nfr)
           final == Cost(head', m, Working', cached, nfr)
<1>2. pushes[m] + before <= edits + foreign
  BY <1>1, CostOf DEF CommitInv
<1>3. CommitsToCome(m)' = final
  BY <1>1 DEF CommitsToCome, Cost, Stale, Changes
<1>4. final <= after
  <2>1. Working' = run.ips \/ Working' = cached
    BY <1>1, WorkingSteps
  <2>2. Cost(head', m, cached, cached, nfr) <= after
    BY CostNext
  <2>3. after \in 0 .. 3
    BY CostNat
  <2> QED
    BY <2>1, <2>2, <2>3
<1>5. before \in 0 .. 3 /\ after \in 0 .. 3 /\ final \in 0 .. 3
  BY CostNat
<1> HIDE DEF before, after, final
<1>6. CASE UNCHANGED <<head, pushes>>
  <2>1. after = before
    BY <1>6 DEF after, before
  <2> QED
    BY <1>1, <1>2, <1>3, <1>4, <1>5, <1>6, <2>1, <1>types
<1>7. CASE /\ CommitAccepted /\ PushAccepted
           /\ head' = [f \in Files |-> IF RepoOf(f) = CurrentRepo
                                       THEN run.tree[f] ELSE head[f]]
           /\ pushes' = [pushes EXCEPT ![Current] = @ + 1]
  <2>1. \A f \in Files : head'[f] # head[f] =>
          f \in OwnFiles(run.entry, run.type) /\ head'[f] = Rewrite(head[f], run.ips)
    BY PushChanges
  <2>2. CASE m # Current
    <3>1. pushes'[m] = pushes[m]
      BY <1>7, <2>2, <1>types
    <3>2. \A f \in OwnFiles(m[1], m[2]) : head'[f] = head[f]
      BY <1>1, <2>1, <2>2, OwnFilesDisjoint, OwnFilesInRepo DEF Current
    <3>3. after = before
      BY <3>2, CostFrame DEF after, before
    <3> QED
      BY <1>1, <1>2, <1>3, <1>4, <1>5, <3>1, <3>3, <1>types
  <2>3. CASE m = Current
    <3>1. pushes'[m] = pushes[m] + 1
      BY <1>7, <2>3, <1>types
    <3>2. m[1] = run.entry /\ m[2] = run.type
      BY <2>3 DEF Current
    <3>3. \A f \in OwnFiles(m[1], m[2]) : f \in Files /\ RepoOf(f) = CurrentRepo
      BY <3>2, OwnFilesInRepo DEF RepoOf, CurrentRepo
    <3>4. Changes(head, m, run.ips)
      <4>1. PICK f \in OwnFiles(run.entry, run.type) : Expected(f) # head[f]
        BY <1>1, <1>7 DEF CloneInv, CommitAccepted, PushAccepted
      <4>2. Rewrite(head[f], run.ips) # head[f]
        BY <1>1, <4>1 DEF Expected
      <4>3. run.ips \in Assignments
        BY <1>1, <1>types DEF RunInv
      <4> QED
        BY <3>2, <4>1, <4>2, <4>3 DEF Changes
    <3>5. ~ Changes(head', m, run.ips)
      <4> SUFFICES ASSUME NEW f \in OwnFiles(run.entry, run.type)
                   PROVE  Rewrite(head'[f], run.ips) = head'[f]
        BY <3>2 DEF Changes
      <4>1. head'[f] = Rewrite(head[f], run.ips)
        <5>1. /\ f \in Files
              /\ RepoOf(f) = CurrentRepo
          BY <3>2, <3>3
        <5>2. head'[f] = run.tree[f]
          BY <1>7, <5>1
        <5>3. run.tree[f] = Expected(f)
          BY <1>1, <1>7, <5>1 DEF CloneInv, PushAccepted
        <5> QED
          BY <1>1, <5>2, <5>3 DEF Expected
      <4> QED
        BY <4>1, RewriteTwice
    <3>6. after + 1 <= before
      BY <3>4, <3>5, CostNext DEF after, before
    <3> QED
      BY <1>1, <1>2, <1>3, <1>4, <1>5, <3>1, <3>6, <1>types
  <2> QED
    BY <2>2, <2>3
<1> QED
  BY <1>6, <1>7 DEF CommitAndPush, gitVars, historyVars

(* Every step preserves that the commits to come were asked for. *)
LEMMA NextCommitInv == TypeInv /\ CloneInv /\ CommitInv /\ [Next]_vars => CommitInv'
<1> SUFFICES ASSUME TypeInv, CloneInv, CommitInv, [Next]_vars, NEW m \in Manifests
             PROVE  pushes'[m] + CommitsToCome(m)' <= edits' + foreign'
  BY DEF CommitInv
<1>types. /\ run \in Runs /\ RunInv
          /\ pushes[m] \in Nat
          /\ edits \in Nat /\ foreign \in Nat
  BY DEF TypeInv, TypeOK
<1> DEFINE before == Cost(head, m, Working, cached, nfr)
           after == Cost(head', m, Working', cached', nfr')
<1>1. pushes[m] + before <= edits + foreign
  BY CostOf DEF CommitInv
<1>2. CommitsToCome(m)' = after
  BY DEF CommitsToCome, Cost, Stale, Changes
<1>3. before \in 0 .. 3 /\ after \in 0 .. 3
  BY CostNat
<1>4. CASE CommitAndPush
  BY <1>4, CommitCosts
<1>5. CASE EditNFReconfig
  <2>1. /\ UNCHANGED <<head, run, cached, pushes, foreign>>
        /\ edits' = edits + 1
    BY <1>5 DEF EditNFReconfig, gitVars, historyVars
  <2>2. Working' = Working
    BY <2>1 DEF Working
  <2>3. after <= before + 1
    BY <2>1, <2>2, CostNext
  <2> HIDE DEF before, after
  <2> QED
    BY <1>1, <1>2, <1>3, <2>1, <2>3, <1>types
<1>6. CASE DeliverEvent
  <2>1. /\ UNCHANGED <<head, run, nfr, pushes, edits, foreign>>
        /\ cached' = nfr
        /\ cached # nfr
    BY <1>6 DEF DeliverEvent, gitVars, historyVars
  <2>2. Working' = Working \/ Working' = nfr
    BY <2>1 DEF Working
  <2>3. after <= before
    <3>1. Cost(head, m, Working, nfr, nfr) <= before
      BY <2>1, CostNext
    <3>2. Cost(head, m, nfr, nfr, nfr) <= before
      BY CostNext
    <3> QED
      BY <2>1, <2>2, <3>1, <3>2
  <2> HIDE DEF before, after
  <2> QED
    BY <1>1, <1>2, <1>3, <2>1, <2>3, <1>types
<1>7. CASE Restart
  <2>1. /\ UNCHANGED <<head, nfr, pushes, edits, foreign>>
        /\ cached' = nfr
        /\ run' = Idle
    BY <1>7 DEF Restart, gitVars, historyVars
  <2>2. Working' = nfr
    BY <2>1, IdleType DEF Working
  <2>3. after <= before
    BY <2>1, <2>2, CostNext
  <2> HIDE DEF before, after
  <2> QED
    BY <1>1, <1>2, <1>3, <2>1, <2>3, <1>types
<1>8. CASE ForeignCommit
  <2>1. /\ UNCHANGED <<run, cached, nfr, pushes, edits>>
        /\ foreign' = foreign + 1
    BY <1>8 DEF ForeignCommit, apiVars, historyVars
  <2>2. Working' = Working
    BY <2>1 DEF Working
  <2>3. after <= before + 1
    BY <2>1, <2>2, CostNext
  <2> HIDE DEF before, after
  <2> QED
    BY <1>1, <1>2, <1>3, <2>1, <2>3, <1>types
<1>9. CASE /\ ~ CommitAndPush /\ ~ EditNFReconfig /\ ~ DeliverEvent /\ ~ Restart
           /\ ~ ForeignCommit
  <2>1. UNCHANGED <<head, nfr, cached, pushes, edits, foreign>>
    BY <1>9, Frames
  <2>2. Working' = Working \/ Working' = cached
    BY <2>1, WorkingSteps
  <2>3. after <= before
    <3>1. Cost(head, m, cached, cached, nfr) <= before
      BY CostNext
    <3> QED
      BY <2>1, <2>2, <3>1, <1>3
  <2> HIDE DEF before, after
  <2> QED
    BY <1>1, <1>2, <1>3, <2>1, <2>3, <1>types
<1> QED
  BY <1>4, <1>5, <1>6, <1>7, <1>8, <1>9

(* However often a key is delivered again, each request and each foreign    *)
(* change costs a manifest one commit at most.                              *)
THEOREM CommitsAreNotRepeated == Spec => []NoRepeatedCommits
<1>1. Init => CloneInv /\ CommitInv
  <2> SUFFICES ASSUME Init PROVE CloneInv /\ CommitInv
    OBVIOUS
  <2>1. CloneInv
    BY IdleType DEF Init, CloneInv
  <2>2. Working = Deleted /\ Deleted \notin Assignments
    <3>1. Working = Deleted
      BY IdleType DEF Init, Working
    <3>2. Deleted \in {NoIPv4, Deleted, Absent, Broken, None}
      OBVIOUS
    <3> QED
      BY <3>1, <3>2, SentinelAssumption
  <2>3. \A m \in Manifests : CommitsToCome(m) = 0
    <3>1. \A m \in Manifests : ~ Stale(m, Working)
      BY <2>2 DEF Stale
    <3>2. Working = cached /\ cached = nfr
      BY <2>2 DEF Init
    <3> QED
      BY <3>1, <3>2 DEF CommitsToCome
  <2>4. \A m \in Manifests : pushes[m] = 0
    BY DEF Init
  <2>5. edits = 0 /\ foreign = 0
    BY DEF Init
  <2> QED
    BY <2>1, <2>3, <2>4, <2>5 DEF CommitInv
<1>2. TypeInv /\ CloneInv /\ CommitInv /\ [Next]_vars => CloneInv' /\ CommitInv'
  BY NextCloneInv, NextCommitInv
<1>3. TypeInv /\ CommitInv => NoRepeatedCommits
  <2> SUFFICES ASSUME TypeInv, CommitInv, NEW m \in Manifests
               PROVE  pushes[m] <= edits + foreign
    BY DEF NoRepeatedCommits
  <2>1. pushes[m] \in Nat /\ edits \in Nat /\ foreign \in Nat
    BY DEF TypeInv, TypeOK
  <2>2. CommitsToCome(m) \in 0 .. 3
    BY CostOf, CostNat
  <2>3. pushes[m] + CommitsToCome(m) <= edits + foreign
    BY DEF CommitInv
  <2> QED
    BY <2>1, <2>2, <2>3
<1> QED
  BY <1>1, <1>2, <1>3, TypeCorrect, PTL DEF Spec

-----------------------------------------------------------------------------
(* One CU. *)

(* There is one entry to move at most, and a run in the CU's handler is at  *)
(* it.                                                                      *)
LEMMA OneTarget ==
  ASSUME NEW e \in Entries, NEW g, IsTargetEntry(e), IsTargetEntry(g)
  PROVE  g = e
<1>1. e \in Nat /\ e # 0
  BY EntryTypes DEF Entries
<1>2. g # 0
  BY <1>1 DEF IsTargetEntry
<1> QED
  BY <1>1, <1>2, EntryTypes DEF IsTargetEntry, Entries

(* What a step without faults may do to the CU's entry and its run. *)
LEMMA NextOneCUInv == TypeInv /\ OneCUInv /\ [Next]_vars => OneCUInv'
<1> DEFINE Late == {"deletePods", "createApp", "getTargetClient", "syncTarget"}
           Part(e) ==
             faults = 0 /\ "NFDeployment" \in alive[e] =>
               /\ ~ migrated
               /\ appFiles = 0
               /\ run.type = "NFDeployment" => run.pc \notin Late
<1> SUFFICES ASSUME TypeInv, OneCUInv, [Next]_vars, NEW e \in Entries, SeparateTarget(e)
             PROVE  /\ ClusterInfo[e].name \notin ops'
                    /\ ClusterInfo[e].name \notin run'.apps
                    /\ Part(e)'
  BY DEF OneCUInv
<1>types. /\ run \in Runs /\ RunInv
          /\ faults \in Nat /\ appFiles \in Nat
          /\ alive \in [Entries -> SUBSET Kinds]
  BY DEF TypeInv, TypeOK
<1>before. /\ ClusterInfo[e].name \notin ops
           /\ ClusterInfo[e].name \notin run.apps
           /\ Part(e)
  BY DEF OneCUInv
<1>target. /\ IsTargetEntry(e)
           /\ ClusterInfo[e].target # ClusterInfo[e].name
           /\ \A d \in Entries : IsDependent(d) => ClusterInfo[d].name # ClusterInfo[e].name
  BY DEF SeparateTarget
<1>at. run.type = "NFDeployment" /\ run.pc \notin {"idle", "initClient"} => run.entry = e
  BY <1>types, <1>target, OneTarget DEF RunInv
<1>fault. Fault => faults' # 0
  <2>1. Fault => faults' = faults + 1
    BY Zenon DEF Fault
  <2> QED
    BY <2>1, <1>types
<1>apps. ClusterInfo[e].name \notin run'.apps
  <2>1. CASE UNCHANGED run
    BY <2>1, <1>before
  <2>2. CASE run' = Idle
    BY <2>2, IdleType
  <2>3. ASSUME NEW l \in Locations, run' = [run EXCEPT !.pc = l] PROVE run'.apps = run.apps
    BY <2>3, <1>types, GotoFields
  <2>4. ASSUME AfterTeardown, run.pc \in AfterPush PROVE ClusterInfo[e].name \notin run'.apps
    <3>1. CASE run.type = "ConfigRef"
      <4>1. run.entry \in Entries /\ IsDependent(run.entry)
        BY <2>4, <3>1, <1>types DEF RunInv, Current, Manifests, Files, IsDependent
      <4>2. ClusterInfo[run.entry].name # ClusterInfo[e].name
        BY <4>1, <1>target
      <4>3. run'.apps = run.apps \union {ClusterInfo[run.entry].name}
        BY <2>4, <3>1, <1>types DEF AfterTeardown, Runs
      <4> QED
        BY <4>2, <4>3, <1>before
    <3>2. CASE run.type # "ConfigRef"
      BY <2>4, <3>2, <2>3, <1>before DEF AfterTeardown, Locations
    <3> QED
      BY <3>1, <3>2
  <2>5. ASSUME NEW l \in Locations, Goto(l) PROVE ClusterInfo[e].name \notin run'.apps
    BY <2>5, <2>3, <1>before DEF Goto
  <2>6. CASE Begins \/ TurnsToDependents
    BY <2>6, <1>types, <1>before, IdleType DEF Begins, TurnsToDependents, Runs
  <2>7. CASE Reconcile
    BY <2>7, <2>1, <2>6 DEF Reconcile, Begins
  <2>8. CASE InitializeGiteaClient
    BY <2>8, <2>2, <1>types, <1>before
    DEF InitializeGiteaClient, UninitializedClient, Return, Runs
  <2>9. CASE CheckRepoForMatchingManifests
    BY <2>9, <2>2, <2>5, <1>types, <1>before
    DEF CheckRepoForMatchingManifests, NoMatch, Return, Runs, Locations
  <2>10. CASE UpdateManifests
    BY <2>10, <2>2, <1>types, <1>before DEF UpdateManifests, Return, Runs
  <2>11. CASE GetMyUserInfo \/ CommitAndPush \/ GetWorkloadClusterClient \/ CreateAndPushArgoApp
              \/ ReconcileDone
    BY <2>11, <2>2, <2>5
    DEF GetMyUserInfo, CommitAndPush, GetWorkloadClusterClient, NoTargetClient,
        CreateAndPushArgoApp, ReconcileDone, PushFailed, FirstDeletion, Return, Locations
  <2>12. CASE DeleteConfig \/ DeleteConfigPods \/ DeleteNFDeployment \/ DeletePods
    BY <2>12, <2>4, <2>5
    DEF DeleteConfig, DeleteConfigPods, DeleteNFDeployment, DeletePods, AfterPush, Locations
  <2>13. CASE SyncTarget
    BY <2>13, <2>6 DEF SyncTarget, HandleDependentClusterPkgNF, TurnsToDependents
  <2>14. CASE NextDependent
    BY <2>14, <1>types, <1>before DEF NextDependent, Runs
  <2>15. ASSUME NEW c, SyncDependent(c) PROVE ClusterInfo[e].name \notin run'.apps
    BY <2>15, <1>types, <1>before DEF SyncDependent, Runs
  <2>16. CASE Environment
    BY <2>16, <2>1, <2>2
    DEF Environment, EditNFReconfig, DeliverEvent, Resync, ForeignCommit,
        RotateCredentials, Restart, ArgoSync, StartPods
  <2>17. CASE UNCHANGED vars
    BY <2>17, <2>1 DEF vars
  <2> QED
    BY <2>7, <2>8, <2>9, <2>10, <2>11, <2>12, <2>13, <2>14, <2>15, <2>16, <2>17
    DEF Next, Worker
<1>ops. ClusterInfo[e].name \notin ops'
  <2>1. ASSUME NEW c, TriggerArgoCDSync(c), c # ClusterInfo[e].name
        PROVE  ClusterInfo[e].name \notin ops'
    BY <2>1, <1>before DEF TriggerArgoCDSync
  <2>2. CASE SyncTarget
    <3>1. TargetCluster = ClusterInfo[e].target
      BY <2>2, <1>types, <1>at DEF SyncTarget, RunInv, TargetCluster
    <3> QED
      BY <2>2, <2>1, <3>1, <1>target DEF SyncTarget
  <2>3. ASSUME NEW c, SyncDependent(c) PROVE ClusterInfo[e].name \notin ops'
    BY <2>1, <2>3, <1>before DEF SyncDependent
  <2>4. ASSUME NEW c, ArgoSync(c) PROVE ClusterInfo[e].name \notin ops'
    BY <2>4, <1>before DEF ArgoSync
  <2>5. CASE UNCHANGED ops
    BY <2>5, <1>before
  <2>6. SyncTarget \/ (\E c : SyncDependent(c)) \/ (\E c : ArgoSync(c)) \/ UNCHANGED ops
    <3> USE DEF clusterVars
    <3>1. CASE Worker
      BY <3>1
      DEF Worker, Reconcile, InitializeGiteaClient, GetMyUserInfo,
          CheckRepoForMatchingManifests, UpdateManifests, CommitAndPush,
          GetWorkloadClusterClient, DeleteConfig, DeleteConfigPods, DeleteNFDeployment,
          DeletePods, CreateAndPushArgoApp, NextDependent, ReconcileDone
    <3>2. CASE Environment
      BY <3>2
      DEF Environment, EditNFReconfig, DeliverEvent, Resync, ForeignCommit,
          RotateCredentials, Restart, StartPods
    <3> QED
      BY <3>1, <3>2 DEF Next, vars
  <2> QED
    BY <2>2, <2>3, <2>4, <2>5, <2>6
<1>part. Part(e)'
  <2> SUFFICES ASSUME faults' = 0, "NFDeployment" \in alive'[e]
               PROVE  /\ ~ migrated'
                      /\ appFiles' = 0
                      /\ run'.type = "NFDeployment" => run'.pc \notin Late
    OBVIOUS
  <2>nofault. ~ Fault
    BY <1>fault
  <2>faults. faults = 0
    <3>1. CASE UNCHANGED faults
      BY <3>1
    <3>2. UNCHANGED faults
      <4> USE <2>nofault DEF NoFault, LostDelete, TriggerArgoCDSync
      <4>1. CASE Worker
        BY <4>1
        DEF Worker, Reconcile, InitializeGiteaClient, GetMyUserInfo,
            CheckRepoForMatchingManifests, UpdateManifests, CommitAndPush,
            GetWorkloadClusterClient, DeleteConfig, DeleteConfigPods, DeleteNFDeployment,
            DeletePods, CreateAndPushArgoApp, SyncTarget, NextDependent, SyncDependent,
            ReconcileDone
      <4>2. CASE Environment
        BY <4>2
        DEF Environment, EditNFReconfig, DeliverEvent, Resync, ForeignCommit,
            RotateCredentials, Restart, ArgoSync, StartPods
      <4> QED
        BY <4>1, <4>2 DEF Next, vars
    <3> QED
      BY <3>1, <3>2
  <2>alive. "NFDeployment" \in alive[e]
    <3>1. ASSUME NEW k, alive' = Without(k) PROVE "NFDeployment" \in alive[e]
      BY <3>1, <1>types DEF Without
    <3>2. ASSUME NEW c, ArgoSync(c) PROVE "NFDeployment" \in alive[e]
      <4>1. ClusterInfo[e].name # c
        BY <3>2, <1>before DEF ArgoSync
      <4> QED
        BY <3>2, <4>1 DEF ArgoSync
    <3>3. ASSUME NEW g, StartPods(g) PROVE "NFDeployment" \in alive[e]
      BY <3>3, <1>types DEF StartPods
    <3>4. (\E k : alive' = Without(k)) \/ (\E c : ArgoSync(c)) \/ (\E g : StartPods(g))
             \/ UNCHANGED alive
      <4> USE <2>nofault DEF clusterVars, LostDelete
      <4>1. CASE Worker
        BY <4>1
        DEF Worker, Reconcile, InitializeGiteaClient, GetMyUserInfo,
            CheckRepoForMatchingManifests, UpdateManifests, CommitAndPush,
            GetWorkloadClusterClient, DeleteConfig, DeleteConfigPods, DeleteNFDeployment,
            DeletePods, CreateAndPushArgoApp, SyncTarget, NextDependent, SyncDependent,
            ReconcileDone
      <4>2. CASE Environment
        BY <4>2
        DEF Environment, EditNFReconfig, DeliverEvent, Resync, ForeignCommit,
            RotateCredentials, Restart
      <4> QED
        BY <4>1, <4>2 DEF Next, vars
    <3> QED
      BY <3>1, <3>2, <3>3, <3>4
  <2>before. /\ ~ migrated
             /\ appFiles = 0
             /\ run.type = "NFDeployment" => run.pc \notin Late
    BY <1>before, <2>faults, <2>alive
  <2>createApp. ~ CreateAndPushArgoApp
    BY <2>before, <1>types DEF CreateAndPushArgoApp, RunInv
  <2>1. ~ migrated' /\ appFiles' = 0
    <3>1. UNCHANGED <<migrated, appFiles>> \/ \E c : ArgoSync(c)
      <4> USE <2>createApp DEF clusterVars
      <4>1. CASE Worker
        BY <4>1
        DEF Worker, Reconcile, InitializeGiteaClient, GetMyUserInfo,
            CheckRepoForMatchingManifests, UpdateManifests, CommitAndPush,
            GetWorkloadClusterClient, DeleteConfig, DeleteConfigPods, DeleteNFDeployment,
            DeletePods, SyncTarget, NextDependent, SyncDependent, ReconcileDone
      <4>2. CASE Environment
        BY <4>2
        DEF Environment, EditNFReconfig, DeliverEvent, Resync, ForeignCommit,
            RotateCredentials, Restart, StartPods
      <4> QED
        BY <4>1, <4>2 DEF Next, vars
    <3>2. ASSUME NEW c, ArgoSync(c) PROVE ~ migrated' /\ appFiles' = 0
      <4>1. UNCHANGED appFiles /\ ~ (appFiles > 0)
        BY <3>2, <2>before DEF ArgoSync
      <4>2. migrated' = (migrated \/ /\ appFiles > 0
                                     /\ \E g \in Entries : /\ IsTargetEntry(g)
                                                           /\ ClusterInfo[g].target = c)
        BY <3>2 DEF ArgoSync
      <4> QED
        BY <4>1, <4>2, <2>before
    <3> QED
      BY <3>1, <3>2, <2>before
  <2>2. run'.type = "NFDeployment" => run'.pc \notin Late
    <3> SUFFICES ASSUME run'.type = "NFDeployment", run'.pc \in Late PROVE FALSE
      OBVIOUS
    <3>1. CASE UNCHANGED run
      BY <3>1, <2>before
    <3>2. CASE run' = Idle \/ Begins
      BY <3>2, IdleType DEF Begins, Runs
    <3>3. CASE TurnsToDependents
      BY <3>3, <1>types DEF TurnsToDependents, Runs
    <3>4. CASE GoesOn
      <4>1. /\ run.type = "NFDeployment"
            /\ run.pc \in AfterPush \/ CommitAndPush
            /\ run.pc \notin Late
        BY <3>4, <2>before DEF GoesOn, AfterPush
      <4>2. CASE CommitAndPush
        BY <4>2, <1>types, IdleType, GotoFields
        DEF CommitAndPush, PushFailed, Return, Goto, Locations
      <4>3. CASE run.pc \in {"getClient", "deleteNF"}
        <5>1. run.entry = e
          BY <4>1, <4>3, <1>at
        <5>2. CASE GetWorkloadClusterClient
          BY <5>2, <4>1, <4>3, <1>types, IdleType, GotoFields
          DEF GetWorkloadClusterClient, NoTargetClient, FirstDeletion, Return, Goto, Locations
        <5>3. CASE DeleteNFDeployment
          <6>1. alive' = Without("NFDeployment")
            BY <5>3, <5>1, <2>alive, <2>nofault DEF DeleteNFDeployment, LostDelete
          <6>2. "NFDeployment" \notin alive'[e]
            BY <6>1, <5>1, <1>types DEF Without
          <6> QED
            BY <6>2
        <5>4. GetWorkloadClusterClient \/ DeleteNFDeployment
          <6>1. CASE Worker
            BY <6>1, <4>3
            DEF Worker, Reconcile, InitializeGiteaClient, GetMyUserInfo,
                CheckRepoForMatchingManifests, UpdateManifests, CommitAndPush,
                DeleteConfig, DeleteConfigPods, DeletePods, CreateAndPushArgoApp,
                SyncTarget, NextDependent, SyncDependent, ReconcileDone
          <6>2. CASE Environment
            <7>1. UNCHANGED run \/ run' = Idle
              BY <6>2
              DEF Environment, EditNFReconfig, DeliverEvent, Resync, ForeignCommit,
                  RotateCredentials, Restart, ArgoSync, StartPods
            <7> QED
              BY <7>1, <4>1, IdleType
          <6>3. CASE UNCHANGED vars
            BY <6>3, <4>1 DEF vars
          <6> QED
            BY <6>1, <6>2, <6>3 DEF Next
        <5> QED
          BY <5>2, <5>3, <5>4
      <4>4. run.pc \notin {"deleteConfig", "deleteConfigPods"}
        BY <4>1, <1>types DEF RunInv
      <4> QED
        BY <4>1, <4>2, <4>3, <4>4 DEF AfterPush
    <3> QED
      BY <3>1, <3>2, <3>3, <3>4, RunSteps
  <2> QED
    BY <2>1, <2>2
<1> QED
  BY <1>apps, <1>ops, <1>part

(* As long as no call fails there is never a CU in both clusters.           *)
THEOREM OneCU == Spec => []AtMostOneCU
<1>1. Init => OneCUInv
  BY IdleType DEF Init, OneCUInv
<1>2. TypeInv /\ OneCUInv /\ [Next]_vars => OneCUInv'
  BY NextOneCUInv
<1>3. OneCUInv => AtMostOneCU
  BY DEF OneCUInv, AtMostOneCU
<1> QED
  BY <1>1, <1>2, <1>3, TypeCorrect, PTL DEF Spec

-----------------------------------------------------------------------------
(* The controller implements Reconfiguration. *)
LEMMA ContractManifests == Contract!Manifests = Manifests
BY EntryTypes DEF Contract!Manifests, ManifestTypes, Manifests, Files

(* A push is a commit that a request pays for. *)
LEMMA PushPublishes ==
  ASSUME TypeInv, CommitAndPush, ~ UNCHANGED <<told, pushes>>,
         NoRepeatedCommits', DependentsFollowTarget'
  PROVE  Contract!Publish(Current, run.ips) /\ run.ips \in Assignments
<1>types. /\ pushes \in [Manifests -> Nat]
          /\ told \in [Manifests -> SUBSET Assignments]
          /\ edits \in Nat /\ foreign \in Nat
  BY DEF TypeInv, TypeOK
<1>1. /\ Current \in Manifests
      /\ Current[2] = run.type
      /\ run.ips \in Assignments
  BY DEF TypeInv, RunInv, CommitAndPush, Current
<1>2. /\ told' = [told EXCEPT ![Current] = @ \union {run.ips}]
      /\ pushes' = [pushes EXCEPT ![Current] = @ + 1]
      /\ UNCHANGED <<edits, foreign, teardowns>>
  BY DEF CommitAndPush, gitVars, historyVars, apiVars
<1>3. pushes[Current] < edits + foreign
  <2>1. pushes'[Current] <= edits' + foreign'
    BY <1>1 DEF NoRepeatedCommits
  <2>2. pushes'[Current] = pushes[Current] + 1
    BY <1>1, <1>2, <1>types, Increment
  <2> QED
    BY <2>1, <2>2, <1>1, <1>2, <1>types
<1>4. run.type = "ConfigRef" =>
        \E t \in Manifests : t[2] = "NFDeployment" /\ run.ips \in told[t]
  <2> SUFFICES ASSUME run.type = "ConfigRef"
               PROVE  \E t \in Manifests : t[2] = "NFDeployment" /\ run.ips \in told[t]
    OBVIOUS
  <2>1. run.ips \in told'[Current]
    BY <1>1, <1>2, <1>types
  <2>2. PICK t \in Manifests : t[2] = "NFDeployment" /\ run.ips \in told'[t]
    BY <2>1, <1>1 DEF DependentsFollowTarget
  <2>3. told'[t] = told[t]
    BY <2>2, <1>1, <1>2, <1>types
  <2> QED
    BY <2>2, <2>3
<1> QED
  BY <1>1, <1>2, <1>3, <1>4 DEF Contract!Publish

(* A teardown is paid for by a commit. *)
LEMMA TeardownIsPaidFor ==
  ASSUME TypeInv, Current \in Manifests, CountTeardown, OneTeardownPerPush',
         UNCHANGED <<edits, foreign, told, pushes>>
  PROVE  Contract!Teardown(Current)
<1>types. pushes \in [Manifests -> Nat] /\ teardowns \in [Manifests -> Nat]
  BY DEF TypeInv, TypeOK
<1>1. teardowns'[Current] <= pushes'[Current]
  BY DEF OneTeardownPerPush
<1>2. teardowns'[Current] = teardowns[Current] + 1
  BY <1>types, Increment DEF CountTeardown
<1>3. teardowns[Current] < pushes[Current]
  BY <1>1, <1>2, <1>types
<1> QED
  BY <1>3 DEF Contract!Teardown, CountTeardown

(* Every step is one of the contract's or none of its business. *)
LEMMA Simulation ==
  ASSUME TypeInv, NoRepeatedCommits', OneTeardownPerPush', DependentsFollowTarget',
         [Next]_vars
  PROVE  [Contract!Next]_(Contract!vars)
<1>types. edits \in Nat /\ foreign \in Nat
  BY DEF TypeInv, TypeOK
<1> USE DEF apiVars, gitVars, clusterVars, historyVars
<1>1. CASE CommitAndPush
  <2>1. CASE UNCHANGED <<told, pushes>>
    <3>1. UNCHANGED <<edits, foreign, teardowns>>
      BY <1>1 DEF CommitAndPush
    <3> QED
      BY <2>1, <3>1 DEF Contract!vars
  <2>2. CASE ~ UNCHANGED <<told, pushes>>
    <3>1. Contract!Publish(Current, run.ips) /\ run.ips \in Assignments
      BY <1>1, <2>2, PushPublishes
    <3>2. Current \in Manifests
      BY <1>1 DEF CommitAndPush, TypeInv, RunInv
    <3> QED
      BY <3>1, <3>2, ContractManifests DEF Contract!Next
  <2> QED
    BY <2>1, <2>2
<1>2. CASE DeleteConfig \/ DeleteNFDeployment
  <2>1. Current \in Manifests
    BY <1>2 DEF DeleteConfig, DeleteNFDeployment, AfterPush, TypeInv, RunInv
  <2>2. UNCHANGED <<edits, foreign, told, pushes>>
    BY <1>2 DEF DeleteConfig, DeleteNFDeployment
  <2>3. CASE CountTeardown
    <3>1. Contract!Teardown(Current)
      BY <2>1, <2>2, <2>3, TeardownIsPaidFor
    <3> QED
      BY <3>1, <2>1, ContractManifests DEF Contract!Next
  <2>4. CASE UNCHANGED teardowns
    BY <2>2, <2>4 DEF Contract!vars
  <2> QED
    BY <1>2, <2>3, <2>4 DEF DeleteConfig, DeleteNFDeployment
<1>3. CASE EditNFReconfig \/ ForeignCommit
  <2>1. edits' + foreign' = edits + foreign + 1
    BY <1>3, <1>types DEF EditNFReconfig, ForeignCommit
  <2>2. UNCHANGED <<told, pushes, teardowns>>
    BY <1>3 DEF EditNFReconfig, ForeignCommit
  <2>3. Contract!Request
    BY <2>1, <2>2 DEF Contract!Request
  <2> QED
    BY <2>3 DEF Contract!Next
<1>4. CASE ~ (CommitAndPush \/ DeleteConfig \/ DeleteNFDeployment
              \/ EditNFReconfig \/ ForeignCommit)
  BY <1>4, Frames DEF Contract!vars
<1> QED
  BY <1>1, <1>2, <1>3, <1>4

(* Whatever fails, races or is repeated, the controller keeps to the        *)
(* contract: commits are paid for by requests, teardowns by commits, and a  *)
(* DU or CU-UP is only told what its CU was told.                           *)
THEOREM ContractHonoured == Spec => HonoursContract
<1>1. Init => Contract!Init
  <2> SUFFICES ASSUME Init PROVE Contract!Init
    OBVIOUS
  <2>1. edits + foreign = 0
    BY DEF Init
  <2> QED
    BY <2>1, ContractManifests DEF Init, Contract!Init
<1>2. /\ TypeInv
      /\ NoRepeatedCommits' /\ OneTeardownPerPush' /\ DependentsFollowTarget'
      /\ [Next]_vars
      => [Contract!Next]_(Contract!vars)
  BY Simulation
<1> QED
  BY <1>1, <1>2, TypeCorrect, CommitsAreNotRepeated, TeardownsArePaidFor, Following,
     PTL DEF Spec, HonoursContract, Contract!Spec
=============================================================================
