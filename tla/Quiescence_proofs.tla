------------------------- MODULE Quiescence_proofs -------------------------
(* Theorems about NFReconfigController at rest, for every clusterInfo and   *)
(* every value of the bounds: no event is taken for answered, what is in    *)
(* place stays in place, and when nothing is left to do it is in place.     *)
EXTENDS NFReconfigController_proofs

-----------------------------------------------------------------------------
(* No wakeup is lost. *)

(* What becomes of the key and of the cache in one step. *)
LEMMA KeySteps ==
  ASSUME [Next]_vars
  PROVE  \/ UNCHANGED <<cached, queued>>
         \/ UNCHANGED run /\ queued' = TRUE
         \/ UNCHANGED cached /\ \E b \in BOOLEAN : Return(b)
         \/ Reconcile
         \/ Restart
<1> USE DEF Goto, apiVars
<1>1. CASE Worker
  BY <1>1
  DEF Worker, InitializeGiteaClient, UninitializedClient, GetMyUserInfo,
      CheckRepoForMatchingManifests, NoMatch, UpdateManifests,
      CommitAndPush, PushFailed, GetWorkloadClusterClient, NoTargetClient,
      DeleteConfig, DeleteConfigPods, DeleteNFDeployment, DeletePods, AfterTeardown,
      CreateAndPushArgoApp, SyncTarget, HandleDependentClusterPkgNF,
      NextDependent, SyncDependent, ReconcileDone
<1>2. CASE Environment
  BY <1>2
  DEF Environment, EditNFReconfig, DeliverEvent, Resync, ForeignCommit,
      RotateCredentials, ArgoSync, StartPods
<1>3. CASE UNCHANGED vars
  BY <1>3 DEF vars
<1> QED
  BY <1>1, <1>2, <1>3 DEF Next

(* A run whose key is not queued works on what the cache holds. *)
WakeInv == run.pc # "idle" /\ ~ queued => run.ips = cached

(* Every step preserves it. *)
LEMMA NextWakeInv == TypeInv /\ WakeInv /\ [Next]_vars => WakeInv'
<1> SUFFICES ASSUME TypeInv, WakeInv, [Next]_vars, run'.pc # "idle", ~ queued'
             PROVE  run'.ips = cached'
  BY DEF WakeInv
<1>types. run \in Runs /\ RunInv
  BY DEF TypeInv, TypeOK
<1>1. CASE UNCHANGED <<cached, queued>>
  <2>1. CASE UNCHANGED run
    BY <1>1, <2>1 DEF WakeInv
  <2>2. CASE Begins
    BY <2>2, <1>1, IdleType DEF Begins, Runs
  <2>3. CASE TurnsToDependents
    <3>1. run'.ips = run.ips /\ run.pc = "syncTarget"
      BY <2>3, <1>types DEF TurnsToDependents, SyncTarget, Runs
    <3> QED
      BY <1>1, <3>1 DEF WakeInv
  <2>4. CASE GoesOn
    BY <1>1, <2>4 DEF GoesOn, WakeInv
  <2> QED
    BY <2>1, <2>2, <2>3, <2>4, RunSteps, IdleType
<1>2. CASE Reconcile
  <2>1. run.pc = "idle"
    BY <1>2 DEF Reconcile
  <2>2. run' = [Idle EXCEPT !.pc = "initClient", !.ips = cached]
    BY <1>2, <2>1 DEF Reconcile
  <2>3. run'.ips = cached
    BY <2>2, IdleType DEF Runs
  <2> QED
    BY <1>2, <2>3 DEF Reconcile, apiVars
<1>3. ~ Restart /\ (\A b \in BOOLEAN : ~ Return(b))
  BY IdleType DEF Restart, Return
<1> QED
  BY <1>1, <1>2, <1>3, KeySteps

(* No event is taken for answered by a run that read the object before it.  *)
THEOREM NoEventForgotten == Spec => NoWakeupLost
<1> DEFINE A == run.pc # "idle" /\ run'.pc = "idle" =>
                  queued' \/ run.ips = cached' \/ cached' = Deleted
<1>1. Init => WakeInv
  BY IdleType DEF Init, WakeInv
<1>2. TypeInv /\ WakeInv /\ [Next]_vars => WakeInv'
  BY NextWakeInv
<1>3. WakeInv /\ [Next]_vars => [A]_vars
  <2> SUFFICES ASSUME WakeInv, [Next]_vars, run.pc # "idle", run'.pc = "idle", ~ queued'
               PROVE  run.ips = cached' \/ cached' = Deleted
    OBVIOUS
  <2>1. CASE UNCHANGED <<cached, queued>>
    BY <2>1 DEF WakeInv
  <2>2. CASE UNCHANGED cached /\ \E b \in BOOLEAN : Return(b)
    BY <2>2 DEF Return, WakeInv
  <2>3. CASE Restart
    BY <2>3 DEF Restart
  <2>4. ~ Reconcile
    BY DEF Reconcile
  <2> QED
    BY <2>1, <2>2, <2>3, <2>4, KeySteps
<1> QED
  BY <1>1, <1>2, <1>3, TypeCorrect, PTL DEF Spec, NoWakeupLost

-----------------------------------------------------------------------------
(* What is in place stays in place. *)

(* Rewriting nothing pushes nothing: the manifest a run is at is not stale. *)
LEMMA NothingToPush ==
  ASSUME TypeInv, CloneInv, CommitAndPush, ~ Stale(Current, run.ips)
  PROVE  UNCHANGED <<head, rev>> /\ run' = Idle
<1>types. run \in Runs /\ RunInv
  BY DEF TypeInv, TypeOK
<1>1. run.pc = "push" /\ run.ips \in Assignments
  BY <1>types DEF CommitAndPush, RunInv
<1>2. ~ (CommitAccepted /\ PushAccepted)
  <2> SUFFICES ASSUME CommitAccepted, PushAccepted PROVE FALSE
    OBVIOUS
  <2>1. PICK f \in OwnFiles(run.entry, run.type) : Expected(f) # head[f]
    BY <1>1 DEF CommitAccepted, PushAccepted, CloneInv
  <2>2. Rewrite(head[f], run.ips) # head[f]
    BY <1>1, <2>1 DEF Expected
  <2> QED
    BY <1>1, <2>1, <2>2 DEF Stale, Current
<1> QED
  BY <1>2 DEF CommitAndPush, PushFailed, Return, gitVars

(* What a step may do to the workload of an element. *)
LEMMA AliveSteps ==
  ASSUME [Next]_vars
  PROVE  \/ UNCHANGED alive
         \/ run.pc \in AfterPush
         \/ \E c \in ClusterNames : ArgoSync(c)
         \/ \E e \in Entries : StartPods(e)
<1> USE DEF clusterVars
<1>1. CASE Worker
  BY <1>1
  DEF Worker, Reconcile, InitializeGiteaClient, GetMyUserInfo,
      CheckRepoForMatchingManifests, UpdateManifests, CommitAndPush,
      GetWorkloadClusterClient, DeleteConfig, DeleteConfigPods, DeleteNFDeployment,
      DeletePods, CreateAndPushArgoApp, SyncTarget, NextDependent, SyncDependent,
      ReconcileDone, AfterPush
<1>2. CASE Environment
  BY <1>2
  DEF Environment, EditNFReconfig, DeliverEvent, Resync, ForeignCommit,
      RotateCredentials, Restart
<1>3. CASE UNCHANGED vars
  BY <1>3 DEF vars
<1> QED
  BY <1>1, <1>2, <1>3 DEF Next

(* A CU that has moved is not moved back. *)
LEMMA StaysMigrated ==
  ASSUME TypeInv, [Next]_vars, migrated
  PROVE  migrated'
<1> USE DEF clusterVars
<1>1. CASE Worker
  BY <1>1
  DEF Worker, Reconcile, InitializeGiteaClient, GetMyUserInfo,
      CheckRepoForMatchingManifests, UpdateManifests, CommitAndPush,
      GetWorkloadClusterClient, DeleteConfig, DeleteConfigPods, DeleteNFDeployment,
      DeletePods, CreateAndPushArgoApp, SyncTarget, NextDependent, SyncDependent,
      ReconcileDone
<1>2. CASE Environment
  BY <1>2
  DEF Environment, EditNFReconfig, DeliverEvent, Resync, ForeignCommit,
      RotateCredentials, Restart, ArgoSync, StartPods
<1>3. CASE UNCHANGED vars
  BY <1>3 DEF vars
<1> QED
  BY <1>1, <1>2, <1>3 DEF Next

(* A repetition of a request leaves everything as it is: nothing is pushed, *)
(* and so nothing is torn down.                                             *)
LEMMA NextInPlace ==
  ASSUME TypeInv, CloneInv, OneCUInv, [Next]_vars, OneCUToMove, InPlace,
         UNCHANGED <<nfr, foreign>>
  PROVE  InPlace'
<1>types. /\ run \in Runs /\ RunInv
          /\ alive \in [Entries -> SUBSET Kinds]
          /\ foreign \in Nat
  BY DEF TypeInv, TypeOK
<1>before. /\ nfr \in Assignments
           /\ cached = nfr
           /\ Working = nfr
           /\ ~ Publishing
           /\ \A m \in Manifests : ~ Stale(m, nfr)
           /\ Settled
  BY DEF InPlace
<1>push. CommitAndPush => UNCHANGED <<head, rev>> /\ run' = Idle
  <2> SUFFICES ASSUME CommitAndPush PROVE UNCHANGED <<head, rev>> /\ run' = Idle
    OBVIOUS
  <2>1. run.pc = "push" /\ Current \in Manifests
    BY <1>types DEF CommitAndPush, RunInv
  <2>2. run.ips = nfr
    BY <1>before, <2>1 DEF Working
  <2> QED
    BY <1>before, <2>1, <2>2, NothingToPush
<1>head. UNCHANGED head
  <2>1. ~ ForeignCommit
    BY <1>types DEF ForeignCommit
  <2> QED
    BY <1>push, <2>1, Frames
<1>cached. UNCHANGED cached
  <2>1. EditNFReconfig => nfr' # nfr
    BY DEF EditNFReconfig
  <2>2. DeliverEvent \/ Restart => cached' = nfr
    BY DEF DeliverEvent, Restart
  <2> QED
    BY <1>before, <2>1, <2>2, Frames
<1>working. Working' = nfr
  BY <1>before, <1>cached, WorkingSteps
<1>publishing. ~ Publishing'
  <2>1. CASE UNCHANGED run
    BY <1>before, <2>1 DEF Publishing
  <2>2. CASE run' = Idle
    BY <2>2, IdleType DEF Publishing, AfterPush
  <2>3. CASE Begins
    <3>1. run'.pc = "initClient" /\ run'.type = "NFDeployment"
      BY <2>3, IdleType DEF Begins, Runs
    <3> QED
      BY <3>1 DEF Publishing, AfterPush
  <2>4. ~ TurnsToDependents
    BY <1>before DEF TurnsToDependents, SyncTarget, Publishing, AfterPush
  <2>5. CASE GoesOn
    <3>1. ~ CommitAndPush
      BY <1>push, <2>5, IdleType DEF GoesOn
    <3> QED
      BY <1>before, <2>5, <3>1 DEF GoesOn, Publishing
  <2> QED
    BY <2>1, <2>2, <2>3, <2>4, <2>5, RunSteps
<1>stale. \A m \in Manifests : ~ Stale(m, nfr)'
  BY <1>before, <1>head DEF Stale
<1>settled. Settled'
  <2>1. PICK t \in Entries :
          /\ SeparateTarget(t)
          /\ \A e \in Entries : ClusterInfo[e].nfDeployment => e = t
    BY DEF OneCUToMove
  <2>2. \A m \in Manifests : head'[m].ips = nfr'
    BY <1>before, <1>head DEF Settled
  <2>3. migrated'
    BY <1>before, StaysMigrated DEF Settled
  <2>4. \A e \in Entries : IF IsDependent(e) THEN alive[e] = Workload(e)
                                             ELSE "NFDeployment" \notin alive[e]
    BY <1>before DEF Settled
  <2>5. ASSUME NEW e \in Entries
        PROVE  IF IsDependent(e) THEN alive'[e] = Workload(e)
                                 ELSE "NFDeployment" \notin alive'[e]
    <3>1. CASE UNCHANGED alive
      BY <2>4, <3>1
    <3>2. ASSUME NEW c \in ClusterNames, ArgoSync(c)
          PROVE  IF IsDependent(e) THEN alive'[e] = Workload(e)
                                   ELSE "NFDeployment" \notin alive'[e]
      <4>1. alive'[e] = IF ClusterInfo[e].name = c
                        THEN alive[e] \union (Workload(e) \ {"Pods"}) ELSE alive[e]
        BY <3>2 DEF ArgoSync
      <4>2. CASE IsDependent(e)
        BY <2>4, <4>1, <4>2
      <4>3. CASE ~ IsDependent(e) /\ ClusterInfo[e].name = c
        <5>1. c \in ops
          BY <3>2 DEF ArgoSync
        <5>2. e # t
          BY <2>1, <4>3, <5>1 DEF OneCUInv
        <5>3. Workload(e) = {}
          BY <2>1, <4>3, <5>2 DEF Workload, IsDependent
        <5> QED
          BY <2>4, <4>1, <4>3, <5>3
      <4> QED
        BY <2>4, <4>1, <4>2, <4>3
    <3>3. ASSUME NEW g \in Entries, StartPods(g)
          PROVE  IF IsDependent(e) THEN alive'[e] = Workload(e)
                                   ELSE "NFDeployment" \notin alive'[e]
      <4>1. alive'[e] = IF e = g THEN alive[e] \union {"Pods"} ELSE alive[e]
        BY <3>3, <1>types DEF StartPods
      <4>2. IsDependent(e) => "Pods" \in Workload(e)
        BY DEF IsDependent, Workload, Kinds
      <4> QED
        BY <2>4, <4>1, <4>2
    <3>4. run.pc \notin AfterPush
      BY <1>before DEF Publishing
    <3> QED
      BY <3>1, <3>2, <3>3, <3>4, AliveSteps
  <2> QED
    BY <2>2, <2>3, <2>5 DEF Settled
<1> QED
  BY <1>before, <1>cached, <1>working, <1>publishing, <1>stale, <1>settled DEF InPlace

(* However often the key comes back, and whatever fails, in every execution *)
(* a reconfiguration that is in place stays there until something new is    *)
(* asked for or committed.                                                  *)
THEOREM InPlaceForGood == Spec => StaysInPlace
<1> DEFINE A == OneCUToMove /\ InPlace /\ UNCHANGED <<nfr, foreign>> => InPlace'
<1>1. Init => CloneInv /\ OneCUInv
  BY IdleType DEF Init, CloneInv, OneCUInv
<1>2. TypeInv /\ CloneInv /\ OneCUInv /\ [Next]_vars => CloneInv' /\ OneCUInv'
  BY NextCloneInv, NextOneCUInv
<1>3. TypeInv /\ CloneInv /\ OneCUInv /\ [Next]_vars => [A]_vars
  BY NextInPlace
<1> QED
  BY <1>1, <1>2, <1>3, TypeCorrect, PTL DEF Spec, StaysInPlace

-----------------------------------------------------------------------------
(***************************************************************************)
(* Nothing is left undone: an inductive invariant for executions in which  *)
(* no call failed and nobody else committed.                               *)
(***************************************************************************)

(* File f is as a run for assignment v leaves it. *)
Written(f, v) == head[f] = [ips |-> v, canonical |-> TRUE]

(* The client a run has passed is a good one. *)
ClientInv ==
  Undisturbed =>
    /\ client \in {"nil", "valid"}
    /\ run.pc \notin {"idle", "initClient"} => client = "valid"

(* The branch is where it was cloned, and a worktree in which something was *)
(* to be rewritten is dirty.                                                *)
BranchInv ==
  Undisturbed =>
    /\ run.pc \in {"update", "push"} => rev[CurrentRepo] = run.base
    /\ run.pc = "push" /\ Stale(Current, run.ips) => run.dirty

(* The files a run that is publishing has been at. *)
Handled(f) ==
  \/ f[2] # "ConfigRef"
  \/ /\ run.type = "ConfigRef"
     /\ \/ run.pc = "sync"
        \/ f[1] < run.entry
        \/ f[1] = run.entry /\ run.pc \in AfterPush \union {"userInfo", "next"}

(* Between runs either no file has ever been written or all are for the     *)
(* same assignment; a run that has written one is on its way through all.   *)
FilesInv ==
  Undisturbed =>
    /\ \A f \in Files : head[f].ips \in Assignments
    /\ Publishing =>
         /\ run.ips \in Assignments
         /\ \A f \in Files : Written(f, run.ips) <=> Handled(f)
    /\ ~ Publishing =>
         \/ \A f \in Files : ~ head[f].canonical
         \/ \E v \in Assignments : \A f \in Files : Written(f, v)

(* What the cache holds is written when the controller is idle.             *)
IdleInv ==
  Undisturbed /\ run.pc = "idle" /\ ~ queued /\ cached \in Assignments =>
    \A f \in Files : Written(f, cached)

(* Once its manifest is written, the CU is gone from its own cluster, its   *)
(* Application exists, and it has moved or is about to, except that the run *)
(* has yet to get there.                                                    *)
MovedInv ==
  Undisturbed =>
    \A t \in Entries : IsTargetEntry(t) /\ head[<<t, "NFDeployment">>].canonical =>
      /\ \/ run.type = "NFDeployment" /\ run.pc \in {"getClient", "deleteNF"}
         \/ "NFDeployment" \notin alive[t]
      /\ \/ /\ run.type = "NFDeployment"
            /\ run.pc \in {"getClient", "deleteNF", "deletePods", "createApp"}
         \/ appFiles > 0
      /\ \/ run.type = "NFDeployment" /\ run.pc \in AfterPush
         \/ migrated
         \/ ClusterInfo[t].target \in ops

(* A DU or CU-UP of which something is missing is being torn down, or Argo  *)
(* CD has been told to bring it back, or will be at the end of the run.     *)
DependentsInv ==
  Undisturbed =>
    \A d \in Entries : IsDependent(d) =>
      \/ {"Config", "NFDeployment"} \subseteq alive[d]
      \/ ClusterInfo[d].name \in ops \union run.apps
      \/ /\ run.type = "ConfigRef"
         /\ run.entry = d
         /\ run.pc \in {"deleteConfigPods", "deleteNF", "deletePods"}

(* Nothing runs that Argo CD and the operators would not create, and only a *)
(* run in the dependents' handler has clusters to sync.                     *)
WorkloadInv ==
  /\ \A e \in Entries : alive[e] \subseteq Workload(e)
  /\ run.type = "NFDeployment" => run.apps = {}

QuietInv ==
  /\ TypeInv
  /\ CloneInv
  /\ OneCUInv
  /\ WakeInv
  /\ ClientInv
  /\ BranchInv
  /\ FilesInv
  /\ IdleInv
  /\ MovedInv
  /\ DependentsInv
  /\ WorkloadInv

(* When all is quiet, what is asked for is in place. *)
LEMMA QuietIsSettled == QuietInv => SettledWhenQuiet
<1> SUFFICES ASSUME QuietInv, Undisturbed, Quiescent, nfr \in Assignments
             PROVE  InPlace
  BY DEF SettledWhenQuiet
<1>types. /\ run \in Runs /\ RunInv
          /\ alive \in [Entries -> SUBSET Kinds]
          /\ head \in [Files -> Contents]
  BY DEF QuietInv, TypeInv, TypeOK
<1>quiet. /\ run = Idle /\ ~ queued
          /\ cached = nfr
          /\ ops = {}
          /\ \A e \in Entries : "NFDeployment" \in alive[e] => "Pods" \in alive[e]
  BY <1>types DEF Quiescent, RunInv
<1>1. PICK t \in Entries :
        /\ SeparateTarget(t)
        /\ \A e \in Entries : ClusterInfo[e].nfDeployment => e = t
  BY DEF Undisturbed, OneCUToMove
<1>2. IsTargetEntry(t) /\ t # 0
  BY <1>1, EntryTypes DEF SeparateTarget, Entries
<1>3. <<t, "NFDeployment">> \in Files
  BY <1>2, CurrentManifests, EntryTypes
<1>4. \A f \in Files : Written(f, nfr)
  BY <1>quiet, IdleType DEF QuietInv, IdleInv
<1>5. \A f \in Files : head[f].ips = nfr /\ head[f].canonical
  BY <1>4 DEF Written
<1>6. \A m \in Manifests : ~ Stale(m, nfr)
  <2> SUFFICES ASSUME NEW m \in Manifests, NEW f \in OwnFiles(m[1], m[2])
               PROVE  Rewrite(head[f], nfr) = head[f]
    BY DEF Stale
  <2>1. f \in Files
    BY OwnFilesInRepo
  <2> QED
    BY <1>4, <2>1 DEF Written, Rewrite
<1>7. /\ "NFDeployment" \notin alive[t]
      /\ migrated
  BY <1>2, <1>3, <1>5, <1>quiet, IdleType DEF QuietInv, MovedInv, AfterPush
<1>8. ASSUME NEW e \in Entries
      PROVE  IF IsDependent(e) THEN alive[e] = Workload(e) ELSE "NFDeployment" \notin alive[e]
  <2>1. CASE IsDependent(e)
    <3>1. {"Config", "NFDeployment"} \subseteq alive[e]
      BY <1>quiet, <2>1, IdleType DEF QuietInv, DependentsInv
    <3>2. "Pods" \in alive[e]
      BY <1>quiet, <3>1
    <3>3. Workload(e) = Kinds
      BY <2>1 DEF Workload, IsDependent
    <3>4. alive[e] \subseteq Kinds
      BY <1>types
    <3> QED
      BY <2>1, <3>1, <3>2, <3>3, <3>4 DEF Kinds
  <2>2. CASE ~ IsDependent(e)
    <3>1. alive[e] \subseteq Workload(e)
      BY DEF QuietInv, WorkloadInv
    <3>2. CASE e = t
      BY <1>7, <2>2, <3>2
    <3>3. CASE e # t
      BY <1>1, <2>2, <3>1, <3>3 DEF Workload, IsDependent
    <3> QED
      BY <3>2, <3>3
  <2> QED
    BY <2>1, <2>2
<1>9. Working = nfr /\ ~ Publishing
  BY <1>quiet, IdleType DEF Working, Publishing, AfterPush
<1>10. Settled
  BY <1>5, <1>7, <1>8, EntryTypes DEF Settled
<1> QED
  BY <1>quiet, <1>6, <1>9, <1>10 DEF InPlace

-----------------------------------------------------------------------------
(***************************************************************************)
(* The steps of an undisturbed execution.                                  *)
(***************************************************************************)

(* What was not disturbed by a step was not before it. *)
LEMMA CalmBefore ==
  ASSUME TypeInv, [Next]_vars, Undisturbed'
  PROVE  Undisturbed /\ ~ Fault /\ ~ ForeignCommit
<1>types. faults \in Nat /\ foreign \in Nat
  BY DEF TypeInv, TypeOK
<1>1. OneCUToMove /\ WrittenByHand /\ faults' = 0 /\ foreign' = 0
  BY DEF Undisturbed, OneCUToMove, WrittenByHand
<1>2. ~ Fault
  <2>1. Fault => faults' = faults + 1
    BY Zenon DEF Fault
  <2> QED
    BY <1>types, <1>1, <2>1
<1>3. ~ ForeignCommit
  <2>1. ForeignCommit => foreign' = foreign + 1
    BY Zenon DEF ForeignCommit
  <2> QED
    BY <1>types, <1>1, <2>1
<1>4. UNCHANGED faults
  <2> USE <1>2 DEF NoFault, LostDelete, TriggerArgoCDSync
  <2>1. CASE Worker
    BY <2>1
    DEF Worker, Reconcile, InitializeGiteaClient, GetMyUserInfo,
        CheckRepoForMatchingManifests, UpdateManifests, CommitAndPush,
        GetWorkloadClusterClient, DeleteConfig, DeleteConfigPods, DeleteNFDeployment,
        DeletePods, CreateAndPushArgoApp, SyncTarget, NextDependent, SyncDependent,
        ReconcileDone
  <2>2. CASE Environment
    BY <2>2
    DEF Environment, EditNFReconfig, DeliverEvent, Resync, ForeignCommit,
        RotateCredentials, Restart, ArgoSync, StartPods
  <2> QED
    BY <2>1, <2>2 DEF Next, vars
<1> QED
  BY <1>1, <1>2, <1>3, <1>4, Frames DEF Undisturbed

(* The CU to move, and where a run about it or about a dependent is. *)
TheCU(t) ==
  /\ SeparateTarget(t)
  /\ \A e \in Entries : ClusterInfo[e].nfDeployment => e = t

LEMMA TheCUFacts ==
  ASSUME NEW t \in Entries, TheCU(t), TypeInv
  PROVE  /\ IsTargetEntry(t) /\ t # 0 /\ ~ IsDependent(t)
         /\ <<t, "NFDeployment">> \in Manifests
         /\ \A g : IsTargetEntry(g) => g = t
         /\ run.type = "NFDeployment" /\ run.pc \notin {"idle", "initClient"} => run.entry = t
         /\ run.pc \in {"createApp", "getTargetClient"} => TargetCluster # None
         /\ \A e \in Entries : e # t /\ "NFDeployment" \in Workload(e) => IsDependent(e)
<1>1. IsTargetEntry(t) /\ t # 0 /\ ~ IsDependent(t)
  BY EntryTypes DEF TheCU, SeparateTarget, Entries
<1>2. <<t, "NFDeployment">> \in Manifests
  BY <1>1, CurrentManifests
<1>3. \A g : IsTargetEntry(g) => g = t
  BY <1>1, OneTarget
<1>4. RunInv
  BY DEF TypeInv
<1>5. run.type = "NFDeployment" /\ run.pc \notin {"idle", "initClient"} => run.entry = t
  BY <1>3, <1>4 DEF RunInv
<1>6. run.pc \in {"createApp", "getTargetClient"} => TargetCluster # None
  BY <1>4, <1>5 DEF RunInv, TheCU, SeparateTarget, TargetCluster
<1> QED
  BY <1>1, <1>2, <1>3, <1>5, <1>6 DEF TheCU, Workload, IsDependent

(* What the step leaves alone, and a run that moves on. *)
Outside == <<client, head, rev, alive, appFiles, ops, migrated>>

Goes(l) ==
  /\ run'.pc = l
  /\ run'.type = run.type
  /\ run'.entry = run.entry
  /\ run'.ips = run.ips
  /\ run'.apps = run.apps
  /\ UNCHANGED <<cached, queued>>

Stays ==
  /\ UNCHANGED <<run, Outside>>
  /\ queued' \/ UNCHANGED <<cached, queued>> \/ cached' = Deleted

(* The calls before the push. *)
Prepares(t) ==
  \/ Begins /\ UNCHANGED Outside
  \/ /\ run.pc = "initClient"
     /\ run'.pc = "userInfo"
     /\ run'.type = run.type /\ run'.ips = run.ips /\ run'.apps = run.apps
     /\ run'.entry = t
     /\ client' = "valid"
     /\ UNCHANGED <<cached, queued, head, rev, alive, appFiles, ops, migrated>>
  \/ /\ run.pc = "userInfo"
     /\ Goes(IF run.type = "NFDeployment" THEN "clone" ELSE "next")
     /\ UNCHANGED Outside
  \/ /\ run.pc = "clone"
     /\ Goes("update")
     /\ UNCHANGED Outside
  \/ /\ run.pc = "update" /\ run.ips \in Assignments
     /\ Goes("push")
     /\ UNCHANGED Outside

(* A push of the files that are not yet written, and the calls that find    *)
(* nothing to do, or cannot do it.                                          *)
Pushes ==
  /\ run.pc = "push" /\ Stale(Current, run.ips)
  /\ Goes("getClient")
  /\ \A f \in Files :
       IF f \in OwnFiles(run.entry, run.type) THEN Written(f, run.ips)' ELSE head'[f] = head[f]
  /\ UNCHANGED <<client, alive, appFiles, ops, migrated>>

GivesUp ==
  /\ run.type = "NFDeployment"
  /\ \/ run.pc = "update" /\ run.ips = NoIPv4
     \/ run.pc = "push" /\ ~ Stale(Current, run.ips)
  /\ run' = Idle
  /\ UNCHANGED <<cached, Outside>>
  /\ ~ queued' => ~ queued

(* The calls after a push, up to the next manifest. *)
Deletes(kind, from, to) ==
  /\ run.pc = from
  /\ Goes(to)
  /\ alive' = Without(kind)
  /\ UNCHANGED <<client, head, rev, appFiles, ops, migrated>>

TeardownEnds ==
  /\ \/ run.pc = "deletePods" /\ alive' = Without("Pods")
     \/ /\ run.pc = "deleteNF" /\ UNCHANGED alive
        /\ "NFDeployment" \notin alive[run.entry]
  /\ \/ run.type = "NFDeployment" /\ Goes("createApp")
     \/ /\ run.type = "ConfigRef"
        /\ run'.pc = "next"
        /\ run'.apps = run.apps \union {ClusterInfo[run.entry].name}
        /\ run'.type = run.type /\ run'.entry = run.entry /\ run'.ips = run.ips
        /\ UNCHANGED <<cached, queued>>
  /\ UNCHANGED <<client, head, rev, appFiles, ops, migrated>>

TearsDown ==
  \/ /\ run.pc = "getClient"
     /\ Goes(FirstDeletion)
     /\ UNCHANGED Outside
  \/ Deletes("Config", "deleteConfig", "deleteConfigPods")
  \/ Deletes("Pods", "deleteConfigPods", "deleteNF")
  \/ Deletes("NFDeployment", "deleteNF", "deletePods")
  \/ TeardownEnds

Relocates(t) ==
  \/ /\ run.pc = "createApp"
     /\ Goes("getTargetClient")
     /\ appFiles' = appFiles + 1
     /\ UNCHANGED <<client, head, alive, ops, migrated>>
  \/ /\ run.pc = "getTargetClient"
     /\ Goes("syncTarget")
     /\ UNCHANGED Outside
  \/ /\ run.pc = "syncTarget" /\ run.type = "NFDeployment"
     /\ run'.pc = "userInfo" /\ run'.type = "ConfigRef" /\ run'.entry = 0
     /\ run'.ips = run.ips /\ run'.apps = run.apps
     /\ ops' = ops \union {ClusterInfo[t].target}
     /\ UNCHANGED <<cached, queued, client, head, rev, alive, appFiles, migrated>>

(* The dependents' loop and the syncs at its end. *)
Loops ==
  \/ /\ run.pc = "next"
     /\ run'.type = run.type /\ run'.ips = run.ips /\ run'.apps = run.apps
     /\ \/ /\ run'.pc = "clone"
           /\ run'.entry \in Entries
           /\ IsDependent(run'.entry)
           /\ run'.entry > run.entry
           /\ \A e \in Entries : e > run.entry /\ IsDependent(e) => run'.entry <= e
        \/ /\ run'.pc = "sync"
           /\ \A e \in Entries : IsDependent(e) => e <= run.entry
     /\ UNCHANGED <<cached, queued, Outside>>
  \/ \E c \in ClusterNames :
       /\ run.pc = "sync" /\ run'.pc = "sync"
       /\ run'.type = run.type /\ run'.entry = run.entry /\ run'.ips = run.ips
       /\ c \in run.apps /\ run.apps \ {c} \subseteq run'.apps
       /\ ops' = ops \union {c}
       /\ UNCHANGED <<cached, queued, client, head, rev, alive, appFiles, migrated>>
  \/ /\ run.pc = "sync" /\ run.apps = {}
     /\ run' = Idle
     /\ UNCHANGED <<cached, queued, Outside>>

(* Argo CD and the operators. *)
Operates ==
  /\ UNCHANGED <<run, cached, queued, client, head, rev, appFiles>>
  /\ \/ \E c \in ClusterNames : ArgoSync(c)
     \/ \E e \in Entries : StartPods(e)

CalmStep(t) ==
  Stays \/ Prepares(t) \/ Pushes \/ GivesUp \/ TearsDown \/ Relocates(t) \/ Loops \/ Operates

(* A manifest that is not of the run's assignment is rewritten, and its     *)
(* push accepted; one that is needs none.                                   *)
LEMMA CalmPush ==
  ASSUME QuietInv, [Next]_vars, Undisturbed', CommitAndPush
  PROVE  Pushes \/ GivesUp
<1>calm. Undisturbed /\ ~ Fault
  BY CalmBefore DEF QuietInv
<1>inv. /\ TypeInv /\ CloneInv /\ run \in Runs /\ RunInv
        /\ head \in [Files -> Contents]
  BY DEF QuietInv, TypeInv, TypeOK
<1>1. /\ run.pc = "push" /\ run.ips \in Assignments
      /\ Current \in Manifests /\ Current = <<run.entry, run.type>>
      /\ rev[CurrentRepo] = run.base
      /\ Stale(Current, run.ips) => run.dirty
      /\ \A f \in Files : head[f].ips \in Assignments
  BY <1>calm, <1>inv DEF CommitAndPush, RunInv, Current, QuietInv, BranchInv, FilesInv
<1>files. \A f \in OwnFiles(run.entry, run.type) : f \in Files /\ RepoOf(f) = CurrentRepo
  BY <1>1, OwnFilesInRepo DEF Current, CurrentRepo, RepoOf
<1>2. CASE CommitAccepted /\ PushAccepted /\ Goto("getClient")
                /\ head' = [f \in Files |-> IF RepoOf(f) = CurrentRepo
                                            THEN run.tree[f] ELSE head[f]]
  <2>1. \A f \in Files : head'[f] = Expected(f)
    BY <1>1, <1>2, <1>inv, <1>files DEF CloneInv, Expected
  <2>2. ASSUME NEW f \in Files
        PROVE  IF f \in OwnFiles(run.entry, run.type)
               THEN Written(f, run.ips)' ELSE head'[f] = head[f]
    <3>1. head[f].ips \notin {Absent, Broken}
      BY <1>1, SentinelAssumption
    <3>2. \A v : Written(f, v)' <=> head'[f] = [ips |-> v, canonical |-> TRUE]
      BY DEF Written
    <3>3. run'.ips = run.ips
      BY <1>2, <1>inv, GotoFields DEF Goto, Locations
    <3>4. f \in OwnFiles(run.entry, run.type) =>
            head'[f] = [ips |-> run.ips, canonical |-> TRUE]
      BY <1>1, <2>1, <3>1 DEF Expected, Rewrite
    <3> QED
      BY <1>1, <2>1, <3>2, <3>3, <3>4 DEF Expected, Written
  <2>3. Goes("getClient")
    BY <1>2, <1>inv, GotoFields DEF Goto, Goes, Locations, CommitAndPush, apiVars
  <2>4. Stale(Current, run.ips)
    <3>1. PICK f \in OwnFiles(run.entry, run.type) : Expected(f) # head[f]
      BY <1>1, <1>2, <1>inv DEF CommitAccepted, CloneInv
    <3> QED
      BY <1>1, <3>1 DEF Expected, Stale, Current
  <2> QED
    BY <1>1, <2>2, <2>3, <2>4 DEF Pushes, CommitAndPush, clusterVars
<1>3. CASE ~ (CommitAccepted /\ PushAccepted) /\ PushFailed /\ UNCHANGED gitVars
  <2>1. ~ Stale(Current, run.ips)
    BY <1>1, <1>3 DEF CommitAccepted, PushAccepted
  <2>2. run.type = "NFDeployment"
    <3> SUFFICES ASSUME run.type = "ConfigRef" PROVE FALSE
      BY <1>inv DEF Runs, ManifestTypes
    <3>1. ~ Handled(Current) /\ Publishing
      <4>1. Current[1] = run.entry /\ Current[2] = "ConfigRef" /\ run.entry \in Nat
        BY <1>inv DEF Current, Runs
      <4> QED
        BY <1>1, <4>1 DEF Handled, Publishing, AfterPush
    <3>2. Current \in Files
      BY <1>1, EntryTypes
    <3>3. ~ Written(Current, run.ips)
      BY <1>calm, <3>1, <3>2 DEF QuietInv, FilesInv
    <3>4. Current \in OwnFiles(Current[1], Current[2])
      BY DEF OwnFiles, Current
    <3>5. Rewrite(head[Current], run.ips) # head[Current]
      BY <1>1, <3>2, <3>3, SentinelAssumption DEF Rewrite, Written
    <3> QED
      BY <1>1, <2>1, <3>4, <3>5 DEF Stale
  <2> QED
    BY <1>1, <1>3, <2>1, <2>2
    DEF GivesUp, PushFailed, Return, CommitAndPush, clusterVars, apiVars, gitVars, Outside
<1> QED
  BY <1>2, <1>3, <1>calm DEF CommitAndPush

(* The searches of a calm run find their manifest. *)
LEMMA CalmPreparation ==
  ASSUME QuietInv, [Next]_vars, Undisturbed', NEW t \in Entries, TheCU(t),
         InitializeGiteaClient \/ GetMyUserInfo \/ CheckRepoForMatchingManifests
           \/ UpdateManifests
  PROVE  Prepares(t) \/ GivesUp
<1>calm. Undisturbed /\ ~ Fault
  BY CalmBefore DEF QuietInv
<1>inv. TypeInv /\ run \in Runs /\ RunInv
  BY DEF QuietInv, TypeInv, TypeOK
<1>client. /\ client \in {"nil", "valid"}
           /\ run.pc \notin {"idle", "initClient"} => client = "valid"
  BY <1>calm DEF QuietInv, ClientInv
<1> USE DEF apiVars, gitVars, clusterVars, Outside
<1>1. CASE InitializeGiteaClient
  <2>1. PICK e : /\ IsTargetEntry(e)
                 /\ run' = [run EXCEPT !.pc = "userInfo", !.entry = e]
                 /\ UNCHANGED queued
                 /\ client' = "valid"
    BY <1>1, <1>calm, <1>client DEF InitializeGiteaClient
  <2>2. e = t
    BY <2>1, <1>inv, TheCUFacts
  <2>3. /\ run'.pc = "userInfo" /\ run'.entry = t
        /\ run'.type = run.type /\ run'.ips = run.ips /\ run'.apps = run.apps
    BY <2>1, <2>2, <1>inv DEF Runs
  <2> QED
    BY <1>1, <2>1, <2>3 DEF InitializeGiteaClient, Prepares
<1>2. CASE GetMyUserInfo
  <2> DEFINE l == IF run.type = "NFDeployment" THEN "clone" ELSE "next"
  <2>1. run.pc = "userInfo" /\ client # "revoked"
    BY <1>2, <1>client DEF GetMyUserInfo
  <2>2. Goto(l) /\ UNCHANGED <<cached, Outside>>
    BY <1>2, <1>calm, <2>1 DEF GetMyUserInfo
  <2>3. Goes(l)
    BY <1>inv, <2>2, GotoFields DEF Goto, Goes, Locations
  <2> QED
    BY <2>1, <2>2, <2>3 DEF Prepares
<1>3. CASE CheckRepoForMatchingManifests
  <2>1. run.pc = "clone" /\ UNCHANGED <<cached, Outside>>
    BY <1>3 DEF CheckRepoForMatchingManifests
  <2>2. Current \in Manifests /\ run.entry # 0
    <3>1. CASE run.type = "NFDeployment"
      BY <2>1, <3>1, <1>inv, TheCUFacts DEF Current
    <3>2. CASE run.type = "ConfigRef"
      BY <2>1, <3>2, <1>inv, CurrentManifests, EntryTypes DEF RunInv, Current, Entries
    <3> QED
      BY <3>1, <3>2, <1>inv DEF Runs, ManifestTypes
  <2>3. head[Current].ips # Absent
    <3>1. head[Current].ips \in Assignments
      BY <1>calm, <2>2, EntryTypes DEF QuietInv, FilesInv
    <3> QED
      BY <3>1, SentinelAssumption
  <2>4. PICK tree, base : run' = [run EXCEPT !.pc = "update", !.tree = tree, !.base = base]
    BY <1>3, <1>calm, <2>2, <2>3 DEF CheckRepoForMatchingManifests
  <2>5. UNCHANGED queued
    BY <1>3, <1>calm, <2>2, <2>3 DEF CheckRepoForMatchingManifests
  <2>6. Goes("update")
    BY <1>inv, <2>1, <2>4, <2>5 DEF Goes, Runs
  <2> QED
    BY <2>1, <2>6 DEF Prepares
<1>4. CASE UpdateManifests
  <2>1. run.pc = "update" /\ UNCHANGED <<cached, Outside>>
    BY <1>4 DEF UpdateManifests
  <2>2. CASE run.ips # NoIPv4
    <3>1. PICK tree, d : run' = [run EXCEPT !.pc = "push", !.tree = tree, !.dirty = d]
      BY <1>4, <1>calm, <2>2 DEF UpdateManifests
    <3>2. UNCHANGED queued
      BY <1>4, <1>calm, <2>2 DEF UpdateManifests
    <3>3. Goes("push")
      BY <1>inv, <2>1, <3>1, <3>2 DEF Goes, Runs
    <3>4. run.ips \in Assignments
      BY <1>inv, <2>1, <2>2 DEF RunInv, Specs
    <3> QED
      BY <2>1, <3>3, <3>4 DEF Prepares
  <2>3. CASE run.ips = NoIPv4
    <3>1. run.type = "NFDeployment"
      <4>1. Publishing => run.ips \in Assignments
        BY <1>calm DEF QuietInv, FilesInv
      <4>2. run.type # "ConfigRef"
        BY <2>3, <4>1, SentinelAssumption DEF Publishing
      <4> QED
        BY <1>inv, <4>2 DEF Runs, ManifestTypes
    <3> QED
      BY <1>4, <1>calm, <2>1, <2>3, <3>1 DEF UpdateManifests, Return, GivesUp
  <2> QED
    BY <2>2, <2>3
<1> QED
  BY <1>1, <1>2, <1>3, <1>4

(* No deletion of a calm run fails. *)
LEMMA CalmTeardown ==
  ASSUME QuietInv, [Next]_vars, Undisturbed',
         \/ GetWorkloadClusterClient /\ run.pc = "getClient"
         \/ DeleteConfig \/ DeleteConfigPods \/ DeleteNFDeployment \/ DeletePods
  PROVE  TearsDown
<1>calm. ~ Fault
  BY CalmBefore DEF QuietInv
<1>inv. run \in Runs /\ RunInv
  BY DEF QuietInv, TypeInv, TypeOK
<1> USE DEF apiVars, gitVars, clusterVars, Outside, LostDelete
<1>goto. \A l \in Locations : Goto(l) /\ UNCHANGED cached => Goes(l)
  BY <1>inv, GotoFields DEF Goto, Goes
<1>ends. ASSUME AfterTeardown, UNCHANGED cached
         PROVE  \/ run.type = "NFDeployment" /\ Goes("createApp")
                \/ /\ run.type = "ConfigRef"
                   /\ run'.pc = "next"
                   /\ run'.apps = run.apps \union {ClusterInfo[run.entry].name}
                   /\ run'.type = run.type /\ run'.entry = run.entry
                   /\ run'.ips = run.ips
                   /\ UNCHANGED <<cached, queued>>
  <2>1. CASE run.type = "ConfigRef"
    BY <2>1, <1>ends, <1>inv DEF AfterTeardown, Runs
  <2>2. CASE run.type # "ConfigRef"
    <3>1. run.type = "NFDeployment" /\ Goto("createApp")
      BY <2>2, <1>ends, <1>inv DEF AfterTeardown, Goto, Runs, ManifestTypes
    <3> QED
      BY <3>1, <1>goto, <1>ends DEF Locations
  <2> QED
    BY <2>1, <2>2
<1>1. CASE GetWorkloadClusterClient /\ run.pc = "getClient"
  <2>1. Goto(FirstDeletion) /\ UNCHANGED <<cached, Outside>>
    BY <1>1, <1>calm DEF GetWorkloadClusterClient
  <2>2. FirstDeletion \in Locations
    BY DEF FirstDeletion, Locations
  <2> QED
    BY <1>1, <2>1, <2>2, <1>goto DEF TearsDown
<1>2. CASE DeleteConfig
  BY <1>2, <1>calm, <1>goto DEF DeleteConfig, TearsDown, Deletes, Locations
<1>3. CASE DeleteConfigPods
  BY <1>3, <1>calm, <1>goto DEF DeleteConfigPods, TearsDown, Deletes, Locations
<1>4. CASE DeleteNFDeployment
  <2>1. CASE alive' = Without("NFDeployment") /\ Goto("deletePods")
    BY <1>4, <2>1, <1>goto DEF DeleteNFDeployment, TearsDown, Deletes, Locations
  <2>2. CASE "NFDeployment" \notin alive[run.entry] /\ UNCHANGED alive /\ AfterTeardown
    BY <1>4, <2>2, <1>ends DEF DeleteNFDeployment, TearsDown, TeardownEnds
  <2> QED
    BY <1>4, <1>calm, <2>1, <2>2 DEF DeleteNFDeployment
<1>5. CASE DeletePods
  BY <1>5, <1>calm, <1>ends DEF DeletePods, TearsDown, TeardownEnds
<1> QED
  BY <1>1, <1>2, <1>3, <1>4, <1>5

(* The CU's Application is created, and its sync triggered, in calm. *)
LEMMA CalmRelocation ==
  ASSUME QuietInv, [Next]_vars, Undisturbed', NEW t \in Entries, TheCU(t),
         \/ GetWorkloadClusterClient /\ run.pc = "getTargetClient"
         \/ CreateAndPushArgoApp \/ SyncTarget
  PROVE  Relocates(t)
<1>calm. Undisturbed /\ ~ Fault
  BY CalmBefore DEF QuietInv
<1>inv. TypeInv /\ run \in Runs /\ RunInv
  BY DEF QuietInv, TypeInv, TypeOK
<1> USE DEF apiVars, gitVars, clusterVars, Outside
<1>goto. \A l \in Locations : Goto(l) /\ UNCHANGED cached => Goes(l)
  BY <1>inv, GotoFields DEF Goto, Goes
<1>target. run.pc \in {"createApp", "getTargetClient"} => TargetCluster # None
  BY <1>inv, TheCUFacts
<1>1. CASE GetWorkloadClusterClient /\ run.pc = "getTargetClient"
  BY <1>1, <1>calm, <1>goto, <1>target DEF GetWorkloadClusterClient, Relocates, Locations
<1>2. CASE CreateAndPushArgoApp
  <2>1. run.pc = "createApp" /\ client = "valid"
    BY <1>2, <1>calm DEF CreateAndPushArgoApp, QuietInv, ClientInv
  <2>2. appFiles' = appFiles + 1 /\ UNCHANGED <<client, head, alive, ops, migrated>>
    BY <1>2, <1>calm, <1>target, <2>1 DEF CreateAndPushArgoApp
  <2>3. Goes("getTargetClient")
    BY <1>2, <1>goto DEF CreateAndPushArgoApp, Locations
  <2> QED
    BY <2>1, <2>2, <2>3 DEF Relocates
<1>3. CASE SyncTarget
  <2>1. run.pc = "syncTarget" /\ run.type = "NFDeployment" /\ run.entry = t
    BY <1>3, <1>inv, TheCUFacts DEF SyncTarget, RunInv
  <2>2. ops' = ops \union {ClusterInfo[t].target}
    BY <1>3, <1>calm, <2>1 DEF SyncTarget, TriggerArgoCDSync, TargetCluster
  <2>3. /\ run'.pc = "userInfo" /\ run'.type = "ConfigRef" /\ run'.entry = 0
        /\ run'.ips = run.ips /\ run'.apps = run.apps
    BY <1>3, <1>inv DEF SyncTarget, HandleDependentClusterPkgNF, Runs
  <2> QED
    BY <1>3, <2>1, <2>2, <2>3 DEF SyncTarget, HandleDependentClusterPkgNF, Relocates
<1> QED
  BY <1>1, <1>2, <1>3

(* The dependents' loop, and the syncs at its end. *)
LEMMA CalmLoop ==
  ASSUME QuietInv, [Next]_vars, Undisturbed',
         NextDependent \/ (\E c \in ClusterNames : SyncDependent(c)) \/ ReconcileDone
  PROVE  Loops
<1>calm. ~ Fault
  BY CalmBefore DEF QuietInv
<1>inv. run \in Runs /\ RunInv /\ queued \in BOOLEAN
  BY DEF QuietInv, TypeInv, TypeOK
<1> USE DEF apiVars, gitVars, clusterVars, Outside
<1>1. CASE NextDependent
  <2> DEFINE later == {e \in Entries : e > run.entry /\ IsDependent(e)}
  <2>1. /\ run.pc = "next"
        /\ UNCHANGED <<cached, queued, Outside>>
    BY <1>1 DEF NextDependent
  <2>2. ASSUME NEW e \in later, \A other \in later : e <= other,
               run' = [run EXCEPT !.pc = "clone", !.entry = e]
        PROVE  Loops
    <3>1. /\ run'.type = run.type /\ run'.ips = run.ips /\ run'.apps = run.apps
          /\ run'.pc = "clone" /\ run'.entry = e
      BY <2>2, <1>inv DEF Runs
    <3> QED
      BY <2>1, <2>2, <3>1 DEF Loops
  <2>3. CASE later = {} /\ run' = [run EXCEPT !.pc = "sync"]
    <3>1. /\ run'.type = run.type /\ run'.ips = run.ips /\ run'.apps = run.apps
          /\ run'.pc = "sync"
      BY <2>3, <1>inv DEF Runs
    <3>2. \A e \in Entries : IsDependent(e) => e <= run.entry
      BY <2>3, <1>inv, EntryTypes DEF Runs, Entries
    <3> QED
      BY <2>1, <3>1, <3>2 DEF Loops
  <2> QED
    BY <1>1, <2>2, <2>3 DEF NextDependent
<1>2. ASSUME NEW c \in ClusterNames, SyncDependent(c) PROVE Loops
  <2>1. /\ run'.pc = "sync" /\ run'.type = run.type /\ run'.entry = run.entry
        /\ run'.ips = run.ips /\ run.apps \ {c} \subseteq run'.apps
    BY <1>2, <1>inv DEF SyncDependent, Runs
  <2>2. ops' = ops \union {c}
    BY <1>2, <1>calm DEF SyncDependent, TriggerArgoCDSync
  <2> QED
    BY <1>2, <2>1, <2>2 DEF SyncDependent, Loops
<1>3. CASE ReconcileDone
  <2>1. UNCHANGED queued
    BY <1>3, <1>inv DEF ReconcileDone, Return
  <2> QED
    BY <1>3, <2>1 DEF ReconcileDone, Return, Loops
<1> QED
  BY <1>1, <1>2, <1>3

(* Every step of an undisturbed execution is one of these. *)
LEMMA CalmSteps ==
  ASSUME QuietInv, [Next]_vars, Undisturbed', NEW t \in Entries, TheCU(t)
  PROVE  CalmStep(t)
<1>calm. ~ Fault /\ ~ ForeignCommit
  BY CalmBefore DEF QuietInv
<1> USE DEF CalmStep
<1>0. CASE Reconcile
  BY <1>0, <1>calm
  DEF Reconcile, Begins, Prepares, Stays, apiVars, gitVars, clusterVars, Outside
<1>1. CASE Worker /\ ~ Reconcile
  BY <1>1, CalmPreparation, CalmPush, CalmTeardown, CalmRelocation, CalmLoop
  DEF Worker, GetWorkloadClusterClient
<1>2. CASE Environment
  BY <1>2, <1>calm
  DEF Environment, EditNFReconfig, DeliverEvent, Resync, RotateCredentials, Restart,
      ArgoSync, StartPods, Stays, Operates, apiVars, gitVars, clusterVars, Outside
<1>3. CASE UNCHANGED vars
  BY <1>3 DEF vars, Stays, Outside
<1> QED
  BY <1>0, <1>1, <1>2, <1>3 DEF Next

-----------------------------------------------------------------------------
(* Every step preserves the parts of the invariant. *)

(* A calm run that has passed the client goes on with it. *)
LEMMA NextClientInv == QuietInv /\ [Next]_vars => ClientInv'
<1> SUFFICES ASSUME QuietInv, [Next]_vars, Undisturbed'
             PROVE  /\ client' \in {"nil", "valid"}
                    /\ run'.pc \notin {"idle", "initClient"} => client' = "valid"
  BY DEF ClientInv
<1>1. PICK t \in Entries : TheCU(t)
  BY CalmBefore DEF QuietInv, Undisturbed, OneCUToMove, TheCU
<1>2. /\ client \in {"nil", "valid"}
      /\ run.pc \notin {"idle", "initClient"} => client = "valid"
  BY CalmBefore DEF QuietInv, ClientInv
<1>3. Begins => run'.pc = "initClient"
  BY IdleType DEF Begins, Runs
<1>4. CASE Stays \/ Operates
  BY <1>2, <1>4 DEF Stays, Operates, Outside
<1>5. CASE Prepares(t)
  BY <1>2, <1>3, <1>5 DEF Prepares, Goes, Outside
<1>6. CASE Pushes \/ GivesUp
  BY <1>2, <1>6, IdleType DEF Pushes, GivesUp, Goes, Outside
<1>7. CASE TearsDown
  BY <1>2, <1>7 DEF TearsDown, Deletes, TeardownEnds, Goes, Outside
<1>8. CASE Relocates(t)
  BY <1>2, <1>8 DEF Relocates, Goes, Outside
<1>9. CASE Loops
  BY <1>2, <1>9, IdleType DEF Loops, Outside
<1> QED
  BY <1>1, <1>4, <1>5, <1>6, <1>7, <1>8, <1>9, CalmSteps DEF CalmStep

(* Nobody moves the branch under a calm run, and what is to be rewritten    *)
(* makes its worktree dirty.                                                *)
LEMMA NextBranchInv == QuietInv /\ [Next]_vars => BranchInv'
<1> SUFFICES ASSUME QuietInv, [Next]_vars, Undisturbed', run'.pc \in {"update", "push"}
             PROVE  /\ rev'[CurrentRepo'] = run'.base
                    /\ run'.pc = "push" /\ Stale(Current, run.ips)' => run'.dirty
  BY DEF BranchInv
<1>calm. Undisturbed /\ ~ ForeignCommit
  BY CalmBefore DEF QuietInv
<1>inv. /\ TypeInv /\ CloneInv /\ BranchInv
        /\ run \in Runs /\ RunInv
        /\ head \in [Files -> Contents]
  BY DEF QuietInv, TypeInv, TypeOK
<1>1. CASE UNCHANGED run
  <2>1. ~ CommitAndPush /\ ~ CreateAndPushArgoApp
    <3>1. CommitAndPush => run.pc = "push" /\ run'.pc \in {"getClient", "idle"}
      BY <1>inv, IdleType, GotoFields
      DEF CommitAndPush, PushFailed, Return, Goto, Locations
    <3> QED
      BY <1>1, <3>1 DEF CreateAndPushArgoApp
  <2>2. UNCHANGED <<head, rev>>
    BY <1>calm, <2>1, Frames
  <2> QED
    BY <1>1, <2>2, <1>calm, <1>inv DEF BranchInv, CurrentRepo, Current, Stale
<1>2. CASE CheckRepoForMatchingManifests /\ run'.pc = "update"
  <2>1. run' = [run EXCEPT
             !.pc = "update",
             !.tree = [f \in Files |-> IF RepoOf(f) = CurrentRepo
                                       THEN head[f] ELSE EmptyTree[f]],
             !.base = rev[CurrentRepo]]
    BY <1>2, <1>inv, IdleType, GotoFields
    DEF CheckRepoForMatchingManifests, NoMatch, Return, Goto, Locations
  <2>2. run'.entry = run.entry /\ run'.base = rev[CurrentRepo]
    BY <2>1, <1>inv DEF Runs
  <2>3. UNCHANGED rev
    BY <1>2 DEF CheckRepoForMatchingManifests, gitVars
  <2> QED
    BY <1>2, <2>2, <2>3 DEF CurrentRepo
<1>3. CASE UpdateManifests /\ run'.pc = "push"
  <2> DEFINE own == OwnFiles(run.entry, run.type)
             tree == [f \in Files |-> IF f \in own THEN Rewrite(run.tree[f], run.ips)
                                                   ELSE run.tree[f]]
  <2>0. run.pc = "update"
    BY <1>3 DEF UpdateManifests
  <2>1. run' = [run EXCEPT !.pc = "push", !.tree = tree, !.dirty = (tree # run.tree)]
    BY <1>3, <1>inv, IdleType DEF UpdateManifests, Return
  <2>2. /\ run'.entry = run.entry
        /\ run'.type = run.type
        /\ run'.ips = run.ips
        /\ run'.base = run.base
        /\ run'.dirty = (tree # run.tree)
    BY <2>1, <1>inv DEF Runs
  <2>3. UNCHANGED <<head, rev>>
    BY <1>3 DEF UpdateManifests, gitVars
  <2>4. CurrentRepo' = CurrentRepo /\ Current' = Current
    BY <2>2 DEF CurrentRepo, Current
  <2>5. rev[CurrentRepo] = run.base
    BY <2>0, <1>calm, <1>inv DEF BranchInv
  <2>6. ASSUME Stale(Current, run.ips) PROVE tree # run.tree
    <3>1. PICK f \in own : Rewrite(head[f], run.ips) # head[f]
      BY <2>6 DEF Stale, Current
    <3>2. f \in Files /\ RepoOf(f) = CurrentRepo
      <4>1. Current \in Manifests
        BY <2>0, <1>inv DEF RunInv
      <4> QED
        BY <4>1, OwnFilesInRepo DEF Current, CurrentRepo, RepoOf
    <3>3. run.tree[f] = head[f]
      BY <2>0, <2>5, <3>2, <1>inv DEF CloneInv, Expected
    <3>4. tree[f] = Rewrite(run.tree[f], run.ips)
      BY <3>1, <3>2
    <3> QED
      BY <3>1, <3>3, <3>4
  <2>7. Stale(Current, run.ips)' => Stale(Current, run.ips)
    BY <2>2, <2>3, <2>4 DEF Stale
  <2> QED
    BY <2>2, <2>3, <2>4, <2>5, <2>6, <2>7
<1>4. run' # Idle /\ ~ Begins /\ ~ TurnsToDependents
  <2>1. Begins => run'.pc = "initClient"
    BY IdleType DEF Begins, Runs
  <2>2. TurnsToDependents => run'.pc = "userInfo"
    BY <1>inv DEF TurnsToDependents, Runs
  <2> QED
    BY <2>1, <2>2, IdleType
<1>5. CASE GoesOn
  BY <1>2, <1>3, <1>5 DEF GoesOn
<1> QED
  BY <1>1, <1>4, <1>5, <1>inv, RunSteps

(* Nothing runs that nobody would create. *)
LEMMA NextWorkloadInv == QuietInv /\ [Next]_vars => WorkloadInv'
<1> SUFFICES ASSUME QuietInv, [Next]_vars PROVE WorkloadInv'
  OBVIOUS
<1>inv. /\ WorkloadInv /\ TypeInv
        /\ run \in Runs /\ RunInv
        /\ alive \in [Entries -> SUBSET Kinds]
  BY DEF QuietInv, TypeInv, TypeOK
<1>1. \A e \in Entries : alive'[e] \subseteq Workload(e)
  <2> SUFFICES ASSUME NEW e \in Entries PROVE alive'[e] \subseteq Workload(e)
    OBVIOUS
  <2>0. alive[e] \subseteq Workload(e)
    BY <1>inv DEF WorkloadInv
  <2>1. ASSUME NEW k, alive' = Without(k) PROVE alive'[e] \subseteq Workload(e)
    BY <2>0, <2>1, <1>inv DEF Without
  <2>2. ASSUME NEW c, ArgoSync(c) PROVE alive'[e] \subseteq Workload(e)
    BY <2>0, <2>2 DEF ArgoSync
  <2>3. ASSUME NEW g, StartPods(g) PROVE alive'[e] \subseteq Workload(e)
    <3>1. alive'[e] = IF e = g THEN alive[e] \union {"Pods"} ELSE alive[e]
      BY <2>3, <1>inv DEF StartPods
    <3>2. "NFDeployment" \in Workload(e) => "Pods" \in Workload(e)
      BY DEF Workload, Kinds
    <3> QED
      BY <2>0, <2>3, <3>1, <3>2 DEF StartPods
  <2>4. (\E k : alive' = Without(k)) \/ (\E c : ArgoSync(c)) \/ (\E g : StartPods(g))
           \/ UNCHANGED alive
    <3> USE DEF clusterVars, LostDelete
    <3>1. CASE Worker
      BY <3>1
      DEF Worker, Reconcile, InitializeGiteaClient, GetMyUserInfo,
          CheckRepoForMatchingManifests, UpdateManifests, CommitAndPush,
          GetWorkloadClusterClient, DeleteConfig, DeleteConfigPods, DeleteNFDeployment,
          DeletePods, CreateAndPushArgoApp, SyncTarget, NextDependent, SyncDependent,
          ReconcileDone
    <3>2. CASE Environment
      BY <3>2
      DEF Environment, EditNFReconfig, DeliverEvent, Resync, ForeignCommit,
          RotateCredentials, Restart
    <3> QED
      BY <3>1, <3>2 DEF Next, vars
  <2> QED
    BY <2>0, <2>1, <2>2, <2>3, <2>4
<1>2. run'.type = "NFDeployment" => run'.apps = {}
  <2> DEFINE Ok == run'.type = "NFDeployment" => run'.apps = {}
  <2>0. run.type = "NFDeployment" => run.apps = {}
    BY <1>inv DEF WorkloadInv
  <2>1. CASE UNCHANGED run \/ run' = Idle \/ Begins
    BY <2>0, <2>1, IdleType DEF Begins, Runs
  <2>2. CASE TurnsToDependents
    BY <2>2, <1>inv DEF TurnsToDependents, Runs
  <2>3. CASE GoesOn
    <3> SUFFICES ASSUME run.type = "NFDeployment" PROVE run'.apps = run.apps
      BY <2>0, <2>3 DEF GoesOn
    <3>1. run.pc # "idle" /\ run'.pc # "idle" /\ run'.type = "NFDeployment"
      BY <2>3 DEF GoesOn
    <3>2. run' # Idle /\ run.pc \notin {"next", "sync"}
      BY <3>1, <1>inv, IdleType DEF RunInv
    <3>3. ASSUME NEW l, run' = [run EXCEPT !.pc = l] PROVE run'.apps = run.apps
      BY <3>3, <1>inv DEF Runs
    <3>4. AfterTeardown => run'.apps = run.apps
      BY <3>3 DEF AfterTeardown
    <3>5. ~ HandleDependentClusterPkgNF
      BY <3>1, <1>inv DEF HandleDependentClusterPkgNF, Runs
    <3>6. CASE InitializeGiteaClient \/ CheckRepoForMatchingManifests \/ UpdateManifests
      BY <3>2, <3>3, <3>6, <1>inv
      DEF InitializeGiteaClient, UninitializedClient, CheckRepoForMatchingManifests,
          NoMatch, UpdateManifests, Return, Goto, Runs
    <3>7. CASE Worker
      BY <3>1, <3>2, <3>3, <3>4, <3>5, <3>6, <3>7
      DEF Worker, Reconcile, GetMyUserInfo, CommitAndPush, PushFailed,
          GetWorkloadClusterClient, NoTargetClient, DeleteConfig, DeleteConfigPods,
          DeleteNFDeployment, DeletePods, CreateAndPushArgoApp, SyncTarget,
          NextDependent, SyncDependent, ReconcileDone, Return, Goto
    <3>8. CASE Environment
      BY <3>2, <3>8
      DEF Environment, EditNFReconfig, DeliverEvent, Resync, ForeignCommit,
          RotateCredentials, Restart, ArgoSync, StartPods
    <3>9. CASE UNCHANGED vars
      BY <3>9 DEF vars
    <3> QED
      BY <3>7, <3>8, <3>9 DEF Next
  <2> QED
    BY <2>1, <2>2, <2>3, <1>inv, RunSteps
<1> QED
  BY <1>1, <1>2 DEF WorkloadInv

(* A file of clusterInfo is the CU's or the manifest of a dependent. *)
LEMMA FileKinds ==
  ASSUME NEW t \in Entries, TheCU(t), NEW f \in Files
  PROVE  /\ f[1] \in Entries /\ f[1] \in Nat /\ f[1] > 0
         /\ f[2] # "ConfigRef" => f \in OwnFiles(t, "NFDeployment")
         /\ f[2] = "ConfigRef" => f = <<f[1], "ConfigRef">> /\ IsDependent(f[1])
BY EntryTypes DEF TheCU, Files, OwnFiles, IsDependent, ManifestTypes, Entries

(* The files are written one after the other, for one assignment at a time. *)
LEMMA NextFilesInv == QuietInv /\ [Next]_vars => FilesInv'
<1> DEFINE Goal ==
             /\ \A f \in Files : head'[f].ips \in Assignments
             /\ Publishing' =>
                  /\ run'.ips \in Assignments
                  /\ \A f \in Files : Written(f, run.ips)' <=> Handled(f)'
             /\ ~ Publishing' =>
                  \/ \A f \in Files : ~ head'[f].canonical
                  \/ \E v \in Assignments : \A f \in Files : Written(f, v)'
<1> SUFFICES ASSUME QuietInv, [Next]_vars, Undisturbed' PROVE Goal
  BY DEF FilesInv
<1>1. PICK t \in Entries : TheCU(t)
  BY CalmBefore DEF QuietInv, Undisturbed, OneCUToMove, TheCU
<1>inv. TypeInv /\ run \in Runs /\ RunInv
  BY DEF QuietInv, TypeInv, TypeOK
<1>before. /\ \A f \in Files : head[f].ips \in Assignments
           /\ Publishing =>
                /\ run.ips \in Assignments
                /\ \A f \in Files : Written(f, run.ips) <=> Handled(f)
           /\ ~ Publishing =>
                \/ \A f \in Files : ~ head[f].canonical
                \/ \E v \in Assignments : \A f \in Files : Written(f, v)
  BY CalmBefore DEF QuietInv, FilesInv
<1>written. /\ \A f, v : Written(f, v)' <=> head'[f] = [ips |-> v, canonical |-> TRUE]
            /\ \A f : Written(f, run.ips)' <=> head'[f] = [ips |-> run'.ips, canonical |-> TRUE]
  BY DEF Written
<1>frame. ASSUME UNCHANGED head, Publishing' <=> Publishing,
                 Publishing =>
                   /\ run'.ips = run.ips
                   /\ \A f \in Files : Handled(f)' <=> Handled(f)
          PROVE  Goal
  BY <1>before, <1>frame, <1>written DEF Written
<1>files. \A f \in Files :
            /\ f[1] \in Entries /\ f[1] \in Nat /\ f[1] > 0
            /\ f[2] # "ConfigRef" => f \in OwnFiles(t, "NFDeployment")
            /\ f[2] = "ConfigRef" => f = <<f[1], "ConfigRef">> /\ IsDependent(f[1])
  BY <1>1, FileKinds
<1>entry. run.entry \in Nat
  BY <1>inv DEF Runs
<1>2. CASE Stays \/ Operates
  <2>1. UNCHANGED <<run, head>>
    BY <1>2 DEF Stays, Operates, Outside
  <2>2. (Publishing' <=> Publishing) /\ \A f \in Files : Handled(f)' <=> Handled(f)
    BY <2>1 DEF Publishing, Handled
  <2> QED
    BY <2>1, <2>2, <1>frame
<1>3. CASE Prepares(t)
  <2>1. CASE Begins /\ UNCHANGED Outside
    <3>1. run.pc = "idle" /\ run.type = "NFDeployment"
          /\ run'.pc = "initClient" /\ run'.type = "NFDeployment"
      BY <2>1, <1>inv, IdleType DEF Begins, Reconcile, RunInv, Runs
    <3>2. ~ Publishing /\ ~ Publishing'
      BY <3>1 DEF Publishing, AfterPush
    <3> QED
      BY <2>1, <3>2, <1>frame DEF Outside
  <2>2. CASE /\ run.pc \in {"initClient", "userInfo", "clone", "update"}
             /\ run.type = "NFDeployment" /\ run'.type = "NFDeployment"
             /\ run'.pc \in {"userInfo", "clone", "update", "push"}
             /\ UNCHANGED head
    <3>1. ~ Publishing /\ ~ Publishing'
      BY <2>2 DEF Publishing, AfterPush
    <3> QED
      BY <2>2, <3>1, <1>frame
  <2>3. CASE /\ run.type = "ConfigRef" /\ run'.type = "ConfigRef"
             /\ run'.entry = run.entry /\ run'.ips = run.ips
             /\ \/ run.pc = "userInfo" /\ run'.pc = "next"
                \/ run.pc = "clone" /\ run'.pc = "update"
                \/ run.pc = "update" /\ run'.pc = "push"
             /\ UNCHANGED head
    <3>1. Publishing /\ Publishing'
      BY <2>3 DEF Publishing
    <3>2. \A f \in Files : Handled(f)' <=> Handled(f)
      BY <2>3 DEF Handled, AfterPush
    <3> QED
      BY <2>3, <3>1, <3>2, <1>frame
  <2> QED
    BY <1>3, <2>1, <2>2, <2>3, <1>inv DEF Prepares, Goes, Outside, RunInv, Runs, ManifestTypes
<1>4. CASE Pushes
  <2>1. /\ run.pc = "push" /\ run.ips \in Assignments
        /\ run'.pc = "getClient" /\ run'.type = run.type
        /\ run'.entry = run.entry /\ run'.ips = run.ips
        /\ \A f \in Files : IF f \in OwnFiles(run.entry, run.type)
                            THEN head'[f] = [ips |-> run.ips, canonical |-> TRUE]
                            ELSE head'[f] = head[f]
        /\ Publishing'
    BY <1>4, <1>inv, <1>written DEF Pushes, Goes, RunInv, Publishing, AfterPush
  <2>2. \A f \in Files : head'[f].ips \in Assignments
    BY <2>1, <1>before
  <2>3. CASE run.type = "NFDeployment"
    <3>1. run.entry = t /\ ~ Publishing
      BY <2>1, <2>3, <1>1, <1>inv, TheCUFacts DEF Publishing, AfterPush
    <3>2. \A f \in Files : Handled(f)' <=> f[2] # "ConfigRef"
      BY <2>1, <2>3 DEF Handled
    <3>3. ASSUME NEW f \in Files PROVE Written(f, run.ips)' <=> f[2] # "ConfigRef"
      <4>1. CASE f[2] # "ConfigRef"
        BY <2>1, <2>3, <3>1, <4>1, <1>files, <1>written
      <4>2. CASE f[2] = "ConfigRef"
        <5>1. head'[f] = head[f]
          BY <2>1, <2>3, <4>2 DEF OwnFiles
        <5>2. ~ Written(f, run.ips)
          <6>1. CASE \A g \in Files : ~ head[g].canonical
            BY <6>1 DEF Written
          <6>2. ASSUME NEW v \in Assignments, \A g \in Files : Written(g, v),
                       Written(f, run.ips)
                PROVE  FALSE
            <7>1. v = run.ips
              BY <6>2 DEF Written
            <7>2. PICK g \in OwnFiles(run.entry, run.type) : Rewrite(head[g], run.ips) # head[g]
              BY <1>4 DEF Pushes, Stale, Current
            <7>3. g \in Files
              <8>1. Current \in Manifests
                BY <2>1, <1>inv DEF RunInv
              <8> QED
                BY <8>1, OwnFilesInRepo DEF Current
            <7> QED
              BY <6>2, <7>1, <7>2, <7>3 DEF Written, Rewrite
          <6> QED
            BY <3>1, <6>1, <6>2, <1>before
        <5> QED
          BY <2>1, <4>2, <5>1, <5>2, <1>written DEF Written
      <4> QED
        BY <4>1, <4>2
    <3> QED
      BY <2>1, <2>2, <3>2, <3>3
  <2>4. CASE run.type = "ConfigRef"
    <3>1. Publishing
      BY <2>4 DEF Publishing
    <3>2. OwnFiles(run.entry, run.type) = {<<run.entry, "ConfigRef">>}
      BY <2>4 DEF OwnFiles
    <3>3. ASSUME NEW f \in Files PROVE Written(f, run.ips)' <=> Handled(f)'
      <4>1. CASE f = <<run.entry, "ConfigRef">>
        <5>1. Handled(f)'
          BY <2>1, <2>4, <4>1 DEF Handled, AfterPush
        <5> QED
          BY <2>1, <3>2, <4>1, <5>1, <1>written
      <4>2. CASE f # <<run.entry, "ConfigRef">>
        <5>1. head'[f] = head[f]
          BY <2>1, <3>2, <4>2
        <5>2. Handled(f)' <=> Handled(f)
          <6>1. f[2] = "ConfigRef" => f[1] # run.entry
            BY <4>2, <1>files
          <6> QED
            BY <2>1, <2>4, <6>1 DEF Handled
        <5> QED
          BY <2>1, <3>1, <5>1, <5>2, <1>before, <1>written DEF Written
      <4> QED
        BY <4>1, <4>2
    <3> QED
      BY <2>1, <2>2, <3>3
  <2> QED
    BY <2>3, <2>4, <1>inv DEF Runs, ManifestTypes
<1>5. CASE GivesUp
  <2>1. ~ Publishing /\ ~ Publishing' /\ UNCHANGED head
    BY <1>5, IdleType DEF GivesUp, Publishing, AfterPush, Outside
  <2> QED
    BY <2>1, <1>frame
<1>6. CASE TearsDown \/ Relocates(t)
  <2>1. Publishing /\ Publishing' /\ run'.ips = run.ips /\ UNCHANGED head
    BY <1>6
    DEF TearsDown, Deletes, TeardownEnds, Relocates, Goes, Publishing, AfterPush,
        FirstDeletion, Outside
  <2>2. \A f \in Files : Handled(f)' <=> Handled(f)
    <3>1. CASE run.type = "ConfigRef"
      <4>1. /\ run'.type = "ConfigRef" /\ run'.entry = run.entry
            /\ run.pc \in AfterPush /\ run'.pc \in AfterPush \union {"next"}
        BY <1>6, <3>1, <1>inv
        DEF TearsDown, Deletes, TeardownEnds, Relocates, Goes, RunInv, AfterPush,
            FirstDeletion
      <4> QED
        BY <3>1, <4>1 DEF Handled, AfterPush
    <3>2. CASE run.type = "NFDeployment"
      <4>1. run'.type = "NFDeployment" \/ (run'.entry = 0 /\ run'.pc = "userInfo")
        BY <1>6, <3>2 DEF TearsDown, Deletes, TeardownEnds, Relocates, Goes
      <4> QED
        BY <3>2, <4>1, <1>files DEF Handled
    <3> QED
      BY <3>1, <3>2, <1>inv DEF Runs, ManifestTypes
  <2> QED
    BY <2>1, <2>2, <1>frame
<1>7. CASE Loops
  <2>0. UNCHANGED head /\ run.type = "ConfigRef" /\ Publishing
    BY <1>7, <1>inv DEF Loops, Outside, RunInv, Publishing
  <2>1. CASE run.pc = "next"
    <3>1. /\ run'.type = "ConfigRef" /\ run'.ips = run.ips
          /\ \/ /\ run'.pc = "clone"
                /\ run'.entry \in Entries
                /\ run'.entry > run.entry
                /\ \A e \in Entries : e > run.entry /\ IsDependent(e) => run'.entry <= e
             \/ /\ run'.pc = "sync"
                /\ \A e \in Entries : IsDependent(e) => e <= run.entry
      BY <1>7, <2>0, <2>1 DEF Loops
    <3>2. Publishing'
      BY <3>1 DEF Publishing
    <3>3. ASSUME NEW f \in Files, f[2] = "ConfigRef" PROVE Handled(f)' <=> f[1] <= run.entry
      <4>1. f[1] \in Entries /\ f[1] \in Nat /\ IsDependent(f[1])
        BY <3>3, <1>files
      <4>2. CASE run'.pc = "clone"
        <5>1. run'.entry \in Nat
          BY <3>1, <4>2 DEF Entries
        <5>2. Handled(f)' <=> f[1] < run'.entry
          BY <3>1, <3>3, <4>2 DEF Handled, AfterPush
        <5> QED
          BY <3>1, <4>1, <4>2, <5>1, <5>2, <1>entry
      <4>3. CASE run'.pc = "sync"
        BY <3>1, <4>1, <4>3 DEF Handled
      <4> QED
        BY <3>1, <4>2, <4>3
    <3>4. \A f \in Files : Handled(f)' <=> Handled(f)
      BY <2>0, <2>1, <3>3, <1>files, <1>entry DEF Handled
    <3> QED
      BY <2>0, <3>1, <3>2, <3>4, <1>frame
  <2>2. CASE run.pc = "sync" /\ run'.pc = "sync" /\ run'.type = run.type /\ run'.ips = run.ips
    <3>1. Publishing' /\ \A f \in Files : Handled(f)' <=> Handled(f)
      BY <2>0, <2>2 DEF Publishing, Handled
    <3> QED
      BY <2>0, <2>2, <3>1, <1>frame
  <2>3. CASE run.pc = "sync" /\ run' = Idle
    <3>1. \A f \in Files : Written(f, run.ips)
      BY <2>0, <2>3, <1>before DEF Handled
    <3>2. \A f \in Files : head'[f] = [ips |-> run.ips, canonical |-> TRUE]
      BY <2>0, <3>1 DEF Written
    <3>3. ~ Publishing'
      BY <2>3, IdleType DEF Publishing, AfterPush
    <3>4. run.ips \in Assignments
      BY <2>0, <1>before
    <3> QED
      BY <2>0, <3>2, <3>3, <3>4, <1>before, <1>written
  <2> QED
    BY <1>7, <2>1, <2>2, <2>3 DEF Loops
<1> QED
  BY <1>1, <1>2, <1>3, <1>4, <1>5, <1>6, <1>7, CalmSteps DEF CalmStep

(* When a run returns and its key is not queued, what it read is written. *)
LEMMA NextIdleInv == QuietInv /\ [Next]_vars => IdleInv'
<1> SUFFICES ASSUME QuietInv, [Next]_vars, Undisturbed', run'.pc = "idle", ~ queued',
                    cached' \in Assignments, NEW g \in Files
             PROVE  head'[g] = [ips |-> cached', canonical |-> TRUE]
  BY DEF IdleInv, Written
<1>calm. Undisturbed
  BY CalmBefore DEF QuietInv
<1>1. PICK t \in Entries : TheCU(t)
  BY <1>calm DEF Undisturbed, OneCUToMove, TheCU
<1>inv. TypeInv /\ run \in Runs /\ RunInv /\ WakeInv
  BY DEF QuietInv, TypeInv, TypeOK
<1>sentinels. {NoIPv4, Deleted, Absent, Broken} \intersect Assignments = {}
  BY SentinelAssumption
<1>before. /\ \A f \in Files : head[f].ips \in Assignments
           /\ Publishing => \A f \in Files : Written(f, run.ips) <=> Handled(f)
           /\ ~ Publishing =>
                \/ \A f \in Files : ~ head[f].canonical
                \/ \E v \in Assignments : \A f \in Files : Written(f, v)
  BY <1>calm DEF QuietInv, FilesInv
<1>2. CASE Stays \/ Operates
  <2>1. UNCHANGED <<run, head, cached, queued>>
    BY <1>2, <1>sentinels DEF Stays, Operates, Outside
  <2>2. Written(g, cached)
    BY <2>1, <1>calm DEF QuietInv, IdleInv
  <2> QED
    BY <2>1, <2>2 DEF Written
<1>3. ~ Prepares(t)
  <2>1. Begins => run'.pc = "initClient"
    BY IdleType DEF Begins, Runs
  <2> QED
    BY <2>1 DEF Prepares, Goes
<1>4. ~ Pushes /\ ~ TearsDown /\ ~ Relocates(t)
  BY DEF Pushes, TearsDown, Deletes, TeardownEnds, Relocates, Goes, FirstDeletion
<1>5. CASE GivesUp
  <2>1. run.ips = cached' /\ UNCHANGED head
    BY <1>5, <1>inv DEF GivesUp, WakeInv, Outside
  <2>2. run.pc = "push" /\ ~ Stale(Current, run.ips) /\ ~ Publishing
    BY <1>5, <2>1, <1>sentinels DEF GivesUp, Publishing, AfterPush
  <2>3. Current \in Files /\ Current \in OwnFiles(Current[1], Current[2])
    BY <2>2, <1>inv, EntryTypes DEF RunInv, OwnFiles, Current
  <2>4. Written(Current, run.ips)
    <3>1. Rewrite(head[Current], run.ips) = head[Current]
      BY <2>1, <2>2, <2>3 DEF Stale
    <3> QED
      BY <2>3, <3>1, <1>before, <1>sentinels DEF Rewrite, Written
  <2>5. PICK v \in Assignments : \A f \in Files : Written(f, v)
    BY <2>2, <2>3, <2>4, <1>before DEF Written
  <2>6. v = run.ips
    BY <2>3, <2>4, <2>5 DEF Written
  <2> QED
    BY <2>1, <2>5, <2>6 DEF Written
<1>6. CASE Loops
  <2>1. run.pc = "sync" /\ UNCHANGED <<cached, queued, head>>
    BY <1>6 DEF Loops, Outside
  <2>2. run.type = "ConfigRef" /\ run.ips = cached'
    BY <2>1, <1>inv DEF RunInv, WakeInv
  <2>3. Written(g, run.ips)
    BY <2>1, <2>2, <1>before DEF Publishing, Handled
  <2> QED
    BY <2>1, <2>2, <2>3 DEF Written
<1> QED
  BY <1>1, <1>2, <1>3, <1>4, <1>5, <1>6, CalmSteps DEF CalmStep

(* A CU whose manifest is written is on its way to the other cluster. *)
LEMMA NextMovedInv == QuietInv /\ [Next]_vars => MovedInv'
<1> DEFINE target(e) == ClusterInfo[e].target
           Goal(e) ==
             /\ \/ run.type = "NFDeployment" /\ run.pc \in {"getClient", "deleteNF"}
                \/ "NFDeployment" \notin alive[e]
             /\ \/ /\ run.type = "NFDeployment"
                   /\ run.pc \in {"getClient", "deleteNF", "deletePods", "createApp"}
                \/ appFiles > 0
             /\ \/ run.type = "NFDeployment" /\ run.pc \in AfterPush
                \/ migrated
                \/ target(e) \in ops
           Moved(e) ==
             /\ "NFDeployment" \notin alive[e]
             /\ appFiles > 0
             /\ migrated \/ target(e) \in ops
<1> SUFFICES ASSUME QuietInv, [Next]_vars, Undisturbed', NEW t \in Entries,
                    IsTargetEntry(t), head'[<<t, "NFDeployment">>].canonical
             PROVE  Goal(t)'
  BY DEF MovedInv
<1>calm. Undisturbed
  BY CalmBefore DEF QuietInv
<1>inv. /\ TypeInv /\ run \in Runs /\ RunInv
        /\ alive \in [Entries -> SUBSET Kinds] /\ appFiles \in Nat
  BY DEF QuietInv, TypeInv, TypeOK
<1>1. TheCU(t)
  <2>1. PICK e \in Entries : TheCU(e)
    BY <1>calm DEF Undisturbed, OneCUToMove, TheCU
  <2> QED
    BY <2>1, <1>inv, TheCUFacts
<1>cu. /\ <<t, "NFDeployment">> \in Files
       /\ ~ IsDependent(t)
       /\ run.type = "NFDeployment" /\ run.pc \notin {"idle", "initClient"} => run.entry = t
  BY <1>1, <1>inv, TheCUFacts, EntryTypes
<1>before. head[<<t, "NFDeployment">>].canonical => Goal(t)
  BY <1>calm DEF QuietInv, MovedInv
<1>moved. ASSUME Moved(t)' PROVE Goal(t)'
  BY <1>moved
<1>2. CASE Stays
  <2>1. Goal(t)
    BY <1>2, <1>before DEF Stays, Outside
  <2> QED
    BY <1>2, <2>1 DEF Stays, Outside
<1>3. CASE Operates
  <2>1. Goal(t) /\ UNCHANGED <<run, appFiles>>
    BY <1>3, <1>before DEF Operates
  <2>2. ASSUME NEW c \in ClusterNames, ArgoSync(c) PROVE Goal(t)'
    <3>1. ClusterInfo[t].name # c
      BY <1>1, <2>2 DEF ArgoSync, QuietInv, OneCUInv, TheCU
    <3>2. alive'[t] = alive[t] /\ ops' = ops \ {c}
      BY <2>2, <3>1 DEF ArgoSync
    <3>3. migrated' = (migrated \/ /\ appFiles > 0
                                   /\ \E e \in Entries : /\ IsTargetEntry(e)
                                                         /\ ClusterInfo[e].target = c)
      BY <2>2 DEF ArgoSync
    <3>4. \/ run.type = "NFDeployment" /\ run.pc \in AfterPush
          \/ migrated'
          \/ target(t) \in ops'
      <4>1. CASE run.type = "NFDeployment" /\ run.pc \in AfterPush
        BY <4>1
      <4>2. CASE ~ (run.type = "NFDeployment" /\ run.pc \in AfterPush)
        <5>1. appFiles > 0 /\ (migrated \/ target(t) \in ops)
          BY <2>1, <4>2 DEF AfterPush
        <5> QED
          BY <3>2, <3>3, <5>1
      <4> QED
        BY <4>1, <4>2
    <3> QED
      BY <2>1, <3>2, <3>4
  <2>3. ASSUME NEW g \in Entries, StartPods(g) PROVE Goal(t)'
    <3>1. "NFDeployment" \in alive'[t] => "NFDeployment" \in alive[t]
      BY <2>3, <1>inv DEF StartPods
    <3>2. UNCHANGED <<ops, migrated>>
      BY <2>3 DEF StartPods
    <3> QED
      BY <2>1, <3>1, <3>2
  <2> QED
    BY <1>3, <2>2, <2>3 DEF Operates
<1>4. CASE Prepares(t)
  <2>1. run.pc \notin AfterPush /\ UNCHANGED <<head, alive, appFiles, ops, migrated>>
    BY <1>4 DEF Prepares, Begins, Reconcile, AfterPush, Outside
  <2>2. Moved(t)
    BY <2>1, <1>before DEF AfterPush
  <2> QED
    BY <2>1, <2>2, <1>moved
<1>5. CASE Pushes
  <2>1. CASE run.type = "NFDeployment"
    BY <1>5, <2>1 DEF Pushes, Goes, AfterPush
  <2>2. CASE run.type = "ConfigRef"
    <3>1. <<t, "NFDeployment">> \notin OwnFiles(run.entry, run.type)
      BY <2>2 DEF OwnFiles
    <3>2. head'[<<t, "NFDeployment">>] = head[<<t, "NFDeployment">>]
      BY <1>5, <3>1, <1>cu DEF Pushes
    <3>3. Moved(t)
      BY <2>2, <3>2, <1>before
    <3> QED
      BY <1>5, <3>3, <1>moved DEF Pushes
  <2> QED
    BY <2>1, <2>2, <1>inv DEF Runs, ManifestTypes
<1>6. CASE GivesUp
  <2>1. Moved(t)
    BY <1>6, <1>before DEF GivesUp, AfterPush, Outside
  <2> QED
    BY <1>6, <2>1, <1>moved DEF GivesUp, Outside
<1>7. CASE TearsDown
  <2>1. UNCHANGED <<head, appFiles, ops, migrated>>
    BY <1>7 DEF TearsDown, Deletes, TeardownEnds, Outside
  <2>2. Goal(t)
    BY <2>1, <1>before
  <2>3. "NFDeployment" \in alive'[t] => "NFDeployment" \in alive[t]
    BY <1>7, <1>inv DEF TearsDown, Deletes, TeardownEnds, Without, Outside
  <2>4. CASE run.type = "ConfigRef"
    BY <2>1, <2>2, <2>3, <2>4, <1>moved
  <2>5. CASE run.type = "NFDeployment"
    <3>1. run.entry = t /\ run'.type = "NFDeployment" /\ run.pc \in AfterPush
      BY <1>7, <2>5, <1>cu DEF TearsDown, Deletes, TeardownEnds, Goes, AfterPush
    <3>2. CASE run.pc = "getClient"
      BY <1>7, <2>5, <3>1, <3>2
      DEF TearsDown, Deletes, TeardownEnds, Goes, FirstDeletion, AfterPush
    <3>3. CASE run.pc = "deleteNF"
      <4>1. "NFDeployment" \notin alive'[t]
        BY <1>7, <3>1, <3>3, <1>inv
        DEF TearsDown, Deletes, TeardownEnds, Without
      <4>2. run'.pc \in {"deletePods", "createApp"}
        BY <1>7, <2>5, <3>3 DEF TearsDown, Deletes, TeardownEnds, Goes
      <4> QED
        BY <3>1, <4>1, <4>2 DEF AfterPush
    <3>4. CASE run.pc = "deletePods"
      <4>1. run'.pc = "createApp"
        BY <1>7, <2>5, <3>4 DEF TearsDown, Deletes, TeardownEnds, Goes
      <4>2. "NFDeployment" \notin alive'[t]
        BY <2>2, <2>3, <3>4
      <4> QED
        BY <3>1, <4>1, <4>2 DEF AfterPush
    <3>5. run.pc \in {"getClient", "deleteNF", "deletePods"}
      BY <1>7, <2>5, <1>inv DEF TearsDown, Deletes, TeardownEnds, RunInv
    <3> QED
      BY <3>2, <3>3, <3>4, <3>5
  <2> QED
    BY <2>4, <2>5, <1>inv DEF Runs, ManifestTypes
<1>8. CASE Relocates(t)
  <2>1. Goal(t)
    BY <1>8, <1>before DEF Relocates, Outside
  <2>2. run.type = "NFDeployment"
    BY <1>8, <1>inv DEF Relocates, RunInv
  <2>3. "NFDeployment" \notin alive[t] /\ UNCHANGED alive
    BY <1>8, <2>1 DEF Relocates, Outside
  <2>4. CASE run.pc = "createApp"
    <3>1. appFiles' > 0 /\ run'.pc = "getTargetClient" /\ run'.type = "NFDeployment"
      BY <1>8, <2>2, <2>4, <1>inv DEF Relocates, Goes
    <3> QED
      BY <2>3, <3>1 DEF AfterPush
  <2>5. CASE run.pc = "getTargetClient"
    <3>1. appFiles > 0 /\ UNCHANGED appFiles
      BY <1>8, <2>1, <2>5 DEF Relocates, Outside
    <3>2. run'.pc = "syncTarget" /\ run'.type = "NFDeployment"
      BY <1>8, <2>2, <2>5 DEF Relocates, Goes
    <3> QED
      BY <2>3, <3>1, <3>2 DEF AfterPush
  <2>6. CASE run.pc = "syncTarget"
    <3>1. appFiles > 0 /\ UNCHANGED appFiles /\ target(t) \in ops'
      BY <1>8, <2>1, <2>6 DEF Relocates, Outside
    <3> QED
      BY <2>3, <3>1, <1>moved
  <2> QED
    BY <1>8, <2>4, <2>5, <2>6 DEF Relocates
<1>9. CASE Loops
  <2>1. run.type = "ConfigRef" /\ UNCHANGED <<head, alive, appFiles, migrated>>
           /\ ops \subseteq ops'
    BY <1>9, <1>inv DEF Loops, RunInv, Outside
  <2>2. Moved(t)
    BY <2>1, <1>before
  <2> QED
    BY <2>1, <2>2, <1>moved
<1> QED
  BY <1>1, <1>2, <1>3, <1>4, <1>5, <1>6, <1>7, <1>8, <1>9, CalmSteps DEF CalmStep

(* What is torn down of a dependent is brought back. *)
LEMMA NextDependentsInv == QuietInv /\ [Next]_vars => DependentsInv'
<1> DEFINE Core == {"Config", "NFDeployment"}
           Goal(d) ==
             \/ Core \subseteq alive[d]
             \/ ClusterInfo[d].name \in ops \union run.apps
             \/ /\ run.type = "ConfigRef"
                /\ run.entry = d
                /\ run.pc \in {"deleteConfigPods", "deleteNF", "deletePods"}
<1> SUFFICES ASSUME QuietInv, [Next]_vars, Undisturbed', NEW d \in Entries, IsDependent(d)
             PROVE  Goal(d)'
  BY DEF DependentsInv
<1>calm. Undisturbed
  BY CalmBefore DEF QuietInv
<1>inv. /\ TypeInv /\ run \in Runs /\ RunInv
        /\ alive \in [Entries -> SUBSET Kinds]
        /\ run.type = "NFDeployment" => run.apps = {}
  BY DEF QuietInv, TypeInv, TypeOK, WorkloadInv
<1>1. PICK t \in Entries : TheCU(t)
  BY <1>calm DEF Undisturbed, OneCUToMove, TheCU
<1>before. Goal(d)
  BY <1>calm DEF QuietInv, DependentsInv
<1>other. run.type = "NFDeployment" /\ run.pc \notin {"idle", "initClient"} => run.entry # d
  BY <1>1, <1>inv, TheCUFacts
<1>2. CASE Stays
  BY <1>2, <1>before DEF Stays, Outside
<1>3. CASE Operates
  <2>1. UNCHANGED run
    BY <1>3 DEF Operates
  <2>2. ASSUME NEW c \in ClusterNames, ArgoSync(c) PROVE Goal(d)'
    <3>1. alive'[d] = IF ClusterInfo[d].name = c
                      THEN alive[d] \union (Workload(d) \ {"Pods"}) ELSE alive[d]
      BY <2>2 DEF ArgoSync
    <3>2. ops' = ops \ {c}
      BY <2>2 DEF ArgoSync
    <3>3. CASE ClusterInfo[d].name = c
      <4>1. Core \subseteq Workload(d) \ {"Pods"}
        BY DEF Workload, Kinds, IsDependent
      <4> QED
        BY <3>1, <3>3, <4>1
    <3>4. CASE ClusterInfo[d].name # c
      BY <2>1, <3>1, <3>2, <3>4, <1>before
    <3> QED
      BY <3>3, <3>4
  <2>3. ASSUME NEW g \in Entries, StartPods(g) PROVE Goal(d)'
    <3>1. alive[d] \subseteq alive'[d] /\ UNCHANGED ops
      BY <2>3, <1>inv DEF StartPods
    <3> QED
      BY <2>1, <3>1, <1>before
  <2> QED
    BY <1>3, <2>2, <2>3 DEF Operates
<1>4. CASE Prepares(t) \/ Pushes
  <2>1. Begins => run'.apps = run.apps
    BY <1>inv, IdleType DEF Begins, Reconcile, RunInv, Runs
  <2>2. /\ UNCHANGED <<alive, ops>>
        /\ run'.apps = run.apps
        /\ run.pc \notin {"deleteConfigPods", "deleteNF", "deletePods"}
    BY <1>4, <2>1 DEF Prepares, Pushes, Begins, Reconcile, Goes, Outside
  <2> QED
    BY <2>2, <1>before
<1>5. CASE GivesUp
  BY <1>5, <1>inv, <1>before DEF GivesUp, Outside
<1>6. CASE TearsDown
  <2>0. UNCHANGED ops /\ run.pc \notin {"idle", "initClient"} /\ run.apps \subseteq run'.apps
    BY <1>6 DEF TearsDown, Deletes, TeardownEnds, Goes, Outside
  <2>1. CASE run.entry # d
    <3>1. UNCHANGED alive \/ \E k : alive' = Without(k)
      BY <1>6 DEF TearsDown, Deletes, TeardownEnds, Outside
    <3>2. alive'[d] = alive[d]
      BY <2>1, <3>1, <1>inv DEF Without
    <3> QED
      BY <2>0, <2>1, <3>2, <1>before
  <2>2. CASE run.entry = d
    <3>1. run.type = "ConfigRef"
      BY <2>0, <2>2, <1>other, <1>inv DEF Runs, ManifestTypes
    <3>2. CASE TeardownEnds
      BY <2>2, <3>1, <3>2 DEF TeardownEnds
    <3>3. CASE run.pc = "getClient" /\ UNCHANGED Outside
      BY <2>0, <3>3, <1>before DEF Outside
    <3>4. CASE /\ run'.type = run.type /\ run'.entry = run.entry
               /\ run'.pc \in {"deleteConfigPods", "deleteNF", "deletePods"}
      BY <2>2, <3>1, <3>4
    <3> QED
      BY <1>6, <3>2, <3>3, <3>4 DEF TearsDown, Deletes, Goes
  <2> QED
    BY <2>1, <2>2
<1>7. CASE Relocates(t)
  <2>1. /\ UNCHANGED alive /\ ops \subseteq ops' /\ run'.apps = run.apps
        /\ run.pc \notin {"deleteConfigPods", "deleteNF", "deletePods"}
    BY <1>7 DEF Relocates, Goes, Outside
  <2> QED
    BY <2>1, <1>before
<1>8. CASE Loops
  <2>1. /\ UNCHANGED alive
        /\ ops \union run.apps \subseteq ops' \union run'.apps
        /\ run.pc \notin {"deleteConfigPods", "deleteNF", "deletePods"}
    BY <1>8 DEF Loops, Outside
  <2> QED
    BY <2>1, <1>before
<1> QED
  BY <1>1, <1>2, <1>3, <1>4, <1>5, <1>6, <1>7, <1>8, CalmSteps DEF CalmStep

(* The invariant holds to begin with. *)
LEMMA InitQuietInv == Init => QuietInv
<1> SUFFICES ASSUME Init PROVE QuietInv
  OBVIOUS
<1>1. TypeInv
  BY InitTypeInv
<1>2. run.pc = "idle" /\ run.type = "NFDeployment" /\ run.apps = {}
  BY IdleType DEF Init
<1>3. CloneInv /\ OneCUInv /\ WakeInv /\ BranchInv
  BY <1>2, IdleType DEF Init, CloneInv, OneCUInv, WakeInv, BranchInv
<1>4. ClientInv /\ WorkloadInv
  BY <1>2 DEF Init, ClientInv, WorkloadInv
<1>5. Undisturbed => \A f \in Files : head[f].ips \in Assignments /\ ~ head[f].canonical
  BY DEF Init, Undisturbed, WrittenByHand
<1>6. FilesInv
  BY <1>2, <1>5 DEF FilesInv, Publishing, AfterPush
<1>7. IdleInv
  BY SentinelAssumption DEF Init, IdleInv
<1>8. MovedInv
  <2> SUFFICES ASSUME Undisturbed, NEW t \in Entries, IsTargetEntry(t)
               PROVE  ~ head[<<t, "NFDeployment">>].canonical
    BY DEF MovedInv
  <2>1. <<t, "NFDeployment">> \in Files
    BY CurrentManifests, EntryTypes DEF Entries
  <2> QED
    BY <1>5, <2>1
<1>9. DependentsInv
  BY DEF Init, DependentsInv, IsDependent, Workload, Kinds
<1> QED
  BY <1>1, <1>3, <1>4, <1>6, <1>7, <1>8, <1>9 DEF QuietInv

(* All of them together. *)
LEMMA QuietInvariance == Spec => []QuietInv
<1>1. QuietInv /\ [Next]_vars => QuietInv'
  <2>1. QuietInv /\ [Next]_vars => TypeInv' /\ CloneInv' /\ OneCUInv' /\ WakeInv'
    BY NextTypeInv, NextCloneInv, NextOneCUInv, NextWakeInv DEF QuietInv
  <2> QED
    BY <2>1, NextClientInv, NextBranchInv, NextFilesInv, NextIdleInv, NextMovedInv,
       NextDependentsInv, NextWorkloadInv DEF QuietInv
<1> QED
  BY InitQuietInv, <1>1, PTL DEF Spec

(* The controller never comes to rest halfway, in any execution in which no *)
(* call failed and nobody else committed, whatever the edits.               *)
THEOREM NothingLeftUndone == Spec => []SettledWhenQuiet
BY QuietInvariance, QuietIsSettled, PTL

(* What a run deleted is running again or about to be when the run is over, *)
(* if the manifests were written by hand: then no empty commit comes        *)
(* between a deletion and the sync that undoes it.                          *)
THEOREM DeletedComesBack == Spec => []NoneLeftDeleted
<1>1. QuietInv => NoneLeftDeleted
  <2> SUFFICES ASSUME QuietInv, Undisturbed, run.pc = "idle",
                      NEW e \in Entries, IsDependent(e), "NFDeployment" \notin alive[e]
               PROVE  ClusterInfo[e].name \in ops
    BY DEF NoneLeftDeleted
  <2>1. run = Idle
    BY DEF QuietInv, TypeInv, RunInv
  <2> QED
    BY <2>1, IdleType DEF QuietInv, DependentsInv
<1> QED
  BY <1>1, QuietInvariance, PTL
=============================================================================
