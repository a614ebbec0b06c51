------------------------ MODULE NFReconfigController ------------------------
(***************************************************************************)
(* The NFReconfig controller: one Reconcile worker that moves a CU to      *)
(* another cluster and points the DU and CU-UP at its new addresses.       *)
(*                                                                         *)
(* A Reconcile is a sequence of calls to four other systems: the           *)
(* management API server (the NFReconfig object, the credentials), Gitea   *)
(* (one repository per cluster), the workload clusters (the running NFs)   *)
(* and Argo CD.  Every call is one action here, so that users, other       *)
(* committers, Argo CD and restarts of the controller may act between any  *)
(* two of them, and every call may fail.                                   *)
(*                                                                         *)
(* Abstractions.  One NFReconfig object.  Its interfaces (addresses,       *)
(* gateways, host interfaces) are one value, an assignment; editing the    *)
(* object changes the assignment, its clusterInfo stays ClusterInfo.  A    *)
(* manifest file is the assignment it carries and whether it is in the     *)
(* form yaml.Marshal writes.  A repository's branch is its files and a     *)
(* revision number that stands for the commit hash.                        *)
(***************************************************************************)
EXTENDS Integers, Sequences, FiniteSets

CONSTANTS
  ClusterInfo,     \* spec.clusterInfo: a sequence of EntryRecord
  ClusterNames,    \* cluster names; each cluster's repository has its name
  Assignments,     \* interface assignments a user may ask for
  NoIPv4,          \* an assignment in which some interface has no ipv4
  Deleted,         \* the NFReconfig object does not exist
  Absent,          \* content of a manifest that is not in its repository
  Broken,          \* content of a file in which there is nothing to rewrite
  None,            \* no value
  InitialContents, \* contents the manifests may have to begin with
  MaxEdits,        \* bound on the user's edits of the object
  MaxForeign,      \* bound on the commits of other committers
  MaxFaults        \* bound on failed calls, lost answers and restarts

(***************************************************************************)
(* An element of spec.clusterInfo.  nfDeployment and configRef say whether *)
(* the element has that (optional) key; target is the name in its optional *)
(* targetCluster, None without one.                                        *)
(***************************************************************************)
EntryRecord == [name: ClusterNames, repo: ClusterNames,
                target: ClusterNames \union {None},
                nfDeployment: BOOLEAN, configRef: BOOLEAN]

Entries == 1 .. Len(ClusterInfo)

ManifestTypes == {"NFDeployment", "ConfigRef"}

(* The files a Reconcile may rewrite: the manifest an element names by its  *)
(* nfDeployment or configRef, and the NADs beside an NFDeployment.          *)
Files == {f \in Entries \X (ManifestTypes \union {"NAD"}) :
            IF f[2] = "ConfigRef" THEN ClusterInfo[f[1]].configRef
                                  ELSE ClusterInfo[f[1]].nfDeployment}

Manifests == {f \in Files : f[2] # "NAD"}

RepoOf(f) == ClusterInfo[f[1]].repo

Contents == [ips: Assignments \union {Absent, Broken}, canonical: BOOLEAN]

ASSUME ClusterInfoAssumption == ClusterInfo \in Seq(EntryRecord)
ASSUME BoundsAssumption ==
  /\ MaxEdits \in Nat
  /\ MaxForeign \in Nat
  /\ MaxFaults \in Nat
ASSUME ContentsAssumption == InitialContents \subseteq Contents
ASSUME SentinelAssumption ==
  /\ Cardinality({NoIPv4, Deleted, Absent, Broken, None}) = 5
  /\ {NoIPv4, Deleted, Absent, Broken, None} \intersect Assignments = {}
  /\ None \notin ClusterNames

(* The last element with an nfDeployment is the CU to move; 0 if none has. *)
IsTargetEntry(e) ==
  /\ \A j \in Entries : ClusterInfo[j].nfDeployment => j <= e
  /\ e # 0 => e \in Entries /\ ClusterInfo[e].nfDeployment

(* The elements with a configRef are the DUs and CU-UPs to point at it. *)
IsDependent(e) == ClusterInfo[e].configRef

-----------------------------------------------------------------------------
VARIABLES
  nfr,        \* the object in the API server: an assignment, NoIPv4 or Deleted
  cached,     \* the same object in the manager's informer cache
  queued,     \* the object's key is in the workqueue
  edits,      \* number of edits so far
  client,     \* the process's Gitea client: the singleInstance of GetClient
  head,       \* content of every file on the main branch of its repository
  rev,        \* revision of every repository's main branch
  foreign,    \* number of commits by others so far
  alive,      \* what exists of every entry in its workload cluster
  appFiles,   \* Argo CD Application manifests pushed for the target cluster
  ops,        \* clusters whose Argo CD Application has an operation to run
  migrated,   \* the CU runs in the target cluster
  run,        \* the Reconcile call in progress
  told,       \* history: assignments the controller pushed, per manifest
  pushes,     \* history: commits the controller pushed, per manifest
  teardowns,  \* history: deletions the controller began, per manifest
  faults      \* number of faults so far

apiVars     == <<nfr, cached, edits>>
gitVars     == <<head, rev, foreign>>
clusterVars == <<alive, appFiles, ops, migrated>>
historyVars == <<told, pushes, teardowns>>

vars == <<nfr, cached, queued, edits, client, head, rev, foreign, alive,
          appFiles, ops, migrated, run, told, pushes, teardowns, faults>>

Specs == Assignments \union {NoIPv4}

Kinds == {"Config", "NFDeployment", "Pods"}

(* What Argo CD and the operators create for an entry in its cluster. *)
Workload(e) ==
  IF ClusterInfo[e].configRef THEN Kinds
  ELSE IF ClusterInfo[e].nfDeployment THEN {"NFDeployment", "Pods"} ELSE {}

(***************************************************************************)
(* The local variables of a Reconcile call: where it is, the manifest type *)
(* and clusterInfo element it works on, the assignment it read, its clone  *)
(* (files, revision, whether the worktree differs from the clone), the     *)
(* uniqueApps to sync and the one that was synced once.                    *)
(***************************************************************************)
Locations == {"idle", "initClient", "userInfo", "clone", "update", "push",
              "getClient", "deleteConfig", "deleteConfigPods", "deleteNF",
              "deletePods", "createApp", "getTargetClient", "syncTarget",
              "next", "sync"}

(* The calls made after a manifest was pushed, up to the next manifest. *)
AfterPush == {"getClient", "deleteConfig", "deleteConfigPods", "deleteNF",
              "deletePods", "createApp", "getTargetClient", "syncTarget"}

Runs == [pc: Locations, type: ManifestTypes, entry: Nat,
         ips: Specs \union {None},
         tree: [Files -> Contents], base: Nat, dirty: BOOLEAN,
         apps: SUBSET ClusterNames, app: ClusterNames \union {None}]

EmptyTree == [f \in Files |-> [ips |-> Absent, canonical |-> FALSE]]

Idle == [pc |-> "idle", type |-> "NFDeployment", entry |-> 0, ips |-> None,
         tree |-> EmptyTree, base |-> 0, dirty |-> FALSE,
         apps |-> {}, app |-> None]

(* targetCluster.Name of the element the run works on. *)
TargetCluster == ClusterInfo[run.entry].target

(* The manifest the run works on. *)
Current == <<run.entry, run.type>>

CurrentRepo == ClusterInfo[run.entry].repo

Init ==
  /\ nfr = Deleted
  /\ cached = Deleted
  /\ queued = FALSE
  /\ edits = 0
  /\ client = "nil"
  /\ head \in [Files -> InitialContents]
  /\ rev = [r \in ClusterNames |-> 0]
  /\ foreign = 0
  /\ alive = [e \in Entries |-> Workload(e)]
  /\ appFiles = 0
  /\ ops = {}
  /\ migrated = FALSE
  /\ run = Idle
  /\ told = [m \in Manifests |-> {}]
  /\ pushes = [m \in Manifests |-> 0]
  /\ teardowns = [m \in Manifests |-> 0]
  /\ faults = 0

-----------------------------------------------------------------------------
(***************************************************************************)
(* How a step ends.                                                        *)
(***************************************************************************)
Goto(l) ==
  /\ run' = [run EXCEPT !.pc = l]
  /\ UNCHANGED queued

(* Mutant: the workqueue forgets what was added while the run lasted. *)
Return_ForgetsKey(requeue) ==
  /\ run' = Idle
  /\ queued' = requeue

(* Reconcile returns and the workqueue is told: Result{} and a nil error    *)
(* forget the key, an error or a recovered panic puts it back.  A key added *)
(* while the run was in progress stays.                                     *)
Return(requeue) ==
  /\ run' = Idle
  /\ queued' = (queued \/ requeue)

(* How HandleDependentClusterPkgNF is entered. *)
HandleDependentClusterPkgNF ==
  /\ run' = [run EXCEPT !.pc = "userInfo", !.type = "ConfigRef", !.entry = 0]
  /\ UNCHANGED queued

NoFault == UNCHANGED faults

Fault ==
  /\ faults < MaxFaults
  /\ faults' = faults + 1

-----------------------------------------------------------------------------
(* The worker takes the key and reads the object.  Only an error of Get     *)
(* other than NotFound is returned.                                         *)
Reconcile ==
  /\ run.pc = "idle"
  /\ queued
  /\ \/ /\ cached # Deleted
        /\ run' = [Idle EXCEPT !.pc = "initClient", !.ips = cached]
        /\ queued' = FALSE
        /\ NoFault
     \/ /\ cached = Deleted
        /\ queued' = FALSE
        /\ UNCHANGED run
        /\ NoFault
     \/ /\ Fault
        /\ UNCHANGED <<run, queued>>
  /\ UNCHANGED <<apiVars, client, gitVars, clusterVars, historyVars>>

(* What InitializeGiteaClient and its caller make of a client whose Start    *)
(* failed: (nil, nil, nil), a method call on the nil interface, a panic.     *)
UninitializedClient == Return(TRUE)

(* GetClient makes the client on the first call and keeps it for the life   *)
(* of the process, whether Start succeeded or not.  GetMyUserInfo then      *)
(* tests a client that was started.  The target is the entry to work on.    *)
InitializeGiteaClient ==
  /\ run.pc = "initClient"
  /\ \/ /\ client \in {"nil", "valid"}
        /\ client' = "valid"
        /\ \/ /\ \E e \in 0 .. Len(ClusterInfo) :
                   /\ IsTargetEntry(e)
                   /\ run' = [run EXCEPT !.pc = "userInfo", !.entry = e]
              /\ UNCHANGED queued
              /\ NoFault
           \/ /\ Return(FALSE)
              /\ Fault
     \/ /\ client = "nil"
        /\ client' = "uninitialized"
        /\ UninitializedClient
        /\ Fault
     \/ /\ client = "uninitialized"
        /\ UninitializedClient
        /\ UNCHANGED client
        /\ NoFault
     \/ /\ client = "revoked"
        /\ Return(FALSE)
        /\ UNCHANGED client
        /\ NoFault
  /\ UNCHANGED <<apiVars, gitVars, clusterVars, historyVars>>

(* HandleTargetClusterPkgNF and HandleDependentClusterPkgNF begin with this. *)
GetMyUserInfo ==
  /\ run.pc = "userInfo"
  /\ \/ /\ client = "valid"
        /\ Goto(IF run.type = "NFDeployment" THEN "clone" ELSE "next")
        /\ NoFault
     \/ /\ client = "revoked"
        /\ Return(FALSE)
        /\ NoFault
     \/ /\ Return(FALSE)
        /\ Fault
  /\ UNCHANGED <<apiVars, client, gitVars, clusterVars, historyVars>>

(* Mutant: the dependents are handled although the CU has no manifest. *)
NoMatch_GoesOn ==
  IF run.type = "NFDeployment" THEN HandleDependentClusterPkgNF ELSE Goto("next")

(* Without a match the target's handler returns nil and the dependents are  *)
(* not handled; the dependents' loop goes on.                               *)
NoMatch == IF run.type = "NFDeployment" THEN Return(FALSE) ELSE Goto("next")

(* A shallow clone of branch main and the search for the manifest in it.    *)
(* A target entry that does not exist has no repository to clone.           *)
CheckRepoForMatchingManifests ==
  /\ run.pc = "clone"
  /\ \/ /\ run.entry # 0
        /\ head[Current].ips # Absent
        /\ run' = [run EXCEPT
             !.pc = "update",
             !.tree = [f \in Files |->
                         IF RepoOf(f) = CurrentRepo THEN head[f]
                                                    ELSE EmptyTree[f]],
             !.base = rev[CurrentRepo]]
        /\ UNCHANGED queued
        /\ NoFault
     \/ /\ run.entry # 0
        /\ head[Current].ips = Absent
        /\ NoMatch
        /\ NoFault
     \/ /\ Return(FALSE)
        /\ IF run.entry = 0 THEN NoFault ELSE Fault
  /\ UNCHANGED <<apiVars, client, gitVars, clusterVars, historyVars>>

(* The files the run rewrites in its clone: the manifest, and for the CU    *)
(* the NADs as well.                                                        *)
OwnFiles(e, type) ==
  {<<e, type>>} \union (IF type = "NFDeployment" THEN {<<e, "NAD">>} ELSE {})

(* A NAD that cannot be rewritten is logged and left as it is.              *)
Rewrite(content, ips) ==
  IF content.ips \in {Absent, Broken}
  THEN content
  ELSE [ips |-> ips, canonical |-> TRUE]

(* FindMatchingNADs, the map of new addresses, and the rewriting of the     *)
(* matching manifests, all in the clone.  The map is built by dereferencing *)
(* every interface's optional ipv4: without it, a panic.                    *)
UpdateManifests ==
  /\ run.pc = "update"
  /\ \/ /\ run.ips # NoIPv4
        /\ LET own  == OwnFiles(run.entry, run.type)
               tree == [f \in Files |-> IF f \in own
                                         THEN Rewrite(run.tree[f], run.ips)
                                         ELSE run.tree[f]]
           IN run' = [run EXCEPT !.pc = "push", !.tree = tree,
                                 !.dirty = (tree # run.tree)]
        /\ UNCHANGED queued
        /\ NoFault
     \/ /\ run.ips = NoIPv4
        /\ Return(TRUE)
        /\ NoFault
     \/ /\ Return(FALSE)
        /\ Fault
  /\ UNCHANGED <<apiVars, client, gitVars, clusterVars, historyVars>>

(* Mutant: AllowEmptyCommits. *)
CommitAccepted_Empty == TRUE

(* Commit refuses a clean worktree (ErrEmptyCommit). *)
CommitAccepted == run.dirty

(* Mutant: a forced push, which replaces whatever the branch holds. *)
PushAccepted_Forced == TRUE

(* The refspec has no "+": the branch must still be where it was cloned. *)
PushAccepted == rev[CurrentRepo] = run.base

(* Mutant: the error of CommitAndPush is only logged. *)
PushFailed_Logged == Goto("getClient")

(* Both handlers return the error of CommitAndPush, Reconcile drops it. *)
PushFailed == Return(FALSE)

(* A push that arrives whose answer is lost is an error like any other.     *)
CommitAndPush ==
  /\ run.pc = "push"
  /\ \/ /\ CommitAccepted
        /\ PushAccepted
        /\ head' = [f \in Files |-> IF RepoOf(f) = CurrentRepo
                                      THEN run.tree[f] ELSE head[f]]
        /\ rev' = [rev EXCEPT ![CurrentRepo] = @ + 1]
        /\ told' = [told EXCEPT ![Current] = @ \union {run.ips}]
        /\ pushes' = [pushes EXCEPT ![Current] = @ + 1]
        /\ UNCHANGED <<foreign, teardowns>>
        /\ \/ /\ Goto("getClient")
              /\ NoFault
           \/ /\ PushFailed
              /\ Fault
     \/ /\ ~ (CommitAccepted /\ PushAccepted)
        /\ PushFailed
        /\ UNCHANGED <<gitVars, historyVars>>
        /\ NoFault
     \/ /\ PushFailed
        /\ UNCHANGED <<gitVars, historyVars>>
        /\ Fault
  /\ UNCHANGED <<apiVars, client, clusterVars>>

-----------------------------------------------------------------------------
(***************************************************************************)
(* The workload clusters.                                                  *)
(***************************************************************************)

(* Mutant: the CU is not deleted before its Application is created. *)
FirstDeletion_None == IF run.type = "ConfigRef" THEN "deleteConfig" ELSE "createApp"

FirstDeletion == IF run.type = "ConfigRef" THEN "deleteConfig" ELSE "deleteNF"

(* Mutant: an element without a targetCluster has nothing to sync. *)
NoTargetClient_GoesOn == HandleDependentClusterPkgNF

(* The client of the empty name: GetCapiClusterFromName makes it a nil Capi *)
(* and no error, and a method call on that panics.                          *)
NoTargetClient == Return(TRUE)

(* No Cluster of that name, no kubeconfig secret, a cluster that is not     *)
(* Ready: each leaves a nil client (or a nil Capi), and the next call on it *)
(* panics.                                                                  *)
GetWorkloadClusterClient ==
  /\ \/ /\ run.pc = "getClient"
        /\ \/ /\ Goto(FirstDeletion)
              /\ NoFault
           \/ /\ Return(TRUE)
              /\ Fault
     \/ /\ run.pc = "getTargetClient"
        /\ \/ /\ TargetCluster # None
              /\ Goto("syncTarget")
              /\ NoFault
           \/ /\ TargetCluster = None
              /\ NoTargetClient
              /\ NoFault
           \/ /\ Return(TRUE)
              /\ Fault
  /\ UNCHANGED <<apiVars, client, gitVars, clusterVars, historyVars>>

Without(kind) == [alive EXCEPT ![run.entry] = @ \ {kind}]

(* A deletion that fails may still have taken place. *)
LostDelete(kind) ==
  /\ Fault
  /\ alive' \in {alive, Without(kind)}

(* Mutant: uniqueApps holds places in clusterInfo, not names of clusters. *)
AfterTeardown_Entry ==
  /\ IF run.type = "ConfigRef"
     THEN run' = [run EXCEPT !.pc = "next", !.apps = @ \union {run.entry}]
     ELSE run' = [run EXCEPT !.pc = "createApp"]
  /\ UNCHANGED queued

(* Mutant: the dependent's cluster is not entered in uniqueApps. *)
AfterTeardown_NoApp ==
  /\ run' = [run EXCEPT !.pc = IF run.type = "ConfigRef" THEN "next" ELSE "createApp"]
  /\ UNCHANGED queued

(* What follows the deletions, whether they succeeded or not: their error   *)
(* is only logged.                                                          *)
AfterTeardown ==
  /\ IF run.type = "ConfigRef"
     THEN run' = [run EXCEPT !.pc = "next",
                    !.apps = @ \union {ClusterInfo[run.entry].name}]
     ELSE run' = [run EXCEPT !.pc = "createApp"]
  /\ UNCHANGED queued

CountTeardown == teardowns' = [teardowns EXCEPT ![Current] = @ + 1]

(* DeleteConfigRefs deletes the Config; one that is gone already is fine. *)
DeleteConfig ==
  /\ run.pc = "deleteConfig"
  /\ \/ /\ alive' = Without("Config")
        /\ Goto("deleteConfigPods")
        /\ NoFault
     \/ /\ LostDelete("Config")
        /\ AfterTeardown
  /\ CountTeardown
  /\ UNCHANGED <<apiVars, client, gitVars, appFiles, ops, migrated, told, pushes>>

DeleteConfigPods ==
  /\ run.pc = "deleteConfigPods"
  /\ \/ /\ alive' = Without("Pods")
        /\ Goto("deleteNF")
        /\ NoFault
     \/ /\ LostDelete("Pods")
        /\ AfterTeardown
  /\ UNCHANGED <<apiVars, client, gitVars, appFiles, ops, migrated, historyVars>>

(* DeleteNFDeployment; an NFDeployment that is gone is an error, and then   *)
(* its pods are not deleted.                                                *)
DeleteNFDeployment ==
  /\ run.pc = "deleteNF"
  /\ \/ /\ "NFDeployment" \in alive[run.entry]
        /\ alive' = Without("NFDeployment")
        /\ Goto("deletePods")
        /\ NoFault
     \/ /\ "NFDeployment" \notin alive[run.entry]
        /\ UNCHANGED alive
        /\ AfterTeardown
        /\ NoFault
     \/ /\ LostDelete("NFDeployment")
        /\ AfterTeardown
  /\ IF run.type = "NFDeployment" THEN CountTeardown ELSE UNCHANGED teardowns
  /\ UNCHANGED <<apiVars, client, gitVars, appFiles, ops, migrated, told, pushes>>

DeletePods ==
  /\ run.pc = "deletePods"
  /\ \/ /\ alive' = Without("Pods")
        /\ NoFault
     \/ LostDelete("Pods")
  /\ AfterTeardown
  /\ UNCHANGED <<apiVars, client, gitVars, appFiles, ops, migrated, historyVars>>

-----------------------------------------------------------------------------
(***************************************************************************)
(* Argo CD.                                                                *)
(***************************************************************************)
(* One more Application manifest, committed on the server to the repository *)
(* named after the target cluster, by the process's Gitea client (the push  *)
(* used the credentials as they are now).  A request without the name of a  *)
(* repository is refused.  An error is logged.                              *)
CreateAndPushArgoApp ==
  /\ run.pc = "createApp"
  /\ \/ /\ client = "valid"
        /\ TargetCluster # None
        /\ appFiles' = appFiles + 1
        /\ rev' = [rev EXCEPT ![TargetCluster] = @ + 1]
        /\ NoFault \/ Fault
     \/ /\ client = "revoked" \/ TargetCluster = None
        /\ UNCHANGED <<appFiles, rev>>
        /\ NoFault
     \/ /\ UNCHANGED <<appFiles, rev>>
        /\ Fault
  /\ Goto("getTargetClient")
  /\ UNCHANGED <<apiVars, client, head, foreign, alive, ops, migrated, historyVars>>

(* Sets the Operation of the Application named after cluster c.  An error   *)
(* is logged.                                                               *)
TriggerArgoCDSync(c) ==
  \/ /\ ops' = ops \union {c}
     /\ NoFault
  \/ /\ ops' \in {ops, ops \union {c}}
     /\ Fault

SyncTarget ==
  /\ run.pc = "syncTarget"
  /\ TriggerArgoCDSync(TargetCluster)
  /\ HandleDependentClusterPkgNF
  /\ UNCHANGED <<apiVars, client, gitVars, alive, appFiles, migrated, historyVars>>

(* The loop over clusterInfo goes to the next element with a configRef.     *)
NextDependent ==
  LET later == {e \in Entries : e > run.entry /\ IsDependent(e)} IN
  /\ run.pc = "next"
  /\ \/ \E e \in later :
          /\ \A other \in later : e <= other
          /\ run' = [run EXCEPT !.pc = "clone", !.entry = e]
     \/ /\ later = {}
        /\ run' = [run EXCEPT !.pc = "sync"]
  /\ UNCHANGED <<apiVars, queued, client, gitVars, clusterVars, historyVars, faults>>

(* Every app of uniqueApps is synced twice, in the order of a Go map.       *)
SyncDependent(c) ==
  /\ run.pc = "sync"
  /\ c \in run.apps
  /\ run.app \in {None, c}
  /\ TriggerArgoCDSync(c)
  /\ run' = IF run.app = None
            THEN [run EXCEPT !.app = c]
            ELSE [run EXCEPT !.app = None, !.apps = @ \ {c}]
  /\ UNCHANGED <<apiVars, queued, client, gitVars, alive, appFiles, migrated,
                 historyVars>>

ReconcileDone ==
  /\ run.pc = "sync"
  /\ run.apps = {}
  /\ Return(FALSE)
  /\ UNCHANGED <<apiVars, client, gitVars, clusterVars, historyVars, faults>>

Worker ==
  \/ Reconcile
  \/ InitializeGiteaClient
  \/ GetMyUserInfo
  \/ CheckRepoForMatchingManifests
  \/ UpdateManifests
  \/ CommitAndPush
  \/ GetWorkloadClusterClient
  \/ DeleteConfig
  \/ DeleteConfigPods
  \/ DeleteNFDeployment
  \/ DeletePods
  \/ CreateAndPushArgoApp
  \/ SyncTarget
  \/ NextDependent
  \/ \E c \in ClusterNames : SyncDependent(c)
  \/ ReconcileDone

-----------------------------------------------------------------------------
(***************************************************************************)
(* Everyone else.                                                          *)
(***************************************************************************)

(* A user creates, edits or deletes the object. *)
EditNFReconfig ==
  /\ edits < MaxEdits
  /\ edits' = edits + 1
  /\ nfr' \in (Specs \union {Deleted}) \ {nfr}
  /\ UNCHANGED <<cached, queued, client, gitVars, clusterVars, run, historyVars,
                 faults>>

(* The watch of For(&NFReconfig{}): the cache is updated, the key enqueued. *)
DeliverEvent ==
  /\ cached # nfr
  /\ cached' = nfr
  /\ queued' = TRUE
  /\ UNCHANGED <<nfr, edits, client, gitVars, clusterVars, run, historyVars,
                 faults>>

(* An event that leaves the spec alone: a periodic resync, a label or the   *)
(* status changed.  There is no predicate, so it enqueues the key as well.  *)
Resync ==
  /\ cached # Deleted
  /\ ~ queued
  /\ queued' = TRUE
  /\ UNCHANGED <<apiVars, client, gitVars, clusterVars, run, historyVars, faults>>

(* Another committer changes a file the controller also changes. *)
ForeignCommit ==
  /\ foreign < MaxForeign
  /\ foreign' = foreign + 1
  /\ \E f \in Files, v \in Assignments :
       /\ head[f].ips \notin {Absent, Broken}
       /\ head' = [head EXCEPT ![f] = [ips |-> v, canonical |-> FALSE]]
       /\ rev' = [rev EXCEPT ![RepoOf(f)] = @ + 1]
  /\ UNCHANGED <<apiVars, queued, client, clusterVars, run, historyVars, faults>>

(* The credentials are changed in Gitea and in the secret: a client made    *)
(* before no longer authenticates.                                          *)
RotateCredentials ==
  /\ client = "valid"
  /\ client' = "revoked"
  /\ Fault
  /\ UNCHANGED <<apiVars, queued, gitVars, clusterVars, run, historyVars>>

(* The manager's process ends, at any point, and a new one lists the        *)
(* objects and enqueues each.                                               *)
Restart ==
  /\ Fault
  /\ cached' = nfr
  /\ queued' = (nfr # Deleted)
  /\ client' = "nil"
  /\ run' = Idle
  /\ UNCHANGED <<nfr, edits, gitVars, clusterVars, historyVars>>

(* Argo CD runs the operation of a cluster's Application: it creates what   *)
(* the repository declares; in the target cluster that is the Application   *)
(* of the CU, and with it the CU.                                           *)
ArgoSync(c) ==
  /\ c \in ops
  /\ ops' = ops \ {c}
  /\ alive' = [e \in Entries |->
                 IF ClusterInfo[e].name = c
                 THEN alive[e] \union (Workload(e) \ {"Pods"}) ELSE alive[e]]
  /\ migrated' = (migrated \/
                    /\ appFiles > 0
                    /\ \E e \in Entries : /\ IsTargetEntry(e)
                                          /\ ClusterInfo[e].target = c)
  /\ UNCHANGED <<apiVars, queued, client, gitVars, appFiles, run, historyVars,
                 faults>>

(* The operator of a cluster starts the pods of an NFDeployment. *)
StartPods(e) ==
  /\ "NFDeployment" \in alive[e]
  /\ "Pods" \notin alive[e]
  /\ alive' = [alive EXCEPT ![e] = @ \union {"Pods"}]
  /\ UNCHANGED <<apiVars, queued, client, gitVars, appFiles, ops, migrated, run,
                 historyVars, faults>>

Environment ==
  \/ EditNFReconfig
  \/ DeliverEvent
  \/ Resync
  \/ ForeignCommit
  \/ RotateCredentials
  \/ Restart
  \/ \E c \in ClusterNames : ArgoSync(c)
  \/ \E e \in Entries : StartPods(e)

Next == Worker \/ Environment

(* The worker goes on as long as it has something to do, the watch delivers *)
(* what happened, Argo CD runs its operations and the operators start pods. *)
(* Users, committers, rotations and restarts owe nothing.                   *)
Fairness ==
  /\ WF_vars(Worker)
  /\ WF_vars(DeliverEvent)
  /\ \A c \in ClusterNames : WF_vars(ArgoSync(c))
  /\ \A e \in Entries : WF_vars(StartPods(e))

Spec == Init /\ [][Next]_vars

PromptSpec == Spec /\ Fairness

(* main.go leaves the cache's SyncPeriod at its default: every object is    *)
(* enqueued again, for ever, if only every ten hours.                       *)
FairSpec == PromptSpec /\ WF_vars(Resync)

-----------------------------------------------------------------------------
TypeOK ==
  /\ nfr \in Specs \union {Deleted}
  /\ cached \in Specs \union {Deleted}
  /\ queued \in BOOLEAN
  /\ edits \in Nat
  /\ client \in {"nil", "uninitialized", "valid", "revoked"}
  /\ head \in [Files -> Contents]
  /\ rev \in [ClusterNames -> Nat]
  /\ foreign \in Nat
  /\ alive \in [Entries -> SUBSET Kinds]
  /\ appFiles \in Nat
  /\ ops \in SUBSET ClusterNames
  /\ migrated \in BOOLEAN
  /\ run \in Runs
  /\ told \in [Manifests -> SUBSET Assignments]
  /\ pushes \in [Manifests -> Nat]
  /\ teardowns \in [Manifests -> Nat]
  /\ faults \in Nat

(***************************************************************************)
(* What must never happen.                                                 *)
(***************************************************************************)

(* A request is carried out once: however often the key is delivered again  *)
(* (resyncs, panics, restarts, cancelled edits), a manifest receives at     *)
(* most one commit for every edit of the object or foreign change there     *)
(* was.  Reconcile keeps no record of what it did; the refusal of an empty  *)
(* commit is all that stops it.                                             *)
NoRepeatedCommits ==
  \A m \in Manifests : pushes[m] <= edits + foreign

(* A running network function is torn down at most once for every commit    *)
(* the controller pushed to its manifest: no redelivered key, and no retry  *)
(* of a run that failed, deletes it a second time.                          *)
OneTeardownPerPush ==
  \A m \in Manifests : teardowns[m] <= pushes[m]

(* A DU or CU-UP is only ever given addresses that the CU's manifest was    *)
(* given first, whatever failed and was retried in between.                 *)
DependentsFollowTarget ==
  \A d \in Manifests : d[2] = "ConfigRef" =>
    \A v \in told[d] : \E t \in Manifests :
      /\ t[2] = "NFDeployment"
      /\ v \in told[t]

(* No DU or CU-UP is pointed at a CU that was not sent anywhere: by the     *)
(* time one is told, there is a target cluster, and without faults the CU's *)
(* Application is in its repository, synced or with a sync to come.         *)
DependentsFollowMove ==
  \A d \in Manifests : d[2] = "ConfigRef" /\ told[d] # {} =>
    \E t \in Entries :
      /\ IsTargetEntry(t)
      /\ ClusterInfo[t].target # None
      /\ faults = 0 => appFiles > 0 /\ (migrated \/ ClusterInfo[t].target \in ops)

(* A push changes nothing but the manifest (and NADs) of the element the    *)
(* run is at: what another committer, or the user's other network function  *)
(* in the same repository, wrote after the clone is never overwritten with  *)
(* the content it had in the clone.                                         *)
PushPreservesForeignWork ==
  [][foreign' = foreign =>
       \A f \in Files : head'[f] # head[f] =>
         /\ f \in OwnFiles(run.entry, run.type)
         /\ head'[f].ips = run.ips]_vars

(* Nothing of a network function is deleted before its repository has been  *)
(* given the assignment the run works for, and a run deletes only what      *)
(* belongs to the element it is at.                                         *)
TeardownOnlyAfterPublish ==
  [][\A e \in Entries : ~ (alive[e] \subseteq alive'[e]) =>
       /\ e = run.entry
       /\ run.ips \in told[Current]]_vars

(* The CU moves to another cluster, and no DU or CU-UP lives in the one it  *)
(* leaves, where its sync would bring the CU back.                          *)
SeparateTarget(e) ==
  /\ IsTargetEntry(e)
  /\ ClusterInfo[e].target \notin {None, ClusterInfo[e].name}
  /\ \A d \in Entries : IsDependent(d) => ClusterInfo[d].name # ClusterInfo[e].name

(* Without faults there are never two CUs with the same addresses: the CU   *)
(* starts in the target cluster only after it is gone from its own.         *)
AtMostOneCU ==
  \A e \in Entries :
    SeparateTarget(e) /\ faults = 0 => ~ (migrated /\ "NFDeployment" \in alive[e])

(***************************************************************************)
(* What must happen.                                                       *)
(***************************************************************************)

(* No edit is lost between the watch, the cache, the workqueue and a run in *)
(* progress: an assignment the user leaves in place, of which the cache or  *)
(* the queue has yet to hear, is worked on by a Reconcile, even though      *)
(* calls fail and the controller restarts, and without waiting for the next *)
(* periodic resync.                                                         *)
EditsObserved ==
  \A v \in Specs :
    (nfr = v /\ (cached # v \/ queued)) ~> (run.ips = v \/ nfr # v)

(* A run ends with its key forgotten only if it worked on what the cache    *)
(* holds by then: an event that came in the middle of it is never taken for *)
(* one that the run has answered.                                           *)
NoWakeupLost ==
  [][run.pc # "idle" /\ run'.pc = "idle" =>
       queued' \/ run.ips = cached' \/ cached' = Deleted]_vars

(* The reconfiguration the object asks for is in place: the manifests carry *)
(* its addresses, the CU has moved and the DUs and CU-UPs run again.        *)
Settled ==
  /\ \A m \in Manifests : head[m].ips = nfr
  /\ migrated
  /\ \A e \in Entries : IF IsDependent(e)
                        THEN alive[e] = Workload(e)
                        ELSE "NFDeployment" \notin alive[e]

(* Reconcile is to "move the current state of the cluster closer to the     *)
(* desired state": an assignment the user leaves in place is put in place.  *)
Convergence ==
  \A v \in Assignments : <>[](nfr = v) => <>[]Settled

(* Undisturbed, it is: however often the user changes, withdraws or removes *)
(* the object, even in the middle of a run, as long as no call fails and    *)
(* nobody else commits.                                                     *)
UndisturbedConvergence ==
  [](faults = 0 /\ foreign = 0) => Convergence

(***************************************************************************)
(* What is true of UndisturbedConvergence whatever is fair: once nothing   *)
(* is left to do, everything is done, and it stays so.                     *)
(***************************************************************************)

(* The assignment v would change a file of manifest m. *)
Stale(m, v) ==
  /\ v \in Assignments
  /\ \E f \in OwnFiles(m[1], m[2]) : Rewrite(head[f], v) # head[f]

(* The assignment being worked on, or the one that will be next. *)
Working == IF run.pc = "idle" THEN cached ELSE run.ips

(* The run has pushed the CU's manifest and not yet come to its end. *)
Publishing == run.type = "ConfigRef" \/ run.pc \in AfterPush

(* What was asked for is done, and a run in progress has found nothing      *)
(* else to do.                                                              *)
InPlace ==
  /\ nfr \in Assignments
  /\ cached = nfr
  /\ Working = nfr
  /\ ~ Publishing
  /\ \A m \in Manifests : ~ Stale(m, nfr)
  /\ Settled

(* There is one CU to move, and nothing else in the cluster it leaves.      *)
OneCUToMove ==
  \E t \in Entries :
    /\ SeparateTarget(t)
    /\ \A e \in Entries : ClusterInfo[e].nfDeployment => e = t

(* The manifests there are to begin with were written by a person.          *)
WrittenByHand ==
  \A c \in InitialContents : c.ips \in Assignments /\ ~ c.canonical

(* No call failed so far, and nobody else committed. *)
Undisturbed ==
  OneCUToMove /\ WrittenByHand /\ faults = 0 /\ foreign = 0

(* Nothing is left to do, for the controller, Argo CD and the operators.    *)
Quiescent ==
  /\ run.pc = "idle"
  /\ ~ queued
  /\ cached = nfr
  /\ ops = {}
  /\ \A e \in Entries : "NFDeployment" \in alive[e] => "Pods" \in alive[e]

(* The controller never comes to rest halfway: if no call failed and nobody *)
(* else committed, then, when all is quiet, what the object asks for is in  *)
(* place, however the edits fell on the runs before.  Nothing but the end   *)
(* of the last run tells it so: there is no status, and no record of what   *)
(* an earlier run left undone.                                              *)
SettledWhenQuiet ==
  Undisturbed /\ Quiescent /\ nfr \in Assignments => InPlace

(* Undisturbed, a run leaves nobody deleted: a DU or CU-UP whose            *)
(* NFDeployment it took away is there again, or Argo CD has been told to    *)
(* create it, when the run is over.  A manifest that was in place already   *)
(* would end the run between the two.                                       *)
NoneLeftDeleted ==
  Undisturbed /\ run.pc = "idle" =>
    \A e \in Entries :
      IsDependent(e) /\ "NFDeployment" \notin alive[e] => ClusterInfo[e].name \in ops

(* What is in place stays in place, whatever else fails and however often   *)
(* the key is delivered again, by resyncs, events or a restarted manager,   *)
(* until the object is edited or somebody commits.                          *)
StaysInPlace ==
  [][OneCUToMove /\ InPlace /\ UNCHANGED <<nfr, foreign>> => InPlace']_vars

-----------------------------------------------------------------------------
(***************************************************************************)
(* The controller implements Reconfiguration.                              *)
(***************************************************************************)
Contract == INSTANCE Reconfiguration WITH
  CUs <- {m \in Manifests : m[2] = "NFDeployment"},
  Dependents <- {m \in Manifests : m[2] = "ConfigRef"},
  Values <- Assignments,
  requests <- edits + foreign,
  commits <- pushes

(* Every step of the controller and of everyone around it is a request, a   *)
(* commit that a request pays for, a teardown that a commit pays for, or    *)
(* none of the contract's business.                                         *)
HonoursContract == Contract!Spec
=============================================================================
