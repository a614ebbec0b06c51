# A TLA+ model of the CU/DU reconfiguration controller

The repository is a Kubernetes controller. A user writes an `NFReconfig` object:
the new addresses of a CU, the cluster it runs in and the one it is to move to,
and the DUs and CU-UPs that talk to it. The controller rewrites manifests in the
Git repositories of those clusters, deletes the running network functions, and
has Argo CD create them again from the repositories.

These modules model that program against its source, check it with TLC on small
instances and prove its safety properties with TLAPS for every instance.
`PROJECT.json` maps every definition to the lines it models.

## Inventory

### Components

| Component | Source | State it keeps | Operations |
|---|---|---|---|
| NFReconfig reconciler | `internal/controller/nfreconfig_controller.go` | none between runs; the local variables of a run | `Reconcile`, `HandleTargetClusterPkgNF`, `HandleDependentClusterPkgNF`, `InitializeGiteaClient`, `SetupWithManager` |
| Git and sync helpers | `reconcilers/helpers/gitea.go` | the clone of one run, on disk | clone and search, rewriting of NADs and manifests, `CommitAndPush`, `TriggerArgoCDSyncWithKubeClient` |
| Deletion helpers | `reconcilers/helpers/cluster.go` | none | `GetWorkloadClusterClient`, `DeleteNFDeployment`, `DeleteConfigRefs` |
| Application generator | `reconcilers/helpers/argoapp.go`, `reconcilers/argo` | none | `CreateAndPushArgoApp` |
| Gitea client | `reconcilers/gitaclient/giteaclient.go` | `singleInstance` and its lock, for the life of the process | `GetClient`, `Start`, `IsInitialized`, `GetMyUserInfo`, secret lookup |
| Workload cluster clients | `reconcilers/capi/cluster.go` | none | from a cluster's name to a client: list, secret, Ready condition |
| API types | `api/v1` | the object (in the API server) | validation by the CRD only |
| Manager | `cmd/main.go` | informer caches, workqueue (controller-runtime v0.19.3) | start, restart, resync |

Around them, outside `src/`: the management API server with Cluster API, Gitea and
whoever else commits to it, the workload clusters with their operators, and Argo CD.

### How they interact

One Reconcile is a straight line of calls. For the CU: get and test the Gitea client;
clone the repository and find the manifest; rewrite NADs and manifest; commit and
push; get a client of the CU's cluster; delete the NFDeployment and its pods;
commit an Argo CD Application to the target cluster's repository; sync there. Then,
for each DU and CU-UP: clone, rewrite, push, delete Config, pods and NFDeployment;
at the end, sync each of their clusters twice. State is shared with others at every
call: the branch of a repository, the objects and pods of a namespace, the Application
in Argo CD, the Clusters and Secrets, the object in the API server. Callbacks: the
watch of `NFReconfig` objects (the watches of Clusters and Applications enqueue
nothing).

### What is hard here

* **Errors are dropped.** Only an error of the first `Get` is returned. All others
  are logged and the workqueue forgets the key; panics (nil clients, a nil `ipv4`)
  are recovered by controller-runtime, which queues the key again.
* **Nothing is remembered.** No status is written. What keeps a run that is
  repeated (resync, restart, panic, label change) from doing everything again is
  that go-git refuses an empty commit, before anything is torn down. The same
  refusal stops a run that should finish what an earlier one began.
* **Every call is a window** for other committers, edits of the object, rotated
  credentials and restarts. The push is not forced, so a branch that moved refuses it.
* **The loop over the dependents** stops at the first failure, and syncs come after
  the loop.
* **Files are read twice in two ways**: the search sees all documents of a YAML
  file, the rewriting only the first.
* **A cluster is found by three reads** at three times, two of them from caches,
  while clusters come and go, and a Reconcile may return between a teardown and its sync.
* **The Gitea client is a singleton** behind a check outside its lock, started while
  the lock is held, and kept even if the start failed.
* **Objects share** one worker and its queue, manifests whose interfaces they divide
  among them, and namespaces, in which pods are deleted without a selector.
* **What the CRD leaves optional the code dereferences**: an interface without `ipv4` is a
  panic, and an object without `targetCluster` one after its CU was deleted.

### What makes each component correct

* Reconciler: requests are carried out once; a teardown is preceded by a push, and
  there is at most one for it; dependents follow their CU; the CU is not in two
  clusters; edits are not lost; the reconfiguration is finished in the end; objects
  do not undo each other's work or starve each other.
* Git helpers: other people's commits and files survive; what is pushed is what was
  asked for; a second pass changes nothing.
* Gitea client: one is started; nobody is handed one that is being started; a call
  returns; one that could not be started is started later.
* Workload cluster clients: the client is one of the named cluster, which was Ready;
  the cluster torn down is the one that is synced.
* Deletion helpers: no pod of before a teardown is left; who lost its pods gets them
  back; nobody else loses any.

`PROJECT.json` lists the hazards behind these, each at its line.

## Modules

| Module | Contents |
|---|---|
| `NFReconfigController` | the worker with one object, call by call, its surroundings, the properties |
| `Reconfiguration` | what the controller promises, abstractly; `NFReconfigController` implements it (`Contract`) |
| `Manifests` | the YAML files of a clone, document by document, over several Reconciles |
| `GiteaClientSingleton` | `GetClient` and `Start`, lock and memory, any number of callers |
| `GiteaClientLifecycle` | the client as `NFReconfigController` takes it for granted; `GiteaClientSingleton` implements it |
| `WorkloadClusters` | from a cluster's name to a client, read by read, among clusters that come and go |
| `NFReconfigObjects` | several objects, the workqueue, manifests interface by interface, the pods of a namespace |
| `MC...` | the instances TLC checks |
| `..._proofs` | the inductive invariants of a module, theorems and proofs |
| `Quiescence_proofs` | more of them about `NFReconfigController`: what holds when it comes to rest |

### NFReconfigController

*State and code.* `nfr` is the object in the API server, `cached` the informer's
copy, `queued` its key in the workqueue. `client` is `singleInstance`: nil, made
but not started ("uninitialized"), valid, or valid once with credentials that were
rotated since ("revoked"). `head` and `rev` are the main branches: the content of
every file the controller may rewrite, and a number in place of the commit hash.
`alive` is what runs in the workload clusters, `appFiles` the Application manifests
pushed, `ops` the Applications with an operation to run, `migrated` whether the CU
runs in its target cluster. `run` is the Reconcile in progress: its place in the
code (`pc`) and the local variables that outlive a call. `told`, `pushes` and
`teardowns` are history variables; no guard reads them.

*Actions.* One per call: `Reconcile` (the `Get`), `InitializeGiteaClient`,
`GetMyUserInfo`, `CheckRepoForMatchingManifests` (clone and search, atomic because
nobody else sees the clone), `UpdateManifests`, `CommitAndPush`,
`GetWorkloadClusterClient`, the four deletions, `CreateAndPushArgoApp`,
`SyncTarget`, `NextDependent`, `SyncDependent`, `ReconcileDone`. Both handlers share
the actions of their common calls; `run.type` says which one is running. A call
that fails takes the disjunct with `Fault` and does what the code does with the
error; where an answer can be lost, the failing call may have had its effect. The
environment: `EditNFReconfig`, `DeliverEvent`, `Resync`, `ForeignCommit`,
`RotateCredentials`, `Restart`, `ArgoSync`, `StartPods`.

*Abstractions.* One object, and with it one worker: `MaxConcurrentReconciles` is
left at 1, and the deployment has one replica with `--leader-elect`. All interfaces
of the object together are one value; an object with an interface without `ipv4` is
the value `NoIPv4`. A manifest file is the assignment it carries and whether it is
in the form `yaml.Marshal` writes (a file a person wrote is committed with a diff
even if the addresses are the same). `Absent` manifests are not found, `Broken` ones
have nothing to rewrite. All NADs of a CU are one file.

*Assumptions.* Manifests of different elements have different names and lie in
different namespaces; an element has an `nfDeployment` or a `configRef`, or its
two functions live and die together; the target cluster's repository is named after it, as
in the sample; `ListMyRepos` and `ListArgoApplications` only log. A missing `GIT_SERVER_URL`
is a Gitea client that never starts. Argo CD creates what is missing only when an operation
asks for it: so the code itself takes it, which triggers a sync after every teardown, for the
clusters' own Applications, which are not in the repository. The Application it generates
for the moved CU does set `selfHeal` (`helpers/argoapp.go:50`); in a cluster whose
Applications sync on their own, the CU could come back before it is gone elsewhere, and
`AtMostOneCU` says nothing. `targetCluster` is optional (`api/v1/nfreconfig_types.go:55`):
`target` is `None` without one, the Application is then refused and the client of the empty
name is a panic, after the teardown.

### Reconfiguration

Requests are counted, a commit may be published if there were more requests than
commits to that manifest, to a dependent only with a value some CU was told; a
teardown needs a commit it has not been matched with. The refinement maps requests
to `edits + foreign`, commits to `pushes`; `told` and `teardowns` are the same.

### Manifests

A file is a sequence of documents with a name and namespace, a shape and a value.
Actions: the search, one step of `FindMatchingNADs` per file, one rewriting per
match, commit and push; then the next Reconcile clones what was pushed. The calls of
`UpdateNADMaster` for one file all rewrite its first document, so that the last one
decides (`NewMaster`). `Expected` is the reference: what a file should be, said
without search or loops. For repositories with one document per file it justifies the
`Rewrite` of `NFReconfigController` and its claim that a second pass is clean.

### GiteaClientSingleton and GiteaClientLifecycle

*State and code.* `singleInstance` and `lock` are the package's variables; an instance
is named after the caller that made it, and `giteaClient` is the field of that name:
nil, or the password its client was made with. `pc` is the place of every caller in
`GetClient`, in `Start` (secret, `gitea.NewClient`, the test of the connection) and in
the caller's next look at the client, `IsInitialized` and `GetMyUserInfo`.
`password`, `secret` and `reachable` are Gitea, the Kubernetes secret and the network.

*Memory.* The first check of `singleInstance` takes no lock. The images are built for
arm64 among others (`Makefile`, `PLATFORMS`), where a goroutine that has not
synchronised with the writer may see an old value, or the pointer without what it
points to: `synced` is the set of callers that are sure to see what was written, and
the others may go either way. There is one caller today, the controller's only worker: that the
package withstands several (`OneStart`, `NoneHalfStarted`) is a guarantee of the package that
the program does not call upon, and would from `MaxConcurrentReconciles: 2` on. What the program
needs of it today is `HonoursLifecycle` and `LockIsGivenBack`.

*Refinement.* `client` of `NFReconfigController` is the refinement mapping;
`GiteaClientLifecycle` is its part of that module: made once, for better or worse, then
revoked at most, anew with a new process. (Its step from nil to revoked, credentials
rotated while the client is made, is two steps there.)

### WorkloadClusters

*State and code.* `cluster` and `secret` are the API server's Clusters and kubeconfig
Secrets by name and namespace, `cachedCluster` and `cachedSecret` the informers' copies:
the manager's client answers the list and the Secret from caches, and the unstructured
read of the Ready condition from the API server. A Cluster is a number that is never
used again. One Reconcile asks for the clusters of `Requests` in turn: `ListClusters`,
`GetSecret`, `GetReady`, `Connect` are the reads of one `GetWorkloadClusterClient`, with
the error and the client it returns; `UseClient` is what the caller does with them,
`SyncApps` the loop over `uniqueApps`. Between the requests lie the calls of
`NFReconfigController` that may end the run (Gitea, clone, rewriting, the commit that may be
empty, the push): `NextRequest` goes on, skips a dependent without a match, or returns, also
after a teardown and then without a sync. `ClusterAPI` is everyone else.

*Its place.* `NFReconfigController` has the call give a client of the right cluster or a
panic; `ClientOfNamedCluster` says that this is so. `ReadyBeforeUse` and
`SyncReachesTornDown` say how far the call may be wrong about which Cluster of that name it
is: a dead one whose successor is Ready, a namesake in another namespace.

### NFReconfigObjects

*State and code.* `queue`, `dirty` and `backoff` are controller-runtime's workqueue: keys
in order, keys to be worked on, keys the rate limiter will add again. A key added while
it is worked on waits until the run is over. `manifest` has an address for every
interface of a network function; an object changes the interfaces it names.
`Repositories` are the states the manifests may be in to begin with, with any addresses and in
any form: written by a person, or left by another object or an earlier life of the controller.
`deployed` and `pods` are what the clusters hold, with the addresses it was made from;
pods are deleted by namespace. `ops` is as above.

*Actions.* `Reconcile`, `Publish` (clone, rewriting, commit, push), the three deletions,
`SyncApps`; edits, resyncs, the rate limiter, Argo CD and the operators around them.

*Abstractions.* What one object is enough for is left to `NFReconfigController`: the
lag of the cache, the Gitea client, foreign commits, faults and restarts, the cluster the
CU moves to, NADs. The only panic is that of an interface without `ipv4`. Two objects
that name the same interface of the same network function and give it different
addresses do undo each other's work; `AgreedCommits` is about those that do not.

## Runs

| Run | Instance and bounds | Properties | Shows |
|---|---|---|---|
| `contract` | one repository, the target cluster's, with the manifests of a CU-UP and of the CU listed after it, and the Application; manifests missing or written by hand; 2 edits, 1 foreign commit, 1 fault | `TypeOK`, `NoRepeatedCommits`, `OneTeardownPerPush`, `DependentsFollowTarget`, `TeardownOnlyAfterPublish`, `PushPreservesForeignWork`, `HonoursContract` | requests are carried out once, teardowns are paid for, foreign work survives; refinement of `Reconfiguration` |
| `notarget` | a CU without `targetCluster` and a DU; manifests of any content; 2 edits, 1 foreign commit, 2 faults | `DependentsFollowMove` | the CU is torn down and the run panics; however often the key comes back, the DU is not pointed at a CU that went nowhere |
| `convergence` | sample object (CU, and a DU and a CU-UP that share a repository); 2 edits, no foreign commit, 1 fault; `PromptSpec` | `AtMostOneCU`, `SettledWhenQuiet`, `NoneLeftDeleted`, `NoWakeupLost`, `StaysInPlace`, `EditsObserved`, `UndisturbedConvergence` | one CU at a time; no wakeup is lost; undisturbed, it never comes to rest halfway, no DU or CU-UP is left deleted and the last edit is put in place; what is in place stays |
| `manifests` | all clones of 3 one-document files, and of 2 files of 1 or 2 documents beside a third; 2 Reconciles | `RewritesAreExact`, `OneCommitIsEnough`, `BystandersKept` | the rewriting of one-document files is exact and idempotent; files nobody named are left alone |
| `singleton` | 3 callers; 1 rotation, 1 outage, 1 restart | `TypeOK`, `OneStart`, `NoneHalfStarted`, `LockIsGivenBack`, `EveryCallReturns`, `HonoursLifecycle` | one start, nobody handed a client that is being started, no caller stuck at the lock |
| `workload` | 5 requests (CU, target, 3 dependents), clusters of one name in 2 namespaces; 2 Clusters, 2 deletions, 1 fault | `TypeOK`, `ClientOfNamedCluster`, `ReadyBeforeUse`, `SyncReachesTornDown`, `ReachedWhenStable` | the client is of the right cluster whatever happens between the reads; a sync misses a teardown only for a namesake; stable clusters are reached |
| `objects` | 2 objects for different interfaces of one CU and CU-UP, a UPF in the CU's namespace; manifests alike, the CU's another, or the CU's as an earlier object left it; 3 edits | `TypeOK`, `AgreedCommits`, `FreshPods`, `Remembered`, `AllServed`, `EveryObjectServed`, `Restored` | objects that agree do not fight; no stale pods; once an object's functions agree none is left behind with the key forgotten; no starvation; who was deleted or lost its pods recovers |

and five that TLC refutes, each a disagreement of the code with its own words (quoted
under "findings"):

| Run | Property | What happens |
|---|---|---|
| `interrupted` (CU and DU; 1 edit, 1 fault) | `Convergence` | one failed call after the CU's push; the rest is never done, in spite of endless resyncs |
| `clientretry` (1 caller, 1 outage) | `ClientRetried` | "retrying later" never happens |
| `leftdeleted` (CU, CU-UP, and a DU that is as asked already; 1 edit) | `EveryNFRestored` | the DU's empty commit ends the run before the CU-UP's cluster is synced, and no later run does it |
| `documents` | `EveryDocumentKept` | the second document of a file is dropped |
| `pods` (1 edit) | `OnlyOwnPodsDeleted` | the UPF loses its pods to the CU's teardown |

Conditions on what passes are worth reading.

* `UndisturbedConvergence`, `SettledWhenQuiet` and `NoneLeftDeleted` start from manifests a person
  wrote (`WrittenByHand`). A dependent's manifest that is already as asked, in the controller's
  own form, is an empty commit at which the loop stops: the run `leftdeleted`.
* `Remembered` and `Restored` are about objects with one DU or CU-UP each (`OneDependentEach`), whatever
  their manifests hold to begin with. The sample object has two dependents, and then it is not so:
  `EveryNFRestored`, which is `Restored` without the condition, is what `leftdeleted` refutes.
* `AllServed` and `AgreedCommits` take objects that name no interface in common, `AllServed` also that
  an object names a network function once. `AllServed` is about an object from the moment on at
  which its network functions agree on its interfaces (`Even`). Before that one of them may be left
  behind: when the CU already has what is asked, its empty commit ends the run, and dependents that
  have not are never served. The instance has such manifests (`SharedRepositories`).
* `SyncReachesTornDown` is about a Reconcile that comes to its syncs. One that returns earlier, after a
  teardown, syncs nothing; `interrupted` and `leftdeleted` show what becomes of it.
* `AtMostOneCU`, and the second half of `DependentsFollowMove`, are about executions without faults.
* `ReadyBeforeUse` allows a client of a Cluster that was deleted, if its successor under the same
  name and namespace was Ready: the Secret may be the old one's, the condition the new one's.

*Bounds.* `MaxEdits`, `MaxForeign`, `MaxFaults` bound edits, foreign commits and faults
(failed calls, lost answers, rotations, restarts); `NumFiles` and `MaxRuns` files and
Reconciles in `Manifests`; `MaxRotations`, `MaxOutages`, `MaxRestarts` in the
singleton; `MaxClusters` and `MaxDeletions` in `WorkloadClusters`. Two edits give a change
during a run, a cancelled edit and a deletion with a new creation; a third, in `objects`,
gives an object that panics beside one that is changed. One foreign commit falls between
any clone and push. Two Clusters and two deletions give a successor under the same name
and a namesake elsewhere. Three callers give one that starts, one that waits and one that
reads without the lock. Resyncs are not bounded, so every instance has runs repeated
without end. Two assignments suffice: a run compares an assignment only with what a file
carries. Every safety property of these runs is also a theorem without bounds, which is why
one fault is enough there.

*Deadlock* is not checked: with all edits made and nothing queued the controller
rightly waits.

## Fairness

* `NFReconfigController`: the worker goes on while it can (controller-runtime's worker
  goroutine; every call is taken to end, a failure counts as an end), the watch delivers, Argo CD
  runs operations, operators start pods. `FairSpec` adds `Resync`: `main.go` leaves
  `SyncPeriod` at its default, so that every object is enqueued again, if only every ten
  hours; that makes the refuted `Convergence` a stronger finding. `PromptSpec`, for the
  properties that hold, does without it.
* `GiteaClientSingleton`: calls go on and are made again, which takes for granted that every
  request to Gitea ends (the SDK's HTTP client has no timeout of its own: a server that accepts a
  connection and never answers is left to TCP); `SF` for the lock, because Go's
  mutex hands over to a waiter after a millisecond (starvation mode); memory becomes
  visible; outages end and the secret follows the password.
* `WorkloadClusters`: the Reconcile goes on, the two watches deliver. Nothing of Clusters.
* `NFReconfigObjects`: as the first, and the rate limiter adds its keys.

Nothing is assumed of users, committers, rotations, faults and restarts.

## Proofs

All theorems hold for every value of the constants, under the assumptions named in the
modules (bounds are numbers, sentinels are distinct and no values, sequences are sequences
of what they should be).

| Module | Theorem | States |
|---|---|---|
| `NFReconfigController_proofs` | `TypeSafety` | `Spec => []TypeOK` |
| | `CommitsAreNotRepeated` | `Spec => []NoRepeatedCommits` |
| | `TeardownsArePaidFor` | `Spec => []OneTeardownPerPush` |
| | `Following` | `Spec => []DependentsFollowTarget` |
| | `FollowingTheMove` | `Spec => []DependentsFollowMove` |
| | `ForeignWorkIsSafe` | `Spec => PushPreservesForeignWork` |
| | `PublishedBeforeTeardown` | `Spec => TeardownOnlyAfterPublish` |
| | `OneCU` | `Spec => []AtMostOneCU` |
| | `ContractHonoured` | `Spec => HonoursContract` |
| `Quiescence_proofs` | `NoEventForgotten` | `Spec => NoWakeupLost` |
| | `InPlaceForGood` | `Spec => StaysInPlace` |
| | `NothingLeftUndone` | `Spec => []SettledWhenQuiet` |
| | `DeletedComesBack` | `Spec => []NoneLeftDeleted` |
| `Manifests_proofs` | `Exactness` | `Spec => []RewritesAreExact` |
| | `Idempotence` | `Spec => []OneCommitIsEnough` |
| | `BystandersAreKept` | `Spec => []BystandersKept` |
| `GiteaClientSingleton_proofs` | `TypeSafety` | `Spec => []TypeOK` |
| | `StartedOnce` | `Spec => []OneStart` |
| | `NotHalfStarted` | `Spec => []NoneHalfStarted` |
| | `LockGivenBack` | `Spec => []LockIsGivenBack` |
| | `LifecycleHonoured` | `Spec => HonoursLifecycle` |
| `WorkloadClusters_proofs` | `TypeSafety` | `Spec => []TypeOK` |
| | `NamedClient` | `Spec => []ClientOfNamedCluster` |
| | `ReadyClient` | `Spec => []ReadyBeforeUse` |
| | `TornDownIsSynced` | `Spec => []SyncReachesTornDown` |
| `NFReconfigObjects_proofs` | `TypeSafety` | `Spec => []TypeOK` |
| | `PodsAreFresh` | `Spec => []FreshPods` |
| | `AgreedObjects` | `Spec => []AgreedCommits` |
| | `DeletedIsRemembered` | `Spec => []Remembered` |
| | `NoObjectLeftBehind` | `Spec => AllServed` |

Hardly any of the properties is inductive. The invariants that make them so are defined, like
the lemmas, in the `_proofs` modules:

*NFReconfigController*

* `RunInv`: where a run is determines its handler, and that it is at a manifest that
  exists. With `TypeOK` it is `TypeInv`, the base of all others.
* `FollowInv`: after a push the run's manifest was told the run's assignment, and a
  run that handles dependents has told the CU.
* `MoveInv`: a run comes to the dependents only by the sync of a target cluster, and without
  faults with the Application in its repository, because the client that commits it is valid from
  the start of a run on (`Sent` says what is then so for good).
* `TeardownInv`: a run between push and first deletion owes one teardown. Without the
  debt, a deletion step could exceed the count of pushes.
* `CloneInv`: while the branch is where it was cloned, the clone equals it but for
  what the run rewrote, and a dirty clone has a file that differs.
* `CommitInv`: the commits to come. An assignment waits in three places (in the API
  server, in the cache, in the run), and each can make a manifest dirty once more, if
  it is new there. Their sum and the commits made never exceed edits and foreign
  commits. That no number of resyncs adds to it is the point of the proof.
* `OneCUInv`: without faults, the CU is gone before its Application exists, and
  nothing in its old cluster is ever synced.

`ContractHonoured` rests on the other theorems: the invariants after a step supply the
guards of the abstract step.

*NFReconfigController at rest* (`Quiescence_proofs`)

`SettledWhenQuiet` is what can be said of `UndisturbedConvergence` without fairness: with no
run, no key, no event and no operation pending, and no fault or foreign commit so far, the
manifests carry what the object asks for, the CU has moved and every DU and CU-UP runs. There is
no status to tell the controller so. The trouble is the empty commit: a run that finds the CU's
manifest as asked ends, so that whatever is left to do must be known to have been done. Hence
`QuietInv`, whose parts beside `TypeInv`, `CloneInv` and `OneCUInv` say

* `WakeInv`: a run whose key is not queued works on what the cache holds, so that the last run
  is one for the last edit (this alone gives `NoWakeupLost`);
* `ClientInv`, `BranchInv`: no step of an undisturbed run is refused for its client or branch,
  and something to rewrite makes the clone dirty;
* `FilesInv`: between runs the files are all as a person wrote them or all written for one
  assignment; a run that has pushed the CU's manifest has written exactly those it has been at.
  So a run that gets past the CU's commit finds none of the dependents' commits empty;
* `IdleInv`: at rest that one assignment is what the cache holds;
* `MovedInv`, `DependentsInv`, `WorkloadInv`: what was deleted on the way is to come, in the
  `ops` of Argo CD, in the run's `apps`, or in the step the run is at.

An edit may withdraw or change the assignment at any step of this, also in the middle of a run.
`DeletedComesBack` is `DependentsInv` between runs. The proofs of the parts share `CalmSteps`, which says what a step of an undisturbed execution can
be: two dozen actions come down to eight kinds.

`StaysInPlace` needs no such history: what is in place is a state in which no run can push
(`NothingToPush`), so that nothing is deleted and Argo CD and the operators have nothing to add.
It holds in spite of faults and restarts.

*Manifests*

* `BystanderInv`: every document in the repository or the clone goes back to one that the
  file held to begin with, of the same name and shape; so a match means that the file was
  named from the start.
* `ExactInv`: in front of the file the search is at, NADs are as expected, behind it
  untouched, and no broken NAD was met; matches still to come are as the search left them.
  After the one commit, repository and clone are as expected throughout, so that the next
  commit is empty.
* `LastOf`: a non-empty set of positions has a last one, from the well-foundedness of the
  naturals; it is what makes "the last call" and "the last interface" mean something for
  lists of any length.

*GiteaClientSingleton*: `LockInv` (who is where the lock is held, holds it, and who holds it
is there), `InstanceInv` (an instance is made while there is none, and callers hold the one
there is), `StartsInv` (the one start is under way or has given an instance), `PasswordInv`
(no client has a password of the future, which the refinement needs).

*WorkloadClusters*: `StepInv`; `KeptInv` (what is kept under a name and namespace, in a
cache or not, was created under them), `ReadInv` (so was what a call has read), `ReadyInv`
(no Secret is of a Cluster younger than the one of its name in the API server, so that the
condition read after it is of that Cluster or a successor), `AppsInv` (a name in `uniqueApps`
goes with a Cluster of that name, and those torn down in have theirs there).

*NFReconfigObjects*: `RunInv`; `GoneInv` (without an NFDeployment there are no pods, but
between its deletion and theirs), `FreshInv` (from then on Argo CD can only make it of the
new manifest), `CommitInv` as above, interface by interface: an object's edits pay for its
own commits, and another object's commits leave its interfaces alone. `QueueInv` is the
shape of the workqueue that `TypeOK` states. `RememberInv` adds to `Remembered` that a run
has no clusters to sync until its end, so that it loses none when it ends early.
`ServedInv`, for one object from a state on in which its NFs agree: a run works for what the object asks or its key is dirty; the
NFs it has been at carry that; the others, and between runs all of them, carry the same
addresses as each other. So an empty commit at one NF means that the NFs ahead need nothing
either, and the run that ends there leaves none behind. Other objects' runs do not touch
these interfaces. The theorem is one of temporal logic, `Spec => [](Even(o) /\ ... => []Served(o))`:
the invariant is not true from the initial state on, but from any state on in which it holds once.

Only model-checked are the liveness properties (`EditsObserved`, `UndisturbedConvergence`,
`EveryCallReturns`, `ReachedWhenStable`, `EveryObjectServed`, `Restored`): liveness under
fairness is out of the prover's reach. What they need of safety is proved: `NoWakeupLost` for the
first, `SettledWhenQuiet` and `StaysInPlace` for the second, `LockIsGivenBack`, `AllServed`,
`Remembered` and `FreshPods` for the third and the last two.

## Not modelled

* Flags, metrics, probes and the webhook server; generated code; the tests, which create an
  object and call `Reconcile` once.
* Static configuration. Two things in it bear on the program and are taken as set right by
  whoever deploys it: `config/rbac/role.yaml` lets the manager read neither Secrets nor
  Clusters nor Applications, and `config/manager/manager.yaml` has a read-only root file
  system without a volume for the clones. As they stand, every run ends with an error early
  on, which is a fault in the models.
* Code without callers, none of which changes state: `WaitForInitialization` (not in the
  interface `GetClient` returns), the repository and token calls of the Gitea client,
  `GetCapiClusterFromSecret` and `GetWorkloadClusterClient` of package `capi`.
* The clone directories, which are never removed: a full disk is a clone that fails, one of
  the faults.
* The content of the Application, and `networkInstances`, `parametersRefs` and `provider` of
  the object, which no code reads.

## Plan

Done: the controller and its contract; the documents of a clone; the Gitea client and its
lifecycle; the workload cluster clients; several objects. Every safety and action property of a
passing run is proved, and so is the safety that most of the liveness properties rest on.

Left:

1. `NFReconfigObjects` with the lag of the cache and with faults, for `AgreedCommits` and
   `EveryObjectServed` (both are stated for a prompt watch).
2. Two objects whose CUs move to the same target cluster: their Applications are committed to
   one repository, in files named after the second in which they are made.
