-------------------------- MODULE NFReconfigObjects --------------------------
(***************************************************************************)
(* Several NFReconfig objects and the one worker that serves them, over     *)
(* manifests, namespaces and clusters they share with each other and with   *)
(* network functions that no object names.                                  *)
(*                                                                         *)
(* NFReconfigController follows one object call by call; here calls that    *)
(* nobody can tell apart from outside are one step, no call fails, and the  *)
(* things one object is enough for are left out: the cache, the Gitea       *)
(* client, other committers, and the cluster the CU moves to.  What is kept *)
(* in more detail is what objects share: the workqueue, every interface of  *)
(* a manifest, and the pods of a namespace.                                 *)
(***************************************************************************)
EXTENDS Integers, Sequences

CONSTANTS
  Objects,    \* the NFReconfig objects
  NFs,        \* the network functions in all workload clusters
  Interfaces, \* names of interfaces
  Addresses,  \* addresses an interface may be given
  Repositories, \* what the repositories may hold to begin with
  Elements,   \* an object's NFs: its CU, then its DUs and CU-UPs
  Named,      \* the interfaces an object has in its spec.interfaces
  Cluster,    \* the cluster of an NF
  Namespace,  \* the namespace of an NF
  NoIPv4,     \* an object one of whose interfaces has no ipv4
  Deleted,    \* an object that does not exist
  None,       \* no value
  MaxEdits    \* bound on the edits of all objects

Clusters == {Cluster[n] : n \in NFs}

ASSUME ElementsAssumption ==
  /\ Elements \in [Objects -> Seq(NFs)]
  /\ \A o \in Objects : Elements[o] # <<>>
ASSUME NamedAssumption == Named \in [Objects -> SUBSET Interfaces]
ASSUME MaxEditsAssumption == MaxEdits \in Nat

(* What an object may ask for. *)
Specs(o) == [Named[o] -> Addresses] \union {NoIPv4}

(* The addresses of a manifest, or of what was made from one.               *)
Contents == [Interfaces -> Addresses]

ASSUME RepositoriesAssumption ==
  Repositories \subseteq [manifest: [NFs -> Contents], canonical: SUBSET NFs]
ASSUME NoneAssumption == None \notin Objects \union Contents

VARIABLES
  spec,      \* what every object asks for
  queue,     \* the workqueue's keys, in order
  dirty,     \* keys to be worked on
  backoff,   \* keys the rate limiter will add again
  run,       \* the Reconcile in progress: its object, place, element, ...
  manifest,  \* addresses of every NF's manifest in its repository
  canonical, \* NFs whose manifest is in the form yaml.Marshal writes
  deployed,  \* addresses of every NF's Config and NFDeployment; None: gone
  pods,      \* addresses its pods were started with; None: no pods
  ops,       \* clusters whose Application has an operation to run
  edits,     \* number of edits of every object
  commits,   \* history: commits made for an object to a manifest
  tornDown   \* history: NFs torn down since their last commit

queueVars == <<queue, dirty, backoff>>
clusterVars == <<deployed, pods, ops>>
gitVars == <<manifest, canonical, commits>>
vars == <<spec, queueVars, run, gitVars, clusterVars, edits, tornDown>>

Locations == {"idle", "publish", "deleteConfig", "deleteNF", "deletePods", "sync"}

AllSpecs == UNION {Specs(o) : o \in Objects}

Runs == [object: Objects \union {None}, pc: Locations, element: Nat,
         asked: AllSpecs \union {None}, apps: SUBSET Clusters]

Idle == [object |-> None, pc |-> "idle", element |-> 0, asked |-> None, apps |-> {}]

(* The clusters run what the repositories hold: addresses that persons, an  *)
(* earlier object or an earlier life of the controller put there, alike in  *)
(* the NFs of an object or not, in whatever form.                           *)
Init ==
  /\ spec = [o \in Objects |-> Deleted]
  /\ queue = <<>>
  /\ dirty = {}
  /\ backoff = {}
  /\ run = Idle
  /\ \E r \in Repositories : manifest = r.manifest /\ canonical = r.canonical
  /\ deployed = manifest
  /\ pods = manifest
  /\ ops = {}
  /\ edits = [o \in Objects |-> 0]
  /\ commits = [o \in Objects |-> [n \in NFs |-> 0]]
  /\ tornDown = {}

CurrentNF == Elements[run.object][run.element]

IsCU == run.element = 1

-----------------------------------------------------------------------------
(***************************************************************************)
(* The workqueue.  A key that is being worked on waits until that is done;  *)
(* a key is queued once.                                                    *)
(***************************************************************************)
Add(o) ==
  /\ dirty' = dirty \union {o}
  /\ queue' = IF o \in dirty \/ o = run.object THEN queue ELSE Append(queue, o)

(* A key that was added while it was worked on is queued now.               *)
Done == queue' = IF run.object \in dirty THEN Append(queue, run.object) ELSE queue

Return ==
  /\ run' = Idle
  /\ Done
  /\ UNCHANGED <<dirty, backoff>>

(* A recovered panic is an error; the key comes back after a delay.         *)
Panic ==
  /\ run' = Idle
  /\ Done
  /\ backoff' = backoff \union {run.object}
  /\ UNCHANGED dirty

-----------------------------------------------------------------------------
(***************************************************************************)
(* The worker.                                                             *)
(***************************************************************************)
Reconcile ==
  /\ run = Idle
  /\ queue # <<>>
  /\ LET o == Head(queue)
     IN /\ dirty' = dirty \ {o}
        /\ run' = IF spec[o] = Deleted
                  THEN Idle
                  ELSE [Idle EXCEPT !.object = o, !.pc = "publish",
                                    !.element = 1, !.asked = spec[o]]
  /\ queue' = Tail(queue)
  /\ UNCHANGED <<spec, backoff, gitVars, clusterVars, edits, tornDown>>

(* Mutant: an interface the object does not name is given whatever address  *)
(* the object has.                                                          *)
NewIP_Any(i) ==
  IF i \in DOMAIN run.asked THEN run.asked[i]
                            ELSE run.asked[CHOOSE j \in DOMAIN run.asked : TRUE]

(* Interfaces of the manifest that the object does not name keep what they  *)
(* have.                                                                    *)
NewIP(i) ==
  IF i \in DOMAIN run.asked THEN run.asked[i] ELSE manifest[CurrentNF][i]

(* Mutant: the run waits until the interface has an address. *)
NoAddress_Waits == UNCHANGED <<run, queueVars>>

(* An interface is asked for the address of an ipv4 that is nil. *)
NoAddress == Panic

(* Clone, rewriting, commit and push.  An interface without ipv4 panics; a  *)
(* manifest that stays as it is is an empty commit, an error that ends the  *)
(* run, in the loop over the dependents as well.                            *)
Publish ==
  /\ run.pc = "publish"
  /\ IF run.asked = NoIPv4
     THEN /\ NoAddress
          /\ UNCHANGED <<gitVars, tornDown>>
     ELSE LET n == CurrentNF
              new == [i \in Interfaces |-> NewIP(i)]
          IN IF new = manifest[n] /\ n \in canonical
             THEN /\ Return
                  /\ UNCHANGED <<gitVars, tornDown>>
             ELSE /\ manifest' = [manifest EXCEPT ![n] = new]
                  /\ canonical' = canonical \union {n}
                  /\ commits' = [commits EXCEPT ![run.object][n] = @ + 1]
                  /\ tornDown' = tornDown \ {n}
                  /\ run' = [run EXCEPT
                       !.pc = IF IsCU THEN "deleteNF" ELSE "deleteConfig"]
                  /\ UNCHANGED queueVars
  /\ UNCHANGED <<spec, clusterVars, edits>>

SameNamespace(m, n) ==
  Cluster[m] = Cluster[n] /\ Namespace[m] = Namespace[n]

(* DeleteAllOf pods, in the namespace of an NF. *)
WithoutPods(n) == [m \in NFs |-> IF SameNamespace(m, n) THEN None ELSE pods[m]]

(* Mutant: the cluster of the CU is synced instead of the dependent's.      *)
App_OfCU == Cluster[Elements[run.object][1]]

(* Mutant: an Application is named after the network function. *)
App_OfNF == CurrentNF

App == Cluster[CurrentNF]

(* The element is done: on to the next one, or to the syncs.  What becomes  *)
(* of the CU in the cluster it moves to is NFReconfigController's subject.  *)
NextElement ==
  /\ tornDown' = tornDown \union {CurrentNF}
  /\ LET apps == IF IsCU THEN run.apps ELSE run.apps \union {App}
     IN run' = IF run.element = Len(Elements[run.object])
               THEN [run EXCEPT !.pc = "sync", !.apps = apps]
               ELSE [run EXCEPT !.pc = "publish", !.apps = apps, !.element = @ + 1]

(* DeleteConfigRefs: a dependent's Config, and then the pods.  What runs is *)
(* made from the Config and the NFDeployment together; the properties here  *)
(* tell only the latter's absence.                                          *)
DeleteConfig ==
  /\ run.pc = "deleteConfig"
  /\ pods' = WithoutPods(CurrentNF)
  /\ run' = [run EXCEPT !.pc = "deleteNF"]
  /\ UNCHANGED <<spec, queueVars, gitVars, deployed, ops, edits, tornDown>>

(* Mutant: the NFDeployments are deleted like the pods, by namespace.       *)
WithoutNF_Namespace(n) ==
  [m \in NFs |-> IF SameNamespace(m, n) THEN None ELSE deployed[m]]

WithoutNF(n) == [deployed EXCEPT ![n] = None]

(* Mutant: the pods are not deleted again after the NFDeployment.           *)
AfterDelete_NoPods == NextElement

AfterDelete ==
  /\ run' = [run EXCEPT !.pc = "deletePods"]
  /\ UNCHANGED tornDown

(* An NFDeployment that is gone already is an error: its pods are not       *)
(* deleted; the caller logs it and goes on.                                 *)
DeleteNFDeployment ==
  /\ run.pc = "deleteNF"
  /\ \/ /\ deployed[CurrentNF] # None
        /\ deployed' = WithoutNF(CurrentNF)
        /\ AfterDelete
     \/ /\ deployed[CurrentNF] = None
        /\ NextElement
        /\ UNCHANGED deployed
  /\ UNCHANGED <<spec, queueVars, gitVars, pods, ops, edits>>

DeletePods ==
  /\ run.pc = "deletePods"
  /\ pods' = WithoutPods(CurrentNF)
  /\ NextElement
  /\ UNCHANGED <<spec, queueVars, gitVars, deployed, ops, edits>>

(* The loop over uniqueApps, and the end of the run. *)
SyncApps ==
  /\ run.pc = "sync"
  /\ ops' = ops \union run.apps
  /\ Return
  /\ UNCHANGED <<spec, gitVars, deployed, pods, edits, tornDown>>

Worker ==
  \/ Reconcile
  \/ Publish
  \/ DeleteConfig
  \/ DeleteNFDeployment
  \/ DeletePods
  \/ SyncApps

-----------------------------------------------------------------------------
(***************************************************************************)
(* Everyone else.                                                          *)
(***************************************************************************)

TotalEdits[S \in SUBSET Objects] ==
  IF S = {} THEN 0
  ELSE LET o == CHOOSE x \in S : TRUE IN edits[o] + TotalEdits[S \ {o}]

(* Users create, edit and delete objects; the watch is prompt. *)
EditNFReconfig(o) ==
  /\ TotalEdits[Objects] < MaxEdits
  /\ edits' = [edits EXCEPT ![o] = @ + 1]
  /\ \E v \in (Specs(o) \union {Deleted}) \ {spec[o]} :
       spec' = [spec EXCEPT ![o] = v]
  /\ Add(o)
  /\ UNCHANGED <<backoff, run, gitVars, clusterVars, tornDown>>

Resync(o) ==
  /\ spec[o] # Deleted
  /\ o \notin dirty
  /\ Add(o)
  /\ UNCHANGED <<spec, backoff, run, gitVars, clusterVars, edits, tornDown>>

(* The delay of the rate limiter is over. *)
AddRateLimited(o) ==
  /\ o \in backoff
  /\ backoff' = backoff \ {o}
  /\ Add(o)
  /\ UNCHANGED <<spec, run, gitVars, clusterVars, edits, tornDown>>

(* Argo CD brings a cluster to what its repository declares. *)
ArgoSync(c) ==
  /\ c \in ops
  /\ ops' = ops \ {c}
  /\ deployed' = [n \in NFs |-> IF Cluster[n] = c THEN manifest[n] ELSE deployed[n]]
  /\ UNCHANGED <<spec, queueVars, run, gitVars, pods, edits, tornDown>>

(* The operator of a cluster starts the pods of an NFDeployment. *)
StartPods(n) ==
  /\ deployed[n] # None
  /\ pods[n] = None
  /\ pods' = [pods EXCEPT ![n] = deployed[n]]
  /\ UNCHANGED <<spec, queueVars, run, gitVars, deployed, ops, edits, tornDown>>

Next ==
  \/ Worker
  \/ \E o \in Objects : EditNFReconfig(o) \/ Resync(o) \/ AddRateLimited(o)
  \/ \E c \in Clusters : ArgoSync(c)
  \/ \E n \in NFs : StartPods(n)

(* As in NFReconfigController; and every delay of the rate limiter ends.    *)
Fairness ==
  /\ WF_vars(Worker)
  /\ \A o \in Objects : WF_vars(AddRateLimited(o))
  /\ \A c \in Clusters : WF_vars(ArgoSync(c))
  /\ \A n \in NFs : WF_vars(StartPods(n))

Spec == Init /\ [][Next]_vars

FairSpec == Spec /\ Fairness

-----------------------------------------------------------------------------
(* The types, and the shape of the workqueue: the keys to be worked on are  *)
(* queued once each, except the one whose run has yet to end.               *)
TypeOK ==
  /\ \A o \in Objects : spec[o] \in Specs(o) \union {Deleted}
  /\ queue \in Seq(Objects)
  /\ {queue[i] : i \in DOMAIN queue} = dirty \ {run.object}
  /\ \A i, j \in DOMAIN queue : queue[i] = queue[j] => i = j
  /\ dirty \subseteq Objects
  /\ backoff \subseteq Objects
  /\ run \in Runs
  /\ manifest \in [NFs -> Contents]
  /\ canonical \subseteq NFs
  /\ deployed \in [NFs -> Contents \union {None}]
  /\ pods \in [NFs -> Contents \union {None}]
  /\ ops \subseteq Clusters
  /\ edits \in [Objects -> Nat]
  /\ commits \in [Objects -> [NFs -> Nat]]
  /\ tornDown \subseteq NFs

Agreed ==
  \A o, p \in Objects : o # p => Named[o] \intersect Named[p] = {}

(* Objects that share an NF but none of its interfaces do not fight over    *)
(* its manifest: each run leaves the other object's addresses alone, so     *)
(* that resyncs do not make them commit, and tear the NF down, in turns.    *)
AgreedCommits ==
  Agreed => \A o \in Objects, n \in NFs : commits[o][n] <= edits[o]

(* The pods of an NF that was torn down and came back run with the          *)
(* addresses of its manifest.  The operator may start pods from the old     *)
(* NFDeployment at any moment of the teardown, Argo CD may run the sync of  *)
(* another object's run in the midst of it: no pod of before is left.       *)
FreshPods ==
  \A n \in tornDown : pods[n] \in {None, manifest[n]}

(* An object that panics whenever it is reconciled, and comes back for      *)
(* ever, does not keep the others from being served.                        *)
EveryObjectServed ==
  \A o \in Objects : \A v \in Specs(o) :
    (spec[o] = v /\ o \in dirty)
      ~> ((run.object = o /\ run.asked = v) \/ spec[o] # v)

CUs == {Elements[o][1] : o \in Objects}

(* Whoever loses its pods to a run and is not a CU gets them back, with the *)
(* addresses of its manifest: the dependents, and the NFs that no object    *)
(* names but that live in the namespace of one that is torn down.           *)
EveryNFRestored ==
  \A n \in NFs \ CUs : (pods[n] = None) ~> (pods[n] = manifest[n])

OneDependentEach == \A o \in Objects : Len(Elements[o]) <= 2

(* That is so of objects with one DU or CU-UP each, whoever shares it, and   *)
(* whatever another object or an earlier one left in its manifest.  (Not    *)
(* with a second dependent: when its manifest is as it should be, the empty *)
(* commit ends the run before the first one's cluster is synced.)           *)
Restored == OneDependentEach => EveryNFRestored

(* What is true of Restored whatever is fair: an NFDeployment that a run    *)
(* deleted is not forgotten.                                                *)
Remembered ==
  OneDependentEach =>
    \A n \in NFs \ CUs : deployed[n] = None =>
      \/ Cluster[n] \in ops \union run.apps
      \/ run.pc = "deletePods" /\ n = CurrentNF

Distinct ==
  \A o \in Objects : \A i, j \in DOMAIN Elements[o] :
    Elements[o][i] = Elements[o][j] => i = j

(* The interfaces that o names have the addresses v in the manifest of n.   *)
Carries(o, n, v) == \A i \in Named[o] : manifest[n][i] = v[i]

(* The NFs of o have the same addresses on the interfaces it names.         *)
Even(o) ==
  \A d, e \in DOMAIN Elements[o] : Carries(o, Elements[o][d], manifest[Elements[o][e]])

(* What o asks for is in the manifests of all its NFs, or its key is still  *)
(* to be worked on.                                                         *)
Served(o) ==
  spec[o] \notin {NoIPv4, Deleted} /\ o \notin dirty /\ run.object # o =>
    \A e \in DOMAIN Elements[o] : Carries(o, Elements[o][e], spec[o])

(* And of EveryObjectServed: once the NFs of an object agree with each      *)
(* other, neither an edit in the middle of a run, nor another object's run  *)
(* over the same manifests, nor the empty commit at which a run ends, ever  *)
(* leaves one of them behind.  (While they disagree one may stay behind: a  *)
(* CU that has what is asked already ends the run before its dependents,    *)
(* which have not.)                                                         *)
AllServed ==
  Agreed /\ Distinct =>
    \A o \in Objects : [](Even(o) /\ run.object # o => []Served(o))

(* DeleteNFDeployment deletes "the NFDeployment CR and matching pods".      *)
OnlyOwnPodsDeleted ==
  [][\A n \in NFs : pods[n] # None /\ pods'[n] = None =>
       run.object # None /\ n = CurrentNF]_vars

=============================================================================
