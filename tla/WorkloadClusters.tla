-------------------------- MODULE WorkloadClusters --------------------------
(***************************************************************************)
(* How a Reconcile gets from the name of a workload cluster to a client of  *)
(* it, and which cluster its deletions and syncs then reach.               *)
(*                                                                         *)
(* GetWorkloadClusterClient makes three reads: the list of Clusters, the    *)
(* kubeconfig Secret, the Cluster once more for its Ready condition.  The   *)
(* manager's client answers the first two from two informer caches and the  *)
(* last, an unstructured read, from the API server.  Clusters are created,  *)
(* deleted and created again meanwhile, under the same name or in another   *)
(* namespace.  NFReconfigController has the call give a client of the named *)
(* cluster or none; here is when that is so.                               *)
(*                                                                         *)
(* A Cluster that was created is a number (its UID); 0 is none.             *)
(***************************************************************************)
EXTENDS Integers, Sequences, FiniteSets

CONSTANTS
  Keys,         \* <<name, namespace>> a Cluster may have
  Requests,     \* the clusters a Reconcile asks for, and what for
  None,         \* no client
  MaxClusters,  \* bound on the Clusters created
  MaxDeletions, \* bound on the Clusters deleted
  MaxFaults     \* bound on the reads that fail

Names == {k[1] : k \in Keys}

(* A Reconcile tears down the CU, syncs its target cluster, and tears down  *)
(* the DUs and CU-UPs, whose clusters it syncs in the end.                  *)
Uses == {"teardown", "sync", "dependent"}

ASSUME RequestsAssumption == Requests \in Seq([name: Names, use: Uses])
ASSUME BoundsAssumption ==
  /\ MaxClusters \in Nat
  /\ MaxDeletions \in Nat
  /\ MaxFaults \in Nat
ASSUME NoneAssumption == None \notin Nat

UIDs == 1 .. MaxClusters

VARIABLES
  cluster,       \* the Clusters in the API server
  secret,        \* the Cluster each kubeconfig Secret is for
  cachedCluster, \* the informer's copy of cluster
  cachedSecret,  \* the informer's copy of secret
  ready,         \* Clusters whose Ready condition is true
  keyOf,         \* of every Cluster created so far: its name and namespace
  deletions,     \* number of Clusters deleted so far
  pc,            \* where the Reconcile is
  step,          \* the element of Requests it is at
  key,           \* capiCluster: name and namespace of the Secret it read
  kubeconfig,    \* the Cluster that Secret is for
  answer,        \* what the call returned: a client or None
  erro,          \* and the error it returned
  apps,          \* uniqueApps: names, and the client of each
  torn,          \* history: Clusters in which this Reconcile deleted for a dependent
  synced,        \* history: Clusters in which it triggered a sync in the end
  everReady,     \* history: Clusters that were Ready once
  faults         \* number of failed reads so far

mgmtVars == <<cluster, secret, ready, keyOf, deletions, everReady>>
cacheVars == <<cachedCluster, cachedSecret>>
callVars == <<key, kubeconfig, answer, erro>>
runVars == <<apps, torn, synced>>
vars == <<mgmtVars, cacheVars, pc, step, callVars, runVars, faults>>

Locations == {"idle", "next", "list", "secret", "ready", "connect", "use", "sync",
              "done", "returned", "failed"}

Absent == [k \in Keys |-> 0]

Init ==
  /\ cluster = Absent
  /\ secret = Absent
  /\ cachedCluster = Absent
  /\ cachedSecret = Absent
  /\ ready = {}
  /\ keyOf = <<>>
  /\ deletions = 0
  /\ pc = "idle"
  /\ step = 0
  /\ key = None
  /\ kubeconfig = 0
  /\ answer = None
  /\ erro = "nil"
  /\ apps = <<>>
  /\ torn = {}
  /\ synced = {}
  /\ everReady = {}
  /\ faults = 0

Request == Requests[step]

NoFault == UNCHANGED faults

Fault ==
  /\ faults < MaxFaults
  /\ faults' = faults + 1

-----------------------------------------------------------------------------
Begin ==
  /\ pc = "idle"
  /\ pc' = "next"
  /\ step' = 1
  /\ UNCHANGED <<mgmtVars, cacheVars, callVars, runVars, faults>>

(* Before the CU and before every dependent there are requests to Gitea, a  *)
(* clone, the rewriting, a commit that may be empty, a push: any of them    *)
(* may end the Reconcile, whatever was torn down before it and without a    *)
(* sync.  A dependent without a match is skipped.  From the CU's teardown   *)
(* to the sync of its target cluster nothing returns.                       *)
NextRequest ==
  /\ pc = "next"
  /\ \/ /\ step \in DOMAIN Requests
        /\ pc' = "list"
        /\ UNCHANGED step
     \/ /\ step \in DOMAIN Requests
        /\ Request.use # "sync"
        /\ pc' = "returned"
        /\ UNCHANGED step
     \/ /\ step \in DOMAIN Requests
        /\ Request.use = "dependent"
        /\ step' = step + 1
        /\ UNCHANGED pc
     \/ /\ step > Len(Requests)
        /\ pc' = "sync"
        /\ UNCHANGED step
  /\ UNCHANGED <<mgmtVars, cacheVars, callVars, runVars, faults>>

(* The locals of a call, when it is over. *)
ForgetCall ==
  /\ key' = None
  /\ kubeconfig' = 0
  /\ answer' = None
  /\ erro' = "nil"

(* GetWorkloadClusterClient returns. *)
Answer(c, e) ==
  /\ pc' = "use"
  /\ answer' = c
  /\ erro' = e

Continue(l) ==
  /\ pc' = l
  /\ UNCHANGED <<answer, erro>>

(* Mutant: the name is not compared. *)
Matches_Any(k) == cachedCluster[k] # 0

(* A Cluster of the name, in whatever namespace. *)
Matches(k) == cachedCluster[k] # 0 /\ k[1] = Request.name

(* The last match counts, in the order of a list from a cache, which has    *)
(* none.  Without a match the name is empty, capiCluster is nil and the     *)
(* method call on it panics.                                                *)
ListClusters ==
  /\ pc = "list"
  /\ \/ /\ \E k \in Keys :
             /\ Matches(k)
             /\ key' = k
        /\ Continue("secret")
        /\ NoFault
     \/ /\ \A k \in Keys : ~ Matches(k)
        /\ Continue("failed")
        /\ UNCHANGED key
        /\ NoFault
     \/ /\ Answer(None, "error")
        /\ UNCHANGED key
        /\ Fault
  /\ UNCHANGED <<mgmtVars, cacheVars, step, kubeconfig, runVars>>

(* Mutant: the Secret is looked for in one namespace, as the function of    *)
(* the same name in package capi does.                                      *)
SecretKey_Fixed == CHOOSE k \in Keys : k[1] = key[1]

SecretKey == key

(* GetCapiClusterFromName.  Its error is logged, and returned by a bare     *)
(* return: a nil client and a nil error.                                    *)
GetSecret ==
  /\ pc = "secret"
  /\ \/ /\ cachedSecret[SecretKey] # 0
        /\ kubeconfig' = cachedSecret[SecretKey]
        /\ Continue("ready")
        /\ NoFault
     \/ /\ cachedSecret[SecretKey] = 0
        /\ Answer(None, "nil")
        /\ UNCHANGED kubeconfig
        /\ NoFault
     \/ /\ Answer(None, "nil")
        /\ UNCHANGED kubeconfig
        /\ Fault
  /\ UNCHANGED <<mgmtVars, cacheVars, step, key, runVars>>

(* Mutant: any Cluster will do. *)
IsReady_Exists(u) == u # 0

IsReady(u) == u \in ready

(* isCapiClusterReady. *)
GetReady ==
  /\ pc = "ready"
  /\ \/ /\ IsReady(cluster[SecretKey])
        /\ Continue("connect")
        /\ NoFault
     \/ /\ ~ IsReady(cluster[SecretKey])
        /\ Answer(None, "error")
        /\ NoFault
     \/ /\ Answer(None, "error")
        /\ Fault
  /\ UNCHANGED <<mgmtVars, cacheVars, step, key, kubeconfig, runVars>>

(* getCapiClusterClient: the client is made from the Secret that was read.  *)
Connect ==
  /\ pc = "connect"
  /\ \/ /\ Answer(kubeconfig, "nil")
        /\ NoFault
     \/ /\ Answer(None, "error")
        /\ Fault
  /\ UNCHANGED <<mgmtVars, cacheVars, step, key, kubeconfig, runVars>>

(* Mutant: the keys of uniqueApps are all the same. *)
AppKey_Constant(name) == "argocd"

AppKey(name) == name

(* The first client a Reconcile got for a name is the one it syncs with.    *)
AddApp ==
  IF AppKey(Request.name) \in DOMAIN apps
  THEN apps
  ELSE [a \in DOMAIN apps \union {AppKey(Request.name)} |->
          IF a \in DOMAIN apps THEN apps[a] ELSE answer]

(* An error is logged and the client used all the same; nil panics.         *)
NoClient ==
  /\ pc' = "failed"
  /\ UNCHANGED step

(* What the caller does with the client: the deletions, or the sync of the  *)
(* target cluster.                                                          *)
UseClient ==
  /\ pc = "use"
  /\ \/ /\ answer = None
        /\ NoClient
        /\ UNCHANGED <<apps, torn>>
     \/ /\ answer # None
        /\ pc' = "next"
        /\ step' = step + 1
        /\ IF Request.use = "dependent"
           THEN /\ apps' = AddApp
                /\ torn' = torn \union {answer}
           ELSE UNCHANGED <<apps, torn>>
  /\ ForgetCall
  /\ UNCHANGED <<mgmtVars, cacheVars, synced, faults>>

(* The loop over uniqueApps. *)
SyncApps ==
  /\ pc = "sync"
  /\ pc' = "done"
  /\ synced' = {apps[a] : a \in DOMAIN apps}
  /\ UNCHANGED <<mgmtVars, cacheVars, step, callVars, apps, torn, faults>>

(* The Reconcile returned, late or early, or its panic was recovered. *)
End ==
  /\ pc \in {"done", "returned", "failed"}
  /\ pc' = "idle"
  /\ step' = 0
  /\ apps' = <<>>
  /\ torn' = {}
  /\ synced' = {}
  /\ ForgetCall
  /\ UNCHANGED <<mgmtVars, cacheVars, faults>>

Worker ==
  \/ NextRequest
  \/ ListClusters
  \/ GetSecret
  \/ GetReady
  \/ Connect
  \/ UseClient
  \/ SyncApps
  \/ End

-----------------------------------------------------------------------------
(* Cluster API.  A Cluster's control plane writes its Secret; the Secret of *)
(* a Cluster that is gone is garbage until it is collected.                 *)
CreateCluster(k) ==
  /\ Len(keyOf) < MaxClusters
  /\ cluster[k] = 0
  /\ cluster' = [cluster EXCEPT ![k] = Len(keyOf) + 1]
  /\ keyOf' = Append(keyOf, k)
  /\ UNCHANGED <<secret, ready, deletions, everReady, cacheVars, pc, step,
                 callVars, runVars, faults>>

WriteSecret(k) ==
  /\ cluster[k] # 0
  /\ secret[k] = 0
  /\ secret' = [secret EXCEPT ![k] = cluster[k]]
  /\ UNCHANGED <<cluster, ready, keyOf, deletions, everReady, cacheVars, pc, step,
                 callVars, runVars, faults>>

BecomeReady(k) ==
  /\ cluster[k] # 0
  /\ secret[k] = cluster[k]
  /\ cluster[k] \notin ready
  /\ ready' = ready \union {cluster[k]}
  /\ everReady' = everReady \union {cluster[k]}
  /\ UNCHANGED <<cluster, secret, keyOf, deletions, cacheVars, pc, step, callVars,
                 runVars, faults>>

LoseReady(k) ==
  /\ cluster[k] \in ready
  /\ ready' = ready \ {cluster[k]}
  /\ UNCHANGED <<cluster, secret, keyOf, deletions, everReady, cacheVars, pc, step,
                 callVars, runVars, faults>>

DeleteCluster(k) ==
  /\ cluster[k] # 0
  /\ deletions < MaxDeletions
  /\ deletions' = deletions + 1
  /\ cluster' = [cluster EXCEPT ![k] = 0]
  /\ ready' = ready \ {cluster[k]}
  /\ UNCHANGED <<secret, keyOf, everReady, cacheVars, pc, step, callVars, runVars,
                 faults>>

CollectSecret(k) ==
  /\ secret[k] # 0
  /\ secret[k] # cluster[k]
  /\ secret' = [secret EXCEPT ![k] = 0]
  /\ UNCHANGED <<cluster, ready, keyOf, deletions, everReady, cacheVars, pc, step,
                 callVars, runVars, faults>>

(* The two watches of the manager's cache, each at its own pace.            *)
DeliverCluster(k) ==
  /\ cachedCluster[k] # cluster[k]
  /\ cachedCluster' = [cachedCluster EXCEPT ![k] = cluster[k]]
  /\ UNCHANGED <<mgmtVars, cachedSecret, pc, step, callVars, runVars, faults>>

DeliverSecret(k) ==
  /\ cachedSecret[k] # secret[k]
  /\ cachedSecret' = [cachedSecret EXCEPT ![k] = secret[k]]
  /\ UNCHANGED <<mgmtVars, cachedCluster, pc, step, callVars, runVars, faults>>

ClusterAPI(k) ==
  \/ CreateCluster(k)
  \/ WriteSecret(k)
  \/ BecomeReady(k)
  \/ LoseReady(k)
  \/ DeleteCluster(k)
  \/ CollectSecret(k)

Next ==
  \/ Begin
  \/ Worker
  \/ \E k \in Keys : ClusterAPI(k) \/ DeliverCluster(k) \/ DeliverSecret(k)

(* A Reconcile goes on and the watches deliver.  Nothing is assumed of the  *)
(* clusters, nor that another Reconcile begins.                             *)
Fairness ==
  /\ WF_vars(Worker)
  /\ \A k \in Keys : WF_vars(DeliverCluster(k)) /\ WF_vars(DeliverSecret(k))

Spec == Init /\ [][Next]_vars

FairSpec == Spec /\ Fairness

-----------------------------------------------------------------------------
TypeOK ==
  /\ cluster \in [Keys -> 0 .. MaxClusters]
  /\ secret \in [Keys -> 0 .. MaxClusters]
  /\ cachedCluster \in [Keys -> 0 .. MaxClusters]
  /\ cachedSecret \in [Keys -> 0 .. MaxClusters]
  /\ ready \in SUBSET UIDs
  /\ keyOf \in Seq(Keys)
  /\ Len(keyOf) <= MaxClusters
  /\ deletions \in Nat
  /\ pc \in Locations
  /\ step \in Nat
  /\ key \in Keys \union {None}
  /\ kubeconfig \in 0 .. MaxClusters
  /\ answer \in UIDs \union {None}
  /\ erro \in {"nil", "error"}
  /\ DOMAIN apps \subseteq Names
  /\ \A a \in DOMAIN apps : apps[a] \in UIDs
  /\ torn \in SUBSET UIDs
  /\ synced \in SUBSET UIDs
  /\ everReady \in SUBSET UIDs
  /\ faults \in Nat

(* The client a Reconcile deletes or syncs with is one of a cluster of the  *)
(* name it asked for, whatever was created, deleted and created again under *)
(* that name between the three reads.                                       *)
ClientOfNamedCluster ==
  pc = "use" /\ answer # None => keyOf[answer][1] = Request.name

(* Nothing is done in a cluster that never got Ready: the one deleted in or  *)
(* synced was Ready once, or it is gone and one that was created after it    *)
(* under its name and namespace was.  (Secret and Ready condition are read   *)
(* one after the other, one from a cache, one not, so that the Secret may be *)
(* of a dead predecessor of the Cluster that is Ready; never of a successor.)*)
ReadyBeforeUse ==
  pc = "use" /\ answer # None =>
    \E u \in everReady : keyOf[u] = keyOf[answer] /\ answer <= u

(* Where a DU or CU-UP was torn down, Argo CD is told to create it again.   *)
(* When a Reconcile comes to its syncs at all (an early return leaves them  *)
(* out), it syncs only clusters it tore a dependent down in, and misses one *)
(* of these only if it tore down in another of the same name as well and    *)
(* syncs that one: the client uniqueApps keeps of a name is the first.      *)
SyncReachesTornDown ==
  pc = "done" =>
    /\ synced \subseteq torn
    /\ \A u \in torn \ synced :
         \E other \in synced : other # u /\ keyOf[other][1] = keyOf[u][1]

Stable(n) ==
  \E k \in Keys :
    /\ k[1] = n
    /\ cluster[k] \in ready
    /\ secret[k] = cluster[k]
    /\ \A other \in Keys : other[1] = n /\ other # k => cluster[other] = 0

(* When all the clusters are there and stay Ready, Reconciles do not go on  *)
(* failing to reach them, in whichever namespace the clusters are.          *)
ReachedWhenStable ==
  <>[](\A i \in DOMAIN Requests : Stable(Requests[i].name)) => <>[](pc # "failed")
=============================================================================
