----------------------- MODULE WorkloadClusters_proofs -----------------------
(* Theorems about WorkloadClusters, for all clusters and requests. *)
EXTENDS WorkloadClusters, SequenceTheorems, TLAPS

(***************************************************************************)
(* Why the invariants hold: inductive ones.                                 *)
(***************************************************************************)
InCall == {"list", "secret", "ready", "connect", "use"}

(* A call is made for one of the requests. *)
StepInv ==
  /\ pc \in InCall => step \in DOMAIN Requests
  /\ pc \in {"secret", "ready", "connect"} => key \in Keys
  /\ pc \in {"ready", "connect"} => kubeconfig \in UIDs

IsOf(u, k) == u \in 1 .. Len(keyOf) /\ keyOf[u] = k

(* Whatever is kept under a name and namespace, in the API server or in a   *)
(* cache, is a Cluster created under them, if not always the latest.        *)
KeptInv ==
  \A k \in Keys :
    /\ cluster[k] # 0 => IsOf(cluster[k], k)
    /\ secret[k] # 0 => IsOf(secret[k], k)
    /\ cachedCluster[k] # 0 => IsOf(cachedCluster[k], k)
    /\ cachedSecret[k] # 0 => IsOf(cachedSecret[k], k)

(* And so is what a call has read. *)
ReadInv ==
  /\ pc \in {"secret", "ready", "connect"} => key[1] = Request.name
  /\ pc \in {"ready", "connect"} => IsOf(kubeconfig, key)
  /\ pc = "use" /\ answer # None =>
       \E k \in Keys : IsOf(answer, k) /\ k[1] = Request.name

NamedInv == KeptInv /\ ReadInv

(* A name in uniqueApps goes with a Cluster of that name that was torn down *)
(* in, and the name of every Cluster torn down in is there.                 *)
AppsInv ==
  /\ \A a \in DOMAIN apps :
       apps[a] \in torn /\ \E k \in Keys : k[1] = a /\ IsOf(apps[a], k)
  /\ \A u \in torn : \E k \in Keys : k[1] \in DOMAIN apps /\ IsOf(u, k)
  /\ pc = "done" => synced = {apps[a] : a \in DOMAIN apps}

(* A Secret, and the copy of it, is never of a successor of the Cluster     *)
(* that is there, and what a call has of it was Ready or has a successor    *)
(* that was.                                                                *)
ReadyInv ==
  /\ ready \subseteq everReady
  /\ \A k \in Keys : cluster[k] # 0 =>
       /\ secret[k] <= cluster[k]
       /\ cachedSecret[k] <= cluster[k]
       /\ pc = "ready" /\ key = k => kubeconfig <= cluster[k]
  /\ pc = "connect" => \E u \in everReady : IsOf(u, key) /\ kubeconfig <= u
  /\ pc = "use" /\ answer # None =>
       \E u \in everReady : IsOf(u, keyOf[answer]) /\ answer <= u

-----------------------------------------------------------------------------
TypeInv == TypeOK /\ StepInv

LEMMA RequestType ==
  ASSUME StepInv, pc \in InCall
  PROVE  Request.name \in Names /\ Request.use \in Uses /\ step \in Nat
<1>1. step \in 1 .. Len(Requests)
  BY RequestsAssumption DEF StepInv
<1>2. Requests[step] \in [name: Names, use: Uses]
  <2> DEFINE R == [name: Names, use: Uses]
  <2>1. Requests \in Seq(R)
    BY RequestsAssumption
  <2> HIDE DEF R
  <2>2. Requests[step] \in R
    BY <1>1, <2>1, ElementOfSeq
  <2> QED BY <2>2 DEF R
<1> QED BY <1>1, <1>2 DEF Request

LEMMA TypeInit == Init => TypeInv
<1> SUFFICES ASSUME Init PROVE TypeInv
  OBVIOUS
<1>1. Absent \in [Keys -> 0 .. MaxClusters]
  BY BoundsAssumption DEF Absent
<1>2. keyOf \in Seq(Keys) /\ Len(keyOf) = 0
  BY DEF Init
<1>3. DOMAIN apps = {}
  BY DEF Init
<1>4. \A a \in DOMAIN apps : apps[a] \in UIDs
  BY <1>3
<1>5. pc = "idle"
  BY DEF Init
<1>6. StepInv
  BY <1>5 DEF StepInv, InCall
<1>7. 0 \in 0 .. MaxClusters
  BY BoundsAssumption
<1>8. TypeOK
  BY <1>1, <1>2, <1>3, <1>4, <1>5, <1>7, BoundsAssumption DEF Init, TypeOK, Locations
<1> QED BY <1>6, <1>8 DEF TypeInv

(* A call of GetWorkloadClusterClient keeps the types. *)
LEMMA TypeCall ==
  ASSUME TypeInv, Begin \/ NextRequest \/ ListClusters \/ GetSecret \/ GetReady \/ Connect
  PROVE  TypeInv'
<1> USE BoundsAssumption, NoneAssumption
<1> USE DEF TypeInv, TypeOK, StepInv, InCall, Locations, mgmtVars, cacheVars,
            callVars, runVars, NoFault, Fault
<1>1. CASE Begin \/ NextRequest
  <2>1. UNCHANGED <<mgmtVars, cacheVars, callVars, runVars, faults>>
    BY <1>1 DEF Begin, NextRequest
  <2>2. pc' \in {"next", "list", "returned", "sync"} /\ step' \in Nat
    BY <1>1 DEF Begin, NextRequest
  <2>3. pc' = "list" => step' \in DOMAIN Requests
    BY <1>1 DEF Begin, NextRequest
  <2> QED BY <2>1, <2>2, <2>3
<1>2. CASE ListClusters
  <2>1. /\ pc' \in {"secret", "failed", "use"}
        /\ pc' = "secret" => key' \in Keys
        /\ key' \in Keys \union {None}
        /\ answer' \in UIDs \union {None}
        /\ erro' \in {"nil", "error"}
        /\ faults' \in Nat
    BY <1>2 DEF ListClusters, Continue, Answer
  <2> QED BY <1>2, <2>1 DEF ListClusters
<1>3. CASE GetSecret
  <2>1. key \in Keys /\ cachedSecret[key] \in 0 .. MaxClusters
    BY <1>3 DEF GetSecret
  <2>2. CASE pc' = "ready"
    <3>1. kubeconfig' = cachedSecret[key] /\ cachedSecret[key] # 0
      BY <1>3, <2>2 DEF GetSecret, SecretKey, Continue, Answer
    <3>2. kubeconfig' \in UIDs
      BY <2>1, <3>1 DEF UIDs
    <3> QED BY <1>3, <2>1, <2>2, <3>1, <3>2 DEF GetSecret, Continue, Answer
  <2>3. CASE pc' = "use"
    <3>1. UNCHANGED kubeconfig /\ answer' = None /\ erro' = "nil" /\ faults' \in Nat
      BY <1>3, <2>3 DEF GetSecret, Continue, Answer
    <3> QED BY <1>3, <2>3, <3>1 DEF GetSecret
  <2> QED BY <1>3, <2>2, <2>3 DEF GetSecret, Continue, Answer
<1>4. CASE GetReady
  BY <1>4 DEF GetReady, Continue, Answer
<1>5. CASE Connect
  BY <1>5 DEF Connect, Answer
<1> QED BY <1>1, <1>2, <1>3, <1>4, <1>5

(* So does what the Reconcile does with the client. *)
LEMMA TypeUse ==
  ASSUME TypeInv, UseClient \/ SyncApps \/ End
  PROVE  TypeInv'
<1> USE BoundsAssumption, NoneAssumption
<1> USE DEF TypeInv, TypeOK, StepInv, InCall, Locations, mgmtVars, cacheVars,
            callVars, runVars, ForgetCall
<1>1. CASE UseClient
  <2>1. pc' \in {"next", "failed"} /\ step' \in Nat
    BY <1>1 DEF UseClient, NoClient
  <2>2. DOMAIN apps' \subseteq Names /\ \A a \in DOMAIN apps' : apps'[a] \in UIDs
    <3>1. CASE apps' = apps
      BY <3>1
    <3>2. CASE apps' = AddApp /\ answer # None
      <4>1. answer \in UIDs
        BY <3>2
      <4>2. Request.name \in Names
        BY <1>1, RequestType DEF UseClient
      <4> QED BY <3>2, <4>1, <4>2 DEF AddApp, AppKey
    <3> QED BY <1>1, <3>1, <3>2 DEF UseClient
  <2>3. torn' \in SUBSET UIDs
    BY <1>1 DEF UseClient
  <2> QED BY <1>1, <2>1, <2>2, <2>3 DEF UseClient
<1>2. CASE SyncApps
  BY <1>2 DEF SyncApps
<1>3. CASE End
  <2>1. DOMAIN apps' = {}
    BY <1>3 DEF End
  <2> QED BY <1>3, <2>1 DEF End
<1> QED BY <1>1, <1>2, <1>3

(* And so do the clusters and the caches, which leave the Reconcile alone.  *)
LEMMA TypeEnvironment ==
  ASSUME TypeInv, NEW k \in Keys,
         ClusterAPI(k) \/ DeliverCluster(k) \/ DeliverSecret(k)
  PROVE  TypeInv'
<1> USE BoundsAssumption
<1>1. StepInv'
  BY DEF TypeInv, StepInv, ClusterAPI, CreateCluster, WriteSecret, BecomeReady, LoseReady,
         DeleteCluster, CollectSecret, DeliverCluster, DeliverSecret, callVars
<1> USE DEF TypeInv, TypeOK, mgmtVars, cacheVars, callVars, runVars
<1>2. CASE CreateCluster(k)
  <2>1. Len(keyOf) \in Nat /\ keyOf' \in Seq(Keys) /\ Len(keyOf') = Len(keyOf) + 1
    BY <1>2 DEF CreateCluster
  <2> QED BY <1>1, <1>2, <2>1 DEF CreateCluster
<1>3. CASE WriteSecret(k)
  BY <1>1, <1>3 DEF WriteSecret
<1>4. CASE BecomeReady(k)
  <2>1. cluster[k] \in UIDs
    BY <1>4 DEF BecomeReady, UIDs
  <2> QED BY <1>1, <1>4, <2>1 DEF BecomeReady
<1>5. CASE LoseReady(k)
  BY <1>1, <1>5 DEF LoseReady
<1>6. CASE DeleteCluster(k)
  BY <1>1, <1>6 DEF DeleteCluster
<1>7. CASE CollectSecret(k)
  BY <1>1, <1>7 DEF CollectSecret
<1>8. CASE DeliverCluster(k)
  BY <1>1, <1>8 DEF DeliverCluster
<1>9. CASE DeliverSecret(k)
  BY <1>1, <1>9 DEF DeliverSecret
<1> QED BY <1>2, <1>3, <1>4, <1>5, <1>6, <1>7, <1>8, <1>9 DEF ClusterAPI

LEMMA TypeStutter == ASSUME TypeInv, UNCHANGED vars PROVE TypeInv'
BY DEF TypeInv, TypeOK, StepInv, vars, mgmtVars, cacheVars, callVars, runVars

(* Types, and where the call is: the base of the theorems below. *)
THEOREM TypeCorrect == Spec => []TypeInv
<1>1. TypeInv /\ [Next]_vars => TypeInv'
  BY TypeCall, TypeUse, TypeEnvironment, TypeStutter DEF Next, Worker
<1> QED BY TypeInit, <1>1, PTL DEF Spec

(* Every variable keeps its type: apps are kept by the clusters' names. *)
THEOREM TypeSafety == Spec => []TypeOK
<1>1. TypeInv => TypeOK
  BY DEF TypeInv
<1> QED BY <1>1, TypeCorrect, PTL

-----------------------------------------------------------------------------
(***************************************************************************)
(* The client is one of the named cluster.                                 *)
(***************************************************************************)
LEMMA NamedInit == Init => NamedInv
BY DEF Init, NamedInv, KeptInv, ReadInv, Absent

(* What a number stands for never changes. *)
LEMMA CreatedForGood ==
  ASSUME TypeInv, NEW k \in Keys, keyOf' = Append(keyOf, k)
  PROVE  /\ \A u, j : IsOf(u, j) => IsOf(u, j)'
         /\ \A u : u = Len(keyOf) + 1 => IsOf(u, k)'
<1>1. keyOf \in Seq(Keys) /\ Len(keyOf) \in Nat
  BY DEF TypeInv, TypeOK
<1>2. Len(keyOf') = Len(keyOf) + 1 /\ keyOf'[Len(keyOf) + 1] = k
  BY <1>1
<1>3. \A u \in 1 .. Len(keyOf) : keyOf'[u] = keyOf[u]
  BY <1>1
<1> QED BY <1>1, <1>2, <1>3 DEF IsOf

LEMMA NamedCall ==
  ASSUME TypeInv, NamedInv,
         Begin \/ NextRequest \/ ListClusters \/ GetSecret \/ GetReady \/ Connect
  PROVE  NamedInv'
<1> USE DEF TypeInv, TypeOK, StepInv, InCall, NamedInv, KeptInv, ReadInv, IsOf, mgmtVars, cacheVars,
            callVars, runVars, Request
<1>1. CASE Begin \/ NextRequest
  BY <1>1 DEF Begin, NextRequest
<1>2. CASE ListClusters
  BY <1>2 DEF ListClusters, Matches, Continue, Answer
<1>3. CASE GetSecret
  BY <1>3 DEF GetSecret, SecretKey, Continue, Answer
<1>4. CASE GetReady
  BY <1>4 DEF GetReady, Continue, Answer
<1>5. CASE Connect
  BY <1>5 DEF Connect, Answer
<1> QED BY <1>1, <1>2, <1>3, <1>4, <1>5

LEMMA NamedUse ==
  ASSUME NamedInv, UseClient \/ SyncApps \/ End \/ UNCHANGED vars
  PROVE  NamedInv'
<1> USE DEF NamedInv, KeptInv, ReadInv, IsOf, Request, mgmtVars, cacheVars, callVars
<1>1. CASE UseClient
  BY <1>1 DEF UseClient, NoClient
<1>2. CASE SyncApps
  BY <1>2 DEF SyncApps
<1>3. CASE End
  BY <1>3 DEF End
<1>4. CASE UNCHANGED vars
  BY <1>4 DEF vars
<1> QED BY <1>1, <1>2, <1>3, <1>4

LEMMA NamedEnvironment ==
  ASSUME TypeInv, NamedInv, NEW k \in Keys,
         ClusterAPI(k) \/ DeliverCluster(k) \/ DeliverSecret(k)
  PROVE  NamedInv'
<1>1. CASE CreateCluster(k)
  <2>1. keyOf' = Append(keyOf, k) /\ cluster' = [cluster EXCEPT ![k] = Len(keyOf) + 1]
    BY <1>1 DEF CreateCluster
  <2>2. /\ \A u, j : IsOf(u, j) => IsOf(u, j)'
        /\ \A u : u = Len(keyOf) + 1 => IsOf(u, k)'
    BY <2>1, CreatedForGood
  <2>3. UNCHANGED <<secret, cachedCluster, cachedSecret, pc, step, key, kubeconfig, answer>>
    BY <1>1 DEF CreateCluster, cacheVars, callVars
  <2>4. KeptInv'
    <3>1. \A j \in Keys : cluster'[j] = IF j = k THEN Len(keyOf) + 1 ELSE cluster[j]
      BY <2>1 DEF TypeInv, TypeOK
    <3>2. SUFFICES ASSUME NEW j \in Keys
                   PROVE  (/\ cluster[j] # 0 => IsOf(cluster[j], j)
                           /\ secret[j] # 0 => IsOf(secret[j], j)
                           /\ cachedCluster[j] # 0 => IsOf(cachedCluster[j], j)
                           /\ cachedSecret[j] # 0 => IsOf(cachedSecret[j], j))'
      BY DEF KeptInv
    <3>3. (cluster[j] # 0 => IsOf(cluster[j], j))'
      <4>1. CASE j = k
        BY <4>1, <2>2, <3>1 DEF IsOf
      <4>2. CASE j # k
        BY <4>2, <2>2, <3>1 DEF NamedInv, KeptInv, IsOf
      <4> QED BY <4>1, <4>2
    <3> QED BY <2>2, <2>3, <3>3 DEF NamedInv, KeptInv, IsOf
  <2>5. ReadInv'
    BY <2>2, <2>3 DEF NamedInv, ReadInv, IsOf, Request
  <2> QED BY <2>4, <2>5 DEF NamedInv
<1> USE DEF TypeInv, TypeOK, NamedInv, KeptInv, ReadInv, IsOf, Request, mgmtVars, cacheVars,
            callVars
<1>2. CASE WriteSecret(k)
  BY <1>2 DEF WriteSecret
<1>3. CASE BecomeReady(k)
  BY <1>3 DEF BecomeReady
<1>4. CASE LoseReady(k)
  BY <1>4 DEF LoseReady
<1>5. CASE DeleteCluster(k)
  BY <1>5 DEF DeleteCluster
<1>6. CASE CollectSecret(k)
  BY <1>6 DEF CollectSecret
<1>7. CASE DeliverCluster(k)
  BY <1>7 DEF DeliverCluster
<1>8. CASE DeliverSecret(k)
  BY <1>8 DEF DeliverSecret
<1> QED BY <1>1, <1>2, <1>3, <1>4, <1>5, <1>6, <1>7, <1>8 DEF ClusterAPI

(* The client a Reconcile is given is one of a cluster of the name it asked *)
(* for, however its three reads and the clusters' lives interleave.         *)
THEOREM NamedClient == Spec => []ClientOfNamedCluster
<1>1. TypeInv /\ NamedInv /\ [Next]_vars => NamedInv'
  BY NamedCall, NamedUse, NamedEnvironment DEF Next, Worker
<1>2. NamedInv => ClientOfNamedCluster
  BY DEF NamedInv, ReadInv, ClientOfNamedCluster, IsOf
<1> QED BY NamedInit, TypeCorrect, <1>1, <1>2, PTL DEF Spec

-----------------------------------------------------------------------------
(***************************************************************************)
(* It is of a cluster that was Ready, or of a predecessor of one.          *)
(***************************************************************************)
LEMMA ReadyInit == Init => ReadyInv
BY DEF Init, ReadyInv, Absent

LEMMA ReadyCall ==
  ASSUME TypeInv, NamedInv, ReadyInv,
         Begin \/ NextRequest \/ ListClusters \/ GetSecret \/ GetReady \/ Connect
  PROVE  ReadyInv'
<1> USE DEF TypeInv, TypeOK, StepInv, ReadyInv, IsOf, mgmtVars, cacheVars, callVars, runVars
<1>1. CASE Begin \/ NextRequest
  BY <1>1 DEF Begin, NextRequest
<1>2. CASE ListClusters
  BY <1>2 DEF ListClusters, Continue, Answer
<1>3. CASE GetSecret
  BY <1>3 DEF GetSecret, SecretKey, Continue, Answer
<1>4. CASE GetReady
  <2>1. key \in Keys
    BY <1>4 DEF GetReady
  <2>2. CASE pc' = "connect"
    <3>1. /\ cluster[key] \in ready
          /\ UNCHANGED <<key, kubeconfig, keyOf, everReady>>
      BY <1>4, <2>2 DEF GetReady, IsReady, SecretKey, Answer
    <3>2. cluster[key] \in everReady /\ cluster[key] # 0
      <4>1. ready \subseteq UIDs /\ ready \subseteq everReady
        OBVIOUS
      <4>2. cluster[key] \in UIDs
        BY <3>1, <4>1
      <4>3. 0 \notin UIDs
        BY BoundsAssumption DEF UIDs
      <4> HIDE DEF IsOf, ReadyInv
      <4> QED BY <3>1, <4>1, <4>2, <4>3
    <3>3. IsOf(cluster[key], key) /\ kubeconfig <= cluster[key]
      BY <1>4, <2>1, <3>2 DEF GetReady, NamedInv, KeptInv
    <3> QED BY <1>4, <2>2, <3>1, <3>2, <3>3 DEF GetReady
  <2>3. CASE pc' = "use"
    BY <1>4, <2>3 DEF GetReady, Continue, Answer
  <2> QED BY <1>4, <2>2, <2>3 DEF GetReady, Continue, Answer
<1>5. CASE Connect
  <2>1. PICK u \in everReady : IsOf(u, key) /\ kubeconfig <= u
    BY <1>5 DEF Connect
  <2>2. keyOf[kubeconfig] = key
    BY <1>5 DEF Connect, NamedInv, ReadInv
  <2> QED BY <1>5, <2>1, <2>2 DEF Connect, Answer
<1> QED BY <1>1, <1>2, <1>3, <1>4, <1>5

LEMMA ReadyUse ==
  ASSUME ReadyInv, UseClient \/ SyncApps \/ End \/ UNCHANGED vars
  PROVE  ReadyInv'
<1> USE DEF ReadyInv, IsOf, mgmtVars, cacheVars, callVars, ForgetCall
<1>1. CASE UseClient
  BY <1>1 DEF UseClient, NoClient
<1>2. CASE SyncApps
  BY <1>2 DEF SyncApps
<1>3. CASE End
  BY <1>3 DEF End
<1>4. CASE UNCHANGED vars
  BY <1>4 DEF vars
<1> QED BY <1>1, <1>2, <1>3, <1>4

(* A Cluster is created after everything that is kept of its predecessors.  *)
LEMMA ReadyCreate ==
  ASSUME TypeInv, NamedInv, ReadyInv, NEW k \in Keys, CreateCluster(k)
  PROVE  ReadyInv'
<1>1. /\ keyOf' = Append(keyOf, k)
      /\ cluster' = [cluster EXCEPT ![k] = Len(keyOf) + 1]
      /\ UNCHANGED <<secret, cachedSecret, ready, everReady, pc, key, kubeconfig, answer>>
  BY DEF CreateCluster, cacheVars, callVars
<1>2. \A u, j : IsOf(u, j) => IsOf(u, j)'
  BY <1>1, CreatedForGood
<1>3. \A j \in Keys : cluster'[j] = IF j = k THEN Len(keyOf) + 1 ELSE cluster[j]
  BY <1>1 DEF TypeInv, TypeOK
<1>4. /\ Len(keyOf) \in Nat
      /\ secret[k] <= Len(keyOf)
      /\ cachedSecret[k] <= Len(keyOf)
      /\ pc = "ready" /\ key = k => kubeconfig <= Len(keyOf)
  <2>1. /\ Len(keyOf) \in Nat
        /\ secret[k] \in Nat /\ cachedSecret[k] \in Nat
    BY BoundsAssumption DEF TypeInv, TypeOK
  <2>2. /\ secret[k] # 0 => secret[k] \in 1 .. Len(keyOf)
        /\ cachedSecret[k] # 0 => cachedSecret[k] \in 1 .. Len(keyOf)
        /\ pc = "ready" => kubeconfig \in 1 .. Len(keyOf)
    BY DEF NamedInv, KeptInv, ReadInv, IsOf
  <2> QED BY <2>1, <2>2
<1>5. \A j \in Keys : cluster'[j] # 0 =>
        /\ secret[j] <= cluster'[j]
        /\ cachedSecret[j] <= cluster'[j]
        /\ pc = "ready" /\ key = j => kubeconfig <= cluster'[j]
  <2>1. /\ \A j \in Keys : secret[j] \in Nat /\ cachedSecret[j] \in Nat
        /\ kubeconfig \in Nat
    BY BoundsAssumption DEF TypeInv, TypeOK
  <2>2. SUFFICES ASSUME NEW j \in Keys, cluster'[j] # 0
                 PROVE  /\ secret[j] <= cluster'[j]
                        /\ cachedSecret[j] <= cluster'[j]
                        /\ pc = "ready" /\ key = j => kubeconfig <= cluster'[j]
    OBVIOUS
  <2>3. CASE j = k
    BY <1>3, <1>4, <2>1, <2>3
  <2>4. CASE j # k
    BY <1>3, <2>2, <2>4 DEF ReadyInv
  <2> QED BY <2>3, <2>4
<1>6. pc = "connect" => \E u \in everReady : IsOf(u, key)' /\ kubeconfig <= u
  BY <1>1, <1>2 DEF ReadyInv
<1>7. ASSUME pc = "use", answer # None
      PROVE  \E u \in everReady : IsOf(u, keyOf[answer])' /\ answer <= u
  <2>1. PICK u \in everReady : IsOf(u, keyOf[answer]) /\ answer <= u
    BY <1>7 DEF ReadyInv
  <2>2. IsOf(answer, keyOf[answer])
    BY <1>7 DEF NamedInv, ReadInv, IsOf
  <2>3. keyOf'[answer] = keyOf[answer]
    BY <1>2, <2>2 DEF IsOf
  <2> QED BY <1>1, <1>2, <2>1, <2>3 DEF IsOf
<1> QED BY <1>1, <1>5, <1>6, <1>7 DEF ReadyInv, IsOf

LEMMA ReadyEnvironment ==
  ASSUME TypeInv, NamedInv, ReadyInv, NEW k \in Keys,
         ClusterAPI(k) \/ DeliverCluster(k) \/ DeliverSecret(k)
  PROVE  ReadyInv'
<1>1. CASE CreateCluster(k)
  BY <1>1, ReadyCreate
<1> USE BoundsAssumption
<1> USE DEF TypeInv, TypeOK, ReadyInv, IsOf, mgmtVars, cacheVars, callVars
<1>2. CASE WriteSecret(k)
  <2>1. /\ \A j \in Keys : secret'[j] \in {secret[j], cluster[k]} /\ (j # k => secret'[j] = secret[j])
        /\ UNCHANGED <<cluster, cachedSecret, ready, keyOf, everReady, pc, key, kubeconfig,
                       answer>>
    BY <1>2 DEF WriteSecret
  <2>2. \A j \in Keys :
          /\ cluster[j] \in Nat /\ secret[j] \in Nat
          /\ cluster[j] # 0 => secret[j] <= cluster[j]
    OBVIOUS
  <2>3. \A j \in Keys : cluster[j] # 0 => secret'[j] <= cluster[j]
    BY ONLY <2>1, <2>2
  <2> QED BY <2>1, <2>3
<1>3. CASE BecomeReady(k)
  BY <1>3 DEF BecomeReady
<1>4. CASE LoseReady(k)
  BY <1>4 DEF LoseReady
<1>5. CASE DeleteCluster(k)
  BY <1>5 DEF DeleteCluster
<1>6. CASE CollectSecret(k)
  <2>1. /\ \A j \in Keys : secret'[j] \in {secret[j], 0} /\ (j # k => secret'[j] = secret[j])
        /\ UNCHANGED <<cluster, cachedSecret, ready, keyOf, everReady, pc, key, kubeconfig,
                       answer>>
    BY <1>6 DEF CollectSecret
  <2>2. \A j \in Keys :
          /\ cluster[j] \in Nat /\ secret[j] \in Nat
          /\ cluster[j] # 0 => secret[j] <= cluster[j]
    OBVIOUS
  <2>3. \A j \in Keys : cluster[j] # 0 => secret'[j] <= cluster[j]
    BY ONLY <2>1, <2>2
  <2> QED BY <2>1, <2>3
<1>7. CASE DeliverCluster(k)
  BY <1>7 DEF DeliverCluster
<1>8. CASE DeliverSecret(k)
  BY <1>8 DEF DeliverSecret
<1> QED BY <1>1, <1>2, <1>3, <1>4, <1>5, <1>6, <1>7, <1>8 DEF ClusterAPI

(* The client a Reconcile works with is of a Cluster that was Ready, or of  *)
(* a dead one whose successor was, however late the two caches are and      *)
(* whatever is deleted and created again between the three reads.           *)
THEOREM ReadyClient == Spec => []ReadyBeforeUse
<1>1. TypeInv /\ NamedInv /\ [Next]_vars => NamedInv'
  BY NamedCall, NamedUse, NamedEnvironment DEF Next, Worker
<1>2. TypeInv /\ NamedInv /\ ReadyInv /\ [Next]_vars => ReadyInv'
  BY ReadyCall, ReadyUse, ReadyEnvironment DEF Next, Worker
<1>3. ReadyInv => ReadyBeforeUse
  BY DEF ReadyInv, ReadyBeforeUse, IsOf
<1> QED BY NamedInit, ReadyInit, TypeCorrect, <1>1, <1>2, <1>3, PTL DEF Spec

-----------------------------------------------------------------------------
(***************************************************************************)
(* Where a dependent was torn down, there is a sync.                       *)
(***************************************************************************)
LEMMA AppsInit == Init => AppsInv
BY DEF Init, AppsInv

(* The client a dependent's deletions use is entered, or one of its name is *)
(* there already.                                                           *)
LEMMA AppsUse ==
  ASSUME TypeInv, NamedInv, AppsInv, UseClient
  PROVE  AppsInv'
<1>1. UNCHANGED <<keyOf, synced>> /\ pc' # "done"
  BY DEF UseClient, NoClient, mgmtVars
<1>2. \A u, k : IsOf(u, k)' = IsOf(u, k)
  BY <1>1 DEF IsOf
<1>3. CASE UNCHANGED <<apps, torn>>
  BY <1>1, <1>2, <1>3 DEF AppsInv
<1>4. CASE answer # None /\ apps' = AddApp /\ torn' = torn \union {answer}
  <2>1. PICK k \in Keys : IsOf(answer, k) /\ k[1] = Request.name
    BY <1>4 DEF NamedInv, ReadInv, UseClient
  <2>2. /\ DOMAIN apps' = DOMAIN apps \union {Request.name}
        /\ \A a \in DOMAIN apps : apps'[a] = apps[a]
        /\ Request.name \notin DOMAIN apps => apps'[Request.name] = answer
    BY <1>4 DEF AddApp, AppKey
  <2>3. \A a \in DOMAIN apps' :
          apps'[a] \in torn' /\ \E j \in Keys : j[1] = a /\ IsOf(apps'[a], j)
    BY <1>4, <2>1, <2>2 DEF AppsInv
  <2>4. \A u \in torn' : \E j \in Keys : j[1] \in DOMAIN apps' /\ IsOf(u, j)
    BY <1>4, <2>1, <2>2 DEF AppsInv
  <2> QED BY <1>1, <1>2, <2>3, <2>4 DEF AppsInv
<1> QED BY <1>3, <1>4 DEF UseClient

LEMMA AppsNext ==
  ASSUME TypeInv, NamedInv, AppsInv, [Next]_vars
  PROVE  AppsInv'
<1>1. CASE UNCHANGED <<keyOf, apps, torn, synced>> /\ pc' # "done"
  BY <1>1 DEF AppsInv, IsOf
<1>2. CASE Begin \/ NextRequest \/ ListClusters \/ GetSecret \/ GetReady \/ Connect
  BY <1>1, <1>2
  DEF Begin, NextRequest, ListClusters, GetSecret, GetReady, Connect, Continue, Answer, mgmtVars, runVars
<1>3. CASE UseClient
  BY <1>3, AppsUse
<1>4. CASE SyncApps
  <2>1. UNCHANGED <<keyOf, apps, torn>> /\ synced' = {apps[a] : a \in DOMAIN apps}
    BY <1>4 DEF SyncApps, mgmtVars
  <2> QED BY <2>1 DEF AppsInv, IsOf
<1>5. CASE End
  BY <1>5 DEF End, AppsInv
<1>6. ASSUME NEW k \in Keys, CreateCluster(k)
      PROVE  AppsInv'
  <2>1. keyOf' = Append(keyOf, k)
    BY <1>6 DEF CreateCluster
  <2>2. \A u, j : IsOf(u, j) => IsOf(u, j)'
    BY <2>1, CreatedForGood
  <2>3. UNCHANGED <<pc, apps, torn, synced>>
    BY <1>6 DEF CreateCluster, runVars
  <2> QED BY <2>2, <2>3 DEF AppsInv
<1>7. CASE UNCHANGED <<keyOf, apps, torn, synced, pc>>
  BY <1>7 DEF AppsInv, IsOf
<1>8. ASSUME NEW k \in Keys,
             WriteSecret(k) \/ BecomeReady(k) \/ LoseReady(k) \/ DeleteCluster(k)
               \/ CollectSecret(k) \/ DeliverCluster(k) \/ DeliverSecret(k)
      PROVE  AppsInv'
  BY <1>7, <1>8
  DEF WriteSecret, BecomeReady, LoseReady, DeleteCluster, CollectSecret, DeliverCluster,
      DeliverSecret, mgmtVars, runVars
<1>9. CASE UNCHANGED vars
  BY <1>7, <1>9 DEF vars, mgmtVars, runVars
<1> QED
  BY <1>2, <1>3, <1>4, <1>5, <1>6, <1>8, <1>9 DEF Next, Worker, ClusterAPI

(* A Reconcile that comes to its syncs makes them only where it tore down,  *)
(* and of the clusters it tore down in misses only namesakes of one synced. *)
THEOREM TornDownIsSynced == Spec => []SyncReachesTornDown
<1>1. TypeInv /\ NamedInv /\ [Next]_vars => NamedInv'
  BY NamedCall, NamedUse, NamedEnvironment DEF Next, Worker
<1>2. TypeInv /\ NamedInv /\ AppsInv /\ [Next]_vars => AppsInv'
  BY AppsNext
<1>3. AppsInv => SyncReachesTornDown
  <2> SUFFICES ASSUME AppsInv, pc = "done"
               PROVE  /\ synced \subseteq torn
                      /\ \A u \in torn \ synced :
                           \E other \in synced :
                             other # u /\ keyOf[other][1] = keyOf[u][1]
    BY DEF SyncReachesTornDown
  <2>1. synced = {apps[a] : a \in DOMAIN apps}
    BY DEF AppsInv
  <2>2. synced \subseteq torn
    BY <2>1 DEF AppsInv
  <2>3. ASSUME NEW u \in torn \ synced
        PROVE  \E other \in synced : other # u /\ keyOf[other][1] = keyOf[u][1]
    <3>1. PICK k \in Keys : k[1] \in DOMAIN apps /\ IsOf(u, k)
      BY DEF AppsInv
    <3>2. PICK j \in Keys : j[1] = k[1] /\ IsOf(apps[k[1]], j)
      BY <3>1 DEF AppsInv
    <3>3. apps[k[1]] \in synced
      BY <2>1, <3>1
    <3> QED BY <3>1, <3>2, <3>3 DEF IsOf
  <2> QED BY <2>2, <2>3
<1> QED BY NamedInit, AppsInit, TypeCorrect, <1>1, <1>2, <1>3, PTL DEF Spec
=============================================================================
