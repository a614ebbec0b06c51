----------------------- MODULE NFReconfigObjects_proofs -----------------------
(* Theorems about NFReconfigObjects, for any objects, NFs and namespaces. *)
EXTENDS NFReconfigObjects, SequenceTheorems, TLAPS

(***************************************************************************)
(* Why FreshPods and AgreedCommits hold: inductive invariants.              *)
(***************************************************************************)

(* Who runs says what is asked, and where the run is says what it works on. *)
RunInv ==
  /\ run.object = None => run = Idle
  /\ run.object # None =>
       /\ run.pc # "idle"
       /\ run.asked \in Specs(run.object) \ {Deleted}
       /\ run.element \in DOMAIN Elements[run.object]

(* An NFDeployment that is gone has no pods, but for a moment.              *)
GoneInv ==
  \A n \in NFs : deployed[n] = None /\ pods[n] # None =>
    run.pc = "deletePods" /\ n = CurrentNF

(* From the deletion of the NFDeployment on, Argo CD can only make it of    *)
(* the manifest that was pushed before.                                     *)
FreshInv ==
  /\ run.pc = "deletePods" => deployed[CurrentNF] \in {None, manifest[CurrentNF]}
  /\ \A n \in tornDown :
       /\ deployed[n] \in {None, manifest[n]}
       /\ pods[n] \in {None, manifest[n]}

(* A commit to n is still to come for what o asks for. *)
Stale(o, n, v) ==
  /\ v \notin {NoIPv4, Deleted}
  /\ \/ n \notin canonical
     \/ \E i \in Named[o] : manifest[n][i] # v[i]

Working(o) == IF run.object = o THEN run.asked ELSE spec[o]

CommitsToCome(o, n) ==
  (IF Stale(o, n, Working(o)) THEN 1 ELSE 0) + (IF Working(o) # spec[o] THEN 1 ELSE 0)

(* Every commit still to come has been asked for by an edit of the object.  *)
CommitInv ==
  \A o \in Objects, n \in NFs : commits[o][n] + CommitsToCome(o, n) <= edits[o]

-----------------------------------------------------------------------------
(* The types the invariants below rest on. *)
VarType ==
  /\ spec \in [Objects -> AllSpecs \union {Deleted}]
  /\ \A o \in Objects : spec[o] \in Specs(o) \union {Deleted}
  /\ queue \in Seq(Objects)
  /\ run \in Runs
  /\ manifest \in [NFs -> Contents]
  /\ canonical \subseteq NFs
  /\ deployed \in [NFs -> Contents \union {None}]
  /\ pods \in [NFs -> Contents \union {None}]
  /\ edits \in [Objects -> Nat]
  /\ commits \in [Objects -> [NFs -> Nat]]
  /\ tornDown \subseteq NFs

Typed == VarType /\ RunInv

LEMMA ElementsType ==
  ASSUME NEW o \in Objects
  PROVE  /\ Elements[o] \in Seq(NFs)
         /\ Len(Elements[o]) \in Nat \ {0}
         /\ DOMAIN Elements[o] = 1 .. Len(Elements[o])
         /\ \A i \in DOMAIN Elements[o] : Elements[o][i] \in NFs
<1>1. Elements[o] \in Seq(NFs) /\ Elements[o] # <<>>
  BY ElementsAssumption
<1> QED BY <1>1

LEMMA CurrentType ==
  ASSUME RunInv, run.object # None, run \in Runs
  PROVE  CurrentNF \in NFs /\ run.object \in Objects
<1>1. run.object \in Objects
  BY DEF Runs
<1> QED BY <1>1, ElementsType DEF RunInv, CurrentNF

LEMMA SpecsType ==
  ASSUME NEW o \in Objects, NEW v \in Specs(o)
  PROVE  v \in AllSpecs
BY DEF AllSpecs

LEMMA IdleType ==
  /\ Idle \in Runs
  /\ Idle.object = None /\ Idle.pc = "idle" /\ Idle.asked = None
<1>1. "idle" \in Locations
  BY DEF Locations
<1> QED BY <1>1 DEF Idle, Runs

LEMMA TypeInit == Init => Typed
<1> SUFFICES ASSUME Init PROVE Typed
  OBVIOUS
<1>1. manifest \in [NFs -> Contents] /\ canonical \subseteq NFs
  BY RepositoriesAssumption DEF Init
<1>2. run = Idle /\ run \in Runs /\ RunInv
  BY IdleType DEF Init, RunInv
<1>3. spec \in [Objects -> AllSpecs \union {Deleted}]
      /\ \A o \in Objects : spec[o] \in Specs(o) \union {Deleted}
  BY DEF Init
<1>4. edits \in [Objects -> Nat] /\ commits \in [Objects -> [NFs -> Nat]]
  BY DEF Init
<1> QED BY <1>1, <1>2, <1>3, <1>4 DEF Init, Typed, VarType

LEMMA TypeReconcile == ASSUME Typed, Reconcile PROVE Typed'
<1>1. PICK o \in Objects : o = Head(queue)
  BY DEF Typed, VarType, Reconcile
<1>2. queue' \in Seq(Objects)
  BY DEF Typed, VarType, Reconcile
<1>3. CASE spec[o] = Deleted
  <2>1. run' = run /\ run = Idle
    BY <1>1, <1>3 DEF Reconcile
  <2> QED BY <1>2, <2>1 DEF Reconcile, Typed, VarType, RunInv, gitVars, clusterVars
<1>4. CASE spec[o] # Deleted
  <2>1. spec[o] \in Specs(o)
    BY <1>4 DEF Typed, VarType
  <2>2. run' = [object |-> o, pc |-> "publish", element |-> 1, asked |-> spec[o],
                apps |-> {}]
    BY <1>1, <1>4 DEF Reconcile, Idle
  <2>3. run' \in Runs
    BY <2>1, <2>2, SpecsType DEF Runs, Locations
  <2>4. 1 \in DOMAIN Elements[o]
    BY ElementsType
  <2>5. RunInv'
    BY <1>4, <2>1, <2>2, <2>4, NoneAssumption DEF RunInv
  <2> QED BY <1>2, <2>3, <2>5 DEF Reconcile, Typed, VarType, gitVars, clusterVars
<1> QED BY <1>3, <1>4

(* A run that ends leaves the idle record and a queue of objects. *)
LEMMA EndOfRun ==
  ASSUME Typed, run.object # None, run' = Idle, Done
  PROVE  run' \in Runs /\ RunInv' /\ queue' \in Seq(Objects)
<1>1. Idle \in Runs /\ Idle.object = None
  BY IdleType
<1>2. queue' \in Seq(Objects)
  BY CurrentType DEF Typed, VarType, Done
<1> QED BY <1>1, <1>2 DEF RunInv

(* A run that goes on changes its place, its element and its apps only. *)
LEMMA RunGoesOn ==
  ASSUME Typed, run.object # None,
         NEW l \in Locations \ {"idle"}, NEW e \in DOMAIN Elements[run.object],
         NEW a \in SUBSET Clusters,
         run' = [run EXCEPT !.pc = l, !.element = e, !.apps = a]
  PROVE  /\ run' \in Runs /\ RunInv'
         /\ run'.object = run.object /\ run'.asked = run.asked
         /\ run'.pc = l /\ run'.element = e
<1>1. run.object \in Objects /\ e \in Nat
  BY CurrentType, ElementsType DEF Typed, VarType
<1>2. run' \in Runs /\ run'.object = run.object /\ run'.asked = run.asked
      /\ run'.pc = l /\ run'.element = e
  BY <1>1 DEF Typed, VarType, Runs
<1> QED BY <1>2 DEF Typed, RunInv

LEMMA NextElementType ==
  ASSUME Typed, run.object # None, NextElement
  PROVE  /\ run' \in Runs /\ RunInv'
         /\ run'.object = run.object /\ run'.asked = run.asked
         /\ run'.pc \in {"sync", "publish"}
         /\ tornDown' \subseteq NFs
<1>1. CurrentNF \in NFs /\ run.object \in Objects
  BY CurrentType DEF Typed, VarType
<1> DEFINE apps == IF IsCU THEN run.apps ELSE run.apps \union {App}
           last == run.element = Len(Elements[run.object])
           l == IF last THEN "sync" ELSE "publish"
           e == IF last THEN run.element ELSE run.element + 1
<1>2. apps \in SUBSET Clusters
  BY <1>1 DEF App, Clusters, Typed, VarType, Runs
<1>3. e \in DOMAIN Elements[run.object]
  BY <1>1, ElementsType DEF Typed, RunInv
<1>4. run' = [run EXCEPT !.pc = l, !.element = e, !.apps = apps]
  BY DEF NextElement, Typed, VarType, Runs
<1>5. l \in Locations \ {"idle"} /\ l \in {"sync", "publish"}
  BY DEF Locations
<1> HIDE DEF apps, last, l, e
<1>6. tornDown' \subseteq NFs
  BY <1>1 DEF NextElement, Typed, VarType
<1> QED BY <1>2, <1>3, <1>4, <1>5, <1>6, RunGoesOn

LEMMA NotIdle ==
  ASSUME Typed, run.pc # "idle"
  PROVE  run.object # None /\ run.object \in Objects /\ CurrentNF \in NFs
BY IdleType, CurrentType DEF Typed, RunInv, VarType

LEMMA GotoType ==
  ASSUME Typed, run.pc # "idle", NEW l \in Locations \ {"idle"},
         run' = [run EXCEPT !.pc = l]
  PROVE  /\ run' \in Runs /\ RunInv'
         /\ run'.object = run.object /\ run'.asked = run.asked
         /\ run'.pc = l /\ run'.element = run.element
<1>1. run.object # None /\ run.object \in Objects
  BY NotIdle
<1>2. run' \in Runs /\ run'.object = run.object /\ run'.asked = run.asked
      /\ run'.pc = l /\ run'.element = run.element
  BY DEF Typed, VarType, Runs
<1> QED BY <1>1, <1>2 DEF Typed, RunInv

(* What a push writes. *)
LEMMA PushedContent ==
  ASSUME Typed, run.pc # "idle", run.asked # NoIPv4
  PROVE  /\ run.asked \in [Named[run.object] -> Addresses]
         /\ [i \in Interfaces |-> NewIP(i)] \in Contents
<1>1. run.object # None /\ run.object \in Objects /\ CurrentNF \in NFs
  BY NotIdle
<1>2. run.asked \in [Named[run.object] -> Addresses]
  BY <1>1 DEF Typed, RunInv, Specs
<1>3. manifest[CurrentNF] \in [Interfaces -> Addresses]
  BY <1>1 DEF Typed, VarType, Contents
<1>4. \A i \in Interfaces : NewIP(i) \in Addresses
  BY <1>2, <1>3 DEF NewIP
<1> QED BY <1>2, <1>4 DEF Contents

(* The three ways a run takes at a manifest. *)
LEMMA PublishCases ==
  ASSUME Publish
  PROVE  \/ Panic /\ UNCHANGED <<gitVars, tornDown>>
         \/ Return /\ UNCHANGED <<gitVars, tornDown>>
         \/ /\ run.asked # NoIPv4
            /\ LET n == CurrentNF
                   new == [i \in Interfaces |-> NewIP(i)]
               IN /\ ~ (new = manifest[n] /\ n \in canonical)
                  /\ manifest' = [manifest EXCEPT ![n] = new]
                  /\ canonical' = canonical \union {n}
                  /\ commits' = [commits EXCEPT ![run.object][n] = @ + 1]
                  /\ tornDown' = tornDown \ {n}
            /\ \E l \in {"deleteNF", "deleteConfig"} : run' = [run EXCEPT !.pc = l]
            /\ UNCHANGED queueVars
BY DEF Publish, NoAddress

LEMMA TypePublish == ASSUME Typed, Publish PROVE Typed'
<1>1. run.pc # "idle" /\ UNCHANGED <<spec, deployed, pods, ops, edits>>
  BY DEF Publish, clusterVars
<1>2. run.object # None /\ run.object \in Objects /\ CurrentNF \in NFs
  BY <1>1, NotIdle
<1>3. CASE (Panic \/ Return) /\ UNCHANGED <<gitVars, tornDown>>
  <2>1. run' \in Runs /\ RunInv' /\ queue' \in Seq(Objects)
    BY <1>2, <1>3, EndOfRun DEF Panic, Return
  <2> QED BY <1>1, <1>3, <2>1 DEF Typed, VarType, gitVars
<1>4. CASE run.asked # NoIPv4 /\ \E l \in {"deleteNF", "deleteConfig"} : run' = [run EXCEPT !.pc = l]
  <2>1. [i \in Interfaces |-> NewIP(i)] \in Contents
    BY <1>1, <1>4, PushedContent
  <2> DEFINE new == [i \in Interfaces |-> NewIP(i)]
  <2>2. /\ manifest' = [manifest EXCEPT ![CurrentNF] = new]
        /\ canonical' = canonical \union {CurrentNF}
        /\ commits' = [commits EXCEPT ![run.object][CurrentNF] = @ + 1]
        /\ tornDown' = tornDown \ {CurrentNF}
        /\ UNCHANGED queue
    <3>1. run' # Idle
      BY <1>1, <1>2, <1>4, GotoType, IdleType DEF Locations
    <3> QED BY <3>1, PublishCases DEF Panic, Return, queueVars
  <2>3. run' \in Runs /\ RunInv'
    BY <1>1, <1>4, GotoType DEF Locations
  <2> HIDE DEF new
  <2>4. manifest' \in [NFs -> Contents]
    BY <2>1, <2>2 DEF Typed, VarType, new
  <2>5. commits' \in [Objects -> [NFs -> Nat]]
    BY <1>2, <2>2 DEF Typed, VarType
  <2> QED BY <1>1, <1>2, <2>2, <2>3, <2>4, <2>5 DEF Typed, VarType
<1> QED BY <1>3, <1>4, PublishCases

(* What is deleted is None from then on. *)
LEMMA DeletionTypes ==
  ASSUME Typed, NEW n \in NFs
  PROVE  /\ WithoutPods(n) \in [NFs -> Contents \union {None}]
         /\ WithoutNF(n) \in [NFs -> Contents \union {None}]
BY DEF WithoutPods, WithoutNF, Typed, VarType

LEMMA TypeTeardown ==
  ASSUME Typed, DeleteConfig \/ DeleteNFDeployment \/ DeletePods
  PROVE  Typed'
<1>1. run.pc # "idle"
  BY DEF DeleteConfig, DeleteNFDeployment, DeletePods
<1>2. run.object # None /\ CurrentNF \in NFs
  BY <1>1, NotIdle
<1>3. CASE DeleteConfig
  <2>1. run' \in Runs /\ RunInv'
    BY <1>1, <1>3, GotoType DEF DeleteConfig, Locations
  <2> QED BY <1>2, <1>3, <2>1, DeletionTypes
          DEF DeleteConfig, Typed, VarType, queueVars, gitVars
<1>4. CASE DeleteNFDeployment
  <2>1. deployed' \in [NFs -> Contents \union {None}]
    BY <1>2, <1>4, DeletionTypes DEF DeleteNFDeployment, Typed, VarType
  <2>2. run' \in Runs /\ RunInv' /\ tornDown' \subseteq NFs
    <3>1. CASE NextElement
      BY <1>2, <3>1, NextElementType
    <3>2. CASE AfterDelete
      BY <1>1, <3>2, GotoType DEF AfterDelete, Locations, Typed, VarType
    <3> QED BY <1>4, <3>1, <3>2 DEF DeleteNFDeployment
  <2> QED BY <1>4, <2>1, <2>2 DEF DeleteNFDeployment, Typed, VarType, queueVars, gitVars
<1>5. CASE DeletePods
  <2>1. run' \in Runs /\ RunInv' /\ tornDown' \subseteq NFs
    BY <1>2, <1>5, NextElementType DEF DeletePods
  <2> QED BY <1>2, <1>5, <2>1, DeletionTypes
          DEF DeletePods, Typed, VarType, queueVars, gitVars
<1> QED BY <1>3, <1>4, <1>5

LEMMA TypeSync == ASSUME Typed, SyncApps PROVE Typed'
<1>1. run.object # None
  BY NotIdle DEF SyncApps
<1>2. run' \in Runs /\ RunInv' /\ queue' \in Seq(Objects)
  BY <1>1, EndOfRun DEF SyncApps, Return
<1> QED BY <1>2 DEF SyncApps, Typed, VarType, gitVars

LEMMA TypeEnvironment ==
  ASSUME Typed,
         \/ \E o \in Objects : EditNFReconfig(o) \/ Resync(o) \/ AddRateLimited(o)
         \/ \E c \in Clusters : ArgoSync(c)
         \/ \E n \in NFs : StartPods(n)
         \/ UNCHANGED vars
  PROVE  Typed' /\ UNCHANGED <<run, manifest, canonical, commits, tornDown>>
<1>1. UNCHANGED <<run, manifest, canonical, commits, tornDown>>
  BY DEF EditNFReconfig, Resync, AddRateLimited, ArgoSync, StartPods, vars, gitVars
<1>2. RunInv'
  BY <1>1 DEF Typed, RunInv
<1>3. CASE \E o \in Objects : EditNFReconfig(o) \/ Resync(o) \/ AddRateLimited(o)
  <2> PICK o \in Objects : EditNFReconfig(o) \/ Resync(o) \/ AddRateLimited(o)
    BY <1>3
  <2>1. queue' \in Seq(Objects) /\ UNCHANGED <<deployed, pods>>
    <3>1. queue' = queue \/ queue' = Append(queue, o)
      BY DEF EditNFReconfig, Resync, AddRateLimited, Add
    <3>2. queue \in Seq(Objects)
      BY DEF Typed, VarType
    <3>3. Append(queue, o) \in Seq(Objects)
      BY <3>2, AppendProperties
    <3>4. queue' \in Seq(Objects)
      BY <3>1, <3>2, <3>3
    <3> QED BY <3>4 DEF EditNFReconfig, Resync, AddRateLimited, clusterVars
  <2>2. CASE EditNFReconfig(o)
    <3>1. PICK v \in Specs(o) \union {Deleted} : spec' = [spec EXCEPT ![o] = v]
      BY <2>2 DEF EditNFReconfig
    <3>2. v \in AllSpecs \union {Deleted}
      BY SpecsType
    <3>3. spec' \in [Objects -> AllSpecs \union {Deleted}]
          /\ \A p \in Objects : spec'[p] \in Specs(p) \union {Deleted}
      BY <3>1, <3>2 DEF Typed, VarType
    <3> QED BY <1>1, <1>2, <2>1, <2>2, <3>3 DEF EditNFReconfig, Typed, VarType
  <2>3. CASE Resync(o) \/ AddRateLimited(o)
    BY <1>1, <1>2, <2>1, <2>3 DEF Resync, AddRateLimited, Typed, VarType
  <2> QED BY <2>2, <2>3
<1>4. CASE \E c \in Clusters : ArgoSync(c)
  BY <1>1, <1>2, <1>4 DEF ArgoSync, Typed, VarType, queueVars
<1>5. CASE \E n \in NFs : StartPods(n)
  BY <1>1, <1>2, <1>5 DEF StartPods, Typed, VarType, queueVars
<1>6. CASE UNCHANGED vars
  BY <1>1, <1>2, <1>6 DEF vars, queueVars, clusterVars, Typed, VarType
<1> QED BY <1>1, <1>3, <1>4, <1>5, <1>6

(* Types, and what a run works on: the base of the theorems below. *)
THEOREM TypeCorrect == Spec => []Typed
<1>1. Typed /\ [Next]_vars => Typed'
  BY TypeReconcile, TypePublish, TypeTeardown, TypeSync, TypeEnvironment DEF Next, Worker
<1> QED BY TypeInit, <1>1, PTL DEF Spec

-----------------------------------------------------------------------------
(***************************************************************************)
(* The shape of the workqueue.                                             *)
(***************************************************************************)
Keys(q) == {q[i] : i \in DOMAIN q}

Once(q) == \A i, j \in DOMAIN q : q[i] = q[j] => i = j

QueueInv ==
  /\ dirty \subseteq Objects /\ backoff \subseteq Objects /\ ops \subseteq Clusters
  /\ Keys(queue) = dirty \ {run.object}
  /\ Once(queue)

LEMMA AppendKey ==
  ASSUME NEW q \in Seq(Objects), NEW o \in Objects, o \notin Keys(q), Once(q)
  PROVE  Keys(Append(q, o)) = Keys(q) \union {o} /\ Once(Append(q, o))
<1>1. /\ DOMAIN Append(q, o) = 1 .. Len(q) + 1
      /\ DOMAIN q = 1 .. Len(q) /\ Len(q) \in Nat
      /\ Append(q, o)[Len(q) + 1] = o
      /\ \A i \in 1 .. Len(q) : Append(q, o)[i] = q[i]
  OBVIOUS
<1> QED BY <1>1 DEF Keys, Once

LEMMA TailKeys ==
  ASSUME NEW q \in Seq(Objects), q # <<>>, Once(q)
  PROVE  Keys(Tail(q)) = Keys(q) \ {Head(q)} /\ Once(Tail(q))
<1>1. /\ DOMAIN Tail(q) = 1 .. Len(q) - 1
      /\ DOMAIN q = 1 .. Len(q) /\ Len(q) \in Nat \ {0}
      /\ Head(q) = q[1]
      /\ \A i \in 1 .. Len(q) - 1 : Tail(q)[i] = q[i + 1]
  OBVIOUS
<1>2. Once(Tail(q))
  BY <1>1 DEF Once
<1>3. Keys(Tail(q)) \subseteq Keys(q) \ {Head(q)}
  BY <1>1 DEF Keys, Once
<1>4. ASSUME NEW k \in Keys(q) \ {Head(q)} PROVE k \in Keys(Tail(q))
  <2>1. PICK i \in 2 .. Len(q) : q[i] = k
    BY <1>1 DEF Keys
  <2>2. i - 1 \in DOMAIN Tail(q) /\ Tail(q)[i - 1] = k
    BY <1>1, <2>1
  <2> QED BY <2>2 DEF Keys
<1> QED BY <1>2, <1>3, <1>4

LEMMA QueueInit == Init => QueueInv
BY DEF Init, QueueInv, Keys, Once

(* Adding a key, whatever a step does to the other variables. *)
LEMMA QueueAdd ==
  ASSUME Typed, QueueInv, NEW o \in Objects, Add(o), UNCHANGED <<run, ops>>,
         backoff' \subseteq backoff
  PROVE  QueueInv'
<1>1. queue \in Seq(Objects)
  BY DEF Typed, VarType
<1>2. CASE o \in dirty \/ o = run.object
  BY <1>2 DEF Add, QueueInv
<1>3. CASE ~ (o \in dirty \/ o = run.object)
  <2>1. queue' = Append(queue, o) /\ o \notin Keys(queue)
    BY <1>3 DEF Add, QueueInv
  <2>2. Keys(queue') = Keys(queue) \union {o} /\ Once(queue')
    BY <1>1, <2>1, AppendKey DEF QueueInv
  <2> QED BY <1>3, <2>2 DEF Add, QueueInv
<1> QED BY <1>2, <1>3

(* The end of a run. *)
LEMMA QueueDone ==
  ASSUME Typed, QueueInv, run.object # None, run' = Idle, Done, UNCHANGED dirty,
         backoff' \subseteq backoff \union {run.object}, ops' \subseteq ops \union run.apps
  PROVE  QueueInv'
<1>1. queue \in Seq(Objects) /\ run.object \in Objects /\ run.apps \subseteq Clusters
  BY DEF Typed, VarType, Runs
<1>2. dirty \ {run'.object} = dirty
  BY IdleType, NoneAssumption DEF QueueInv
<1>3. CASE run.object \in dirty
  <2>1. queue' = Append(queue, run.object) /\ run.object \notin Keys(queue)
    BY <1>3 DEF Done, QueueInv
  <2>2. Keys(queue') = Keys(queue) \union {run.object} /\ Once(queue')
    BY <1>1, <2>1, AppendKey DEF QueueInv
  <2> QED BY <1>1, <1>2, <1>3, <2>2 DEF QueueInv
<1>4. CASE run.object \notin dirty
  BY <1>1, <1>2, <1>4 DEF Done, QueueInv
<1> QED BY <1>3, <1>4

LEMMA QueueReconcile == ASSUME Typed, QueueInv, Reconcile PROVE QueueInv'
<1>1. queue \in Seq(Objects) /\ queue # <<>> /\ queue' = Tail(queue)
  BY DEF Reconcile, Typed, VarType
<1>2. Keys(queue') = Keys(queue) \ {Head(queue)} /\ Once(queue')
  BY <1>1, TailKeys DEF QueueInv
<1>3. run.object = None /\ dirty' = dirty \ {Head(queue)} /\ UNCHANGED <<backoff, ops>>
  BY IdleType DEF Reconcile, clusterVars
<1>4. run'.object \in {None, Head(queue)}
  BY IdleType DEF Reconcile, Idle
<1>5. Keys(queue) = dirty /\ None \notin dirty
  BY <1>3, NoneAssumption DEF QueueInv
<1> QED BY <1>2, <1>3, <1>4, <1>5 DEF QueueInv

(* A step within a run. *)
LEMMA QueueElsewhere ==
  ASSUME QueueInv, UNCHANGED queueVars, run'.object = run.object, ops' \subseteq Clusters
  PROVE  QueueInv'
BY DEF QueueInv, queueVars

LEMMA QueueWorker ==
  ASSUME Typed, QueueInv, Publish \/ DeleteConfig \/ DeleteNFDeployment \/ DeletePods \/ SyncApps
  PROVE  QueueInv'
<1>1. run.object # None /\ run.pc # "idle"
  BY NotIdle DEF Publish, DeleteConfig, DeleteNFDeployment, DeletePods, SyncApps
<1>2. ops \subseteq Clusters
  BY DEF QueueInv
<1>3. CASE SyncApps
  BY <1>1, <1>3, QueueDone DEF SyncApps, Return
<1>4. CASE Publish
  <2>1. UNCHANGED ops
    BY <1>4 DEF Publish, clusterVars
  <2>2. CASE Panic \/ Return
    BY <1>1, <2>1, <2>2, QueueDone DEF Panic, Return
  <2>3. ASSUME NEW l \in {"deleteNF", "deleteConfig"}, run' = [run EXCEPT !.pc = l],
               UNCHANGED queueVars
        PROVE  QueueInv'
    BY <1>1, <1>2, <2>1, <2>3, GotoType, QueueElsewhere DEF Locations
  <2> QED BY <1>4, <2>2, <2>3, PublishCases
<1>5. CASE DeleteConfig \/ DeleteNFDeployment \/ DeletePods
  <2>1. UNCHANGED <<queueVars, ops>>
    BY <1>5 DEF DeleteConfig, DeleteNFDeployment, DeletePods
  <2>2. NextElement \/ \E l \in {"deleteNF", "deletePods"} : run' = [run EXCEPT !.pc = l]
    BY <1>5 DEF DeleteConfig, DeleteNFDeployment, DeletePods, AfterDelete
  <2>3. CASE NextElement
    BY <1>1, <1>2, <2>1, <2>3, NextElementType, QueueElsewhere
  <2>4. ASSUME NEW l \in {"deleteNF", "deletePods"}, run' = [run EXCEPT !.pc = l]
        PROVE  QueueInv'
    BY <1>1, <1>2, <2>1, <2>4, GotoType, QueueElsewhere DEF Locations
  <2> QED BY <2>2, <2>3, <2>4
<1> QED BY <1>3, <1>4, <1>5

LEMMA QueueEnvironment ==
  ASSUME Typed, QueueInv,
         \/ \E o \in Objects : EditNFReconfig(o) \/ Resync(o) \/ AddRateLimited(o)
         \/ \E c \in Clusters : ArgoSync(c)
         \/ \E n \in NFs : StartPods(n)
         \/ UNCHANGED vars
  PROVE  QueueInv'
<1>1. UNCHANGED run
  BY TypeEnvironment
<1>2. CASE \E o \in Objects : EditNFReconfig(o) \/ Resync(o) \/ AddRateLimited(o)
  BY <1>1, <1>2, QueueAdd DEF EditNFReconfig, Resync, AddRateLimited, clusterVars
<1>3. CASE UNCHANGED queueVars /\ ops' \subseteq ops
  BY <1>1, <1>3, QueueElsewhere DEF QueueInv
<1> QED BY <1>2, <1>3 DEF ArgoSync, StartPods, vars, clusterVars

(* The types, and the shape of the workqueue: no key is queued twice, and   *)
(* none to be worked on is lost, however a run ends.                        *)
THEOREM TypeSafety == Spec => []TypeOK
<1>1. Typed /\ QueueInv /\ [Next]_vars => QueueInv'
  BY QueueReconcile, QueueWorker, QueueEnvironment DEF Next, Worker
<1>2. Typed /\ QueueInv => TypeOK
  BY DEF Typed, VarType, QueueInv, TypeOK, Keys, Once
<1> QED BY TypeCorrect, QueueInit, <1>1, <1>2, PTL DEF Spec

-----------------------------------------------------------------------------
(***************************************************************************)
(* No pod of before is left.                                               *)
(***************************************************************************)
Fresh == GoneInv /\ FreshInv

LEMMA FreshInit == Init => Fresh
<1> SUFFICES ASSUME Init PROVE Fresh
  OBVIOUS
<1>1. run.pc = "idle" /\ tornDown = {}
  BY IdleType DEF Init
<1>2. \A n \in NFs : deployed[n] # None
  BY TypeInit, NoneAssumption DEF Init, Typed, VarType
<1> QED BY <1>1, <1>2 DEF Fresh, GoneInv, FreshInv

(* A step that leaves the cluster alone, and is not at deletePods before or *)
(* after.                                                                   *)
LEMMA FreshElsewhere ==
  ASSUME Typed, Fresh, run.pc # "deletePods", run'.pc # "deletePods",
         UNCHANGED <<deployed, pods>>,
         \A n \in tornDown' : n \in tornDown /\ manifest'[n] = manifest[n]
  PROVE  Fresh'
BY DEF Fresh, GoneInv, FreshInv

LEMMA FreshPublish == ASSUME Typed, Publish, Fresh PROVE Fresh'
<1>1. run.pc = "publish" /\ UNCHANGED <<deployed, pods>>
  BY DEF Publish, clusterVars
<1>2. CurrentNF \in NFs
  BY <1>1, NotIdle
<1>3. CASE (Panic \/ Return) /\ UNCHANGED <<gitVars, tornDown>>
  <2>1. run'.pc = "idle"
    BY <1>3, IdleType DEF Panic, Return
  <2> QED BY <1>1, <1>3, <2>1, FreshElsewhere DEF gitVars
<1>4. ASSUME NEW new, manifest' = [manifest EXCEPT ![CurrentNF] = new],
             tornDown' = tornDown \ {CurrentNF},
             NEW l \in {"deleteNF", "deleteConfig"}, run' = [run EXCEPT !.pc = l]
      PROVE  Fresh'
  <2>1. run'.pc # "deletePods"
    BY <1>1, <1>4, GotoType DEF Locations
  <2>2. \A n \in tornDown' : n \in tornDown /\ manifest'[n] = manifest[n]
    BY <1>2, <1>4 DEF Typed, VarType
  <2> QED BY <1>1, <2>1, <2>2, FreshElsewhere
<1> QED BY <1>3, <1>4, PublishCases

LEMMA FreshDeletePods == ASSUME Typed, Fresh, DeletePods PROVE Fresh'
<1>1. run.pc = "deletePods" /\ UNCHANGED <<manifest, deployed>> /\ NextElement
      /\ pods' = WithoutPods(CurrentNF)
  BY DEF DeletePods, gitVars
<1>2. run.object # None /\ CurrentNF \in NFs
  BY <1>1, NotIdle
<1>3. run'.pc # "deletePods"
  BY <1>1, <1>2, NextElementType
<1>4. pods'[CurrentNF] = None /\ \A n \in NFs : pods'[n] \in {None, pods[n]}
  BY <1>1, <1>2 DEF WithoutPods, SameNamespace
<1>5. \A n \in tornDown' : n = CurrentNF \/ n \in tornDown
  BY <1>1 DEF NextElement
<1>6. GoneInv'
  BY <1>1, <1>3, <1>4 DEF Fresh, GoneInv
<1>7. FreshInv'
  BY <1>1, <1>2, <1>3, <1>4, <1>5 DEF Fresh, FreshInv, Typed, VarType
<1> QED BY <1>6, <1>7 DEF Fresh

LEMMA FreshDeleteNF == ASSUME Typed, Fresh, DeleteNFDeployment PROVE Fresh'
<1>1. run.pc = "deleteNF" /\ UNCHANGED <<manifest, pods>>
  BY DEF DeleteNFDeployment, gitVars
<1>2. run.object # None /\ CurrentNF \in NFs
  BY <1>1, NotIdle
<1>3. CASE deployed' = WithoutNF(CurrentNF) /\ AfterDelete
  <2>1. run'.pc = "deletePods" /\ CurrentNF' = CurrentNF /\ tornDown' = tornDown
    BY <1>1, <1>3, GotoType DEF AfterDelete, Locations, CurrentNF
  <2>2. /\ deployed'[CurrentNF] = None
        /\ \A n \in NFs : deployed'[n] \in {None, deployed[n]}
        /\ \A n \in NFs : n # CurrentNF => deployed'[n] = deployed[n]
    BY <1>2, <1>3 DEF WithoutNF, Typed, VarType
  <2>3. GoneInv'
    BY <1>1, <2>1, <2>2 DEF Fresh, GoneInv
  <2>4. FreshInv'
    BY <1>1, <1>2, <2>1, <2>2 DEF Fresh, FreshInv, Typed, VarType
  <2> QED BY <2>3, <2>4 DEF Fresh
<1>4. CASE deployed[CurrentNF] = None /\ NextElement /\ UNCHANGED deployed
  <2>1. run'.pc # "deletePods"
    BY <1>2, <1>4, NextElementType
  <2>2. pods[CurrentNF] = None
    BY <1>1, <1>2, <1>4 DEF Fresh, GoneInv
  <2>3. \A n \in tornDown' : n = CurrentNF \/ n \in tornDown
    BY <1>4 DEF NextElement
  <2> QED BY <1>1, <1>4, <2>1, <2>2, <2>3 DEF Fresh, GoneInv, FreshInv
<1> QED BY <1>3, <1>4 DEF DeleteNFDeployment

LEMMA FreshOthers ==
  ASSUME Typed, Fresh, Reconcile \/ DeleteConfig \/ SyncApps
  PROVE  Fresh'
<1>1. CASE Reconcile
  <2>1. run.pc = "idle" /\ run'.pc \in {"idle", "publish"}
    BY <1>1, IdleType DEF Reconcile, Idle
  <2> QED BY <1>1, <2>1, FreshElsewhere DEF Reconcile, gitVars, clusterVars
<1>2. CASE DeleteConfig
  <2>1. run'.pc = "deleteNF"
    BY <1>2, GotoType DEF DeleteConfig, Locations
  <2>2. run.pc = "deleteConfig" /\ UNCHANGED <<manifest, deployed, tornDown>>
    BY <1>2 DEF DeleteConfig, gitVars
  <2>3. \A n \in NFs : pods'[n] \in {None, pods[n]}
    BY <1>2 DEF DeleteConfig, WithoutPods
  <2> QED BY <2>1, <2>2, <2>3 DEF Fresh, GoneInv, FreshInv, Typed, VarType
<1>3. CASE SyncApps
  <2>1. run.pc = "sync" /\ run'.pc = "idle"
    BY <1>3, IdleType DEF SyncApps, Return
  <2> QED BY <1>3, <2>1, FreshElsewhere DEF SyncApps, gitVars
<1> QED BY <1>1, <1>2, <1>3

LEMMA FreshEnvironment ==
  ASSUME Typed, Fresh,
         \/ \E o \in Objects : EditNFReconfig(o) \/ Resync(o) \/ AddRateLimited(o)
         \/ \E c \in Clusters : ArgoSync(c)
         \/ \E n \in NFs : StartPods(n)
         \/ UNCHANGED vars
  PROVE  Fresh'
<1>1. UNCHANGED <<run, manifest, tornDown>>
  BY TypeEnvironment
<1>2. UNCHANGED CurrentNF
  BY <1>1 DEF CurrentNF
<1>3. run.pc = "deletePods" => CurrentNF \in NFs
  BY NotIdle
<1>4. CASE UNCHANGED <<deployed, pods>>
  BY <1>1, <1>2, <1>4 DEF Fresh, GoneInv, FreshInv
<1>5. CASE \E c \in Clusters : ArgoSync(c)
  <2>1. UNCHANGED pods /\ \A n \in NFs : deployed'[n] \in {deployed[n], manifest[n]}
    BY <1>5 DEF ArgoSync
  <2>2. \A n \in NFs : manifest[n] # None
    BY NoneAssumption DEF Typed, VarType
  <2> QED BY <1>1, <1>2, <1>3, <2>1, <2>2 DEF Fresh, GoneInv, FreshInv, Typed, VarType
<1>6. CASE \E n \in NFs : StartPods(n)
  <2> PICK m \in NFs : StartPods(m)
    BY <1>6
  <2>1. UNCHANGED deployed /\ deployed[m] # None
        /\ \A n \in NFs : pods'[n] = IF n = m THEN deployed[m] ELSE pods[n]
    BY DEF StartPods, Typed, VarType
  <2> QED BY <1>1, <1>2, <2>1 DEF Fresh, GoneInv, FreshInv, Typed, VarType
<1> QED
  BY <1>4, <1>5, <1>6 DEF EditNFReconfig, Resync, AddRateLimited, clusterVars, vars

(* The pods of an NF that was torn down and came back run with the          *)
(* addresses of its manifest, whoever started them and whenever.            *)
THEOREM PodsAreFresh == Spec => []FreshPods
<1>1. Typed /\ Fresh /\ [Next]_vars => Fresh'
  BY FreshPublish, FreshDeletePods, FreshDeleteNF, FreshOthers, FreshEnvironment
     DEF Next, Worker
<1>2. Fresh => FreshPods
  BY DEF Fresh, FreshInv, FreshPods
<1> QED BY FreshInit, TypeCorrect, <1>1, <1>2, PTL DEF Spec

-----------------------------------------------------------------------------
(***************************************************************************)
(* Objects that agree do not commit in turns.                              *)
(***************************************************************************)
LEMMA CommitTypes ==
  ASSUME Typed, NEW o \in Objects, NEW n \in NFs
  PROVE  /\ commits[o][n] \in Nat /\ edits[o] \in Nat
         /\ CommitsToCome(o, n) \in 0 .. 2
BY DEF Typed, VarType, CommitsToCome

LEMMA CommitInit == Init => CommitInv
<1> SUFFICES ASSUME Init, NEW o \in Objects, NEW n \in NFs
             PROVE  commits[o][n] + CommitsToCome(o, n) <= edits[o]
  BY DEF CommitInv
<1>1. Working(o) = Deleted /\ spec[o] = Deleted
  BY NoneAssumption, IdleType DEF Init, Working
<1>2. CommitsToCome(o, n) = 0
  BY <1>1 DEF CommitsToCome, Stale
<1> QED BY <1>2 DEF Init

(* A step that neither edits nor commits, and after which every object is   *)
(* served with what it was served with before, or with what it asks for.    *)
LEMMA CommitElsewhere ==
  ASSUME Typed, CommitInv, UNCHANGED <<spec, edits, gitVars>>,
         \A o \in Objects : Working(o)' \in {Working(o), spec[o]}
  PROVE  CommitInv'
<1> SUFFICES ASSUME NEW o \in Objects, NEW n \in NFs
             PROVE  commits'[o][n] + CommitsToCome(o, n)' <= edits'[o]
  BY DEF CommitInv
<1>1. CommitsToCome(o, n)' <= CommitsToCome(o, n) /\ CommitsToCome(o, n)' \in 0 .. 2
  <2>1. CASE Working(o)' = Working(o)
    <3>1. Stale(o, n, Working(o))' = Stale(o, n, Working(o))
      BY <2>1 DEF Stale, gitVars
    <3> QED BY <2>1, <3>1 DEF CommitsToCome
  <2>2. CASE Working(o)' = spec[o] /\ Working(o) # spec[o]
    BY <2>2 DEF CommitsToCome
  <2> QED BY <2>1, <2>2
<1>2. commits[o][n] + CommitsToCome(o, n) <= edits[o]
  BY DEF CommitInv
<1> QED BY <1>1, <1>2, CommitTypes DEF gitVars

LEMMA CommitEdit ==
  ASSUME Typed, CommitInv, NEW p \in Objects, EditNFReconfig(p)
  PROVE  CommitInv'
<1> SUFFICES ASSUME NEW o \in Objects, NEW n \in NFs
             PROVE  commits'[o][n] + CommitsToCome(o, n)' <= edits'[o]
  BY DEF CommitInv
<1>1. commits[o][n] + CommitsToCome(o, n) <= edits[o]
  BY DEF CommitInv
<1>2. UNCHANGED <<run, gitVars>>
  BY DEF EditNFReconfig
<1>3. CASE o = p
  <2>1. edits'[o] = edits[o] + 1
    BY <1>3 DEF EditNFReconfig, Typed, VarType
  <2>2. CommitsToCome(o, n)' <= CommitsToCome(o, n) + 1
        /\ CommitsToCome(o, n)' \in 0 .. 2
    <3>1. CASE run.object = o
      <4>1. Working(o)' = Working(o)
        BY <1>2, <3>1 DEF Working
      <4>2. Stale(o, n, Working(o))' = Stale(o, n, Working(o))
        BY <1>2, <4>1 DEF Stale, gitVars
      <4> QED BY <4>1, <4>2 DEF CommitsToCome
    <3>2. CASE run.object # o
      <4>1. Working(o)' = spec'[o]
        BY <1>2, <3>2 DEF Working
      <4> QED BY <4>1 DEF CommitsToCome
    <3> QED BY <3>1, <3>2
  <2> QED BY <1>1, <1>2, <2>1, <2>2, CommitTypes DEF gitVars
<1>4. CASE o # p
  <2>1. edits'[o] = edits[o] /\ spec'[o] = spec[o]
    BY <1>4 DEF EditNFReconfig, Typed, VarType
  <2>2. Working(o)' = Working(o)
    BY <1>2, <2>1 DEF Working
  <2>3. Stale(o, n, Working(o))' = Stale(o, n, Working(o))
    BY <1>2, <2>2 DEF Stale, gitVars
  <2>4. CommitsToCome(o, n)' = CommitsToCome(o, n)
    BY <2>1, <2>2, <2>3 DEF CommitsToCome
  <2> QED BY <1>1, <1>2, <2>1, <2>4 DEF gitVars
<1> QED BY <1>3, <1>4

(* The push takes one off the commits to come of its object, and leaves the *)
(* other objects' interfaces as they are.                                   *)
LEMMA CommitPushed ==
  ASSUME Typed, CommitInv, Agreed, run.pc = "publish", run.asked # NoIPv4,
         UNCHANGED <<spec, edits>>, run'.object = run.object, run'.asked = run.asked,
         NEW new, new = [i \in Interfaces |-> NewIP(i)],
         ~ (new = manifest[CurrentNF] /\ CurrentNF \in canonical),
         manifest' = [manifest EXCEPT ![CurrentNF] = new],
         canonical' = canonical \union {CurrentNF},
         commits' = [commits EXCEPT ![run.object][CurrentNF] = @ + 1]
  PROVE  CommitInv'
<1> SUFFICES ASSUME NEW o \in Objects, NEW n \in NFs
             PROVE  commits'[o][n] + CommitsToCome(o, n)' <= edits'[o]
  BY DEF CommitInv
<1>1. commits[o][n] + CommitsToCome(o, n) <= edits[o]
  BY DEF CommitInv
<1>2. Working(o)' = Working(o)
  BY DEF Working
<1>3. run.object \in Objects /\ CurrentNF \in NFs
      /\ run.asked \in [Named[run.object] -> Addresses]
  BY NotIdle, PushedContent
<1>4. CASE o = run.object /\ n = CurrentNF
  <2>1. Working(o) = run.asked /\ run.asked # Deleted
    BY <1>4, NotIdle DEF Working, Typed, RunInv
  <2>2. Stale(o, n, Working(o))
    <3>1. CASE n \notin canonical
      BY <2>1, <3>1 DEF Stale
    <3>2. CASE new # manifest[n]
      <4>1. PICK i \in Interfaces : manifest[n][i] # NewIP(i)
        BY <3>2 DEF Typed, VarType, Contents
      <4>2. i \in Named[o] /\ manifest[n][i] # run.asked[i]
        BY <1>3, <1>4, <4>1 DEF NewIP
      <4> QED BY <2>1, <4>2 DEF Stale
    <3> QED BY <1>4, <3>1, <3>2
  <2>3. ~ Stale(o, n, Working(o))'
    <3>1. \A i \in Named[o] : new[i] = run.asked[i]
      BY <1>3, <1>4, NamedAssumption DEF NewIP
    <3>2. n \in canonical' /\ manifest'[n] = new
      BY <1>3, <1>4 DEF Typed, VarType
    <3> QED BY <1>2, <2>1, <3>1, <3>2 DEF Stale
  <2>4. CommitsToCome(o, n) = CommitsToCome(o, n)' + 1 /\ CommitsToCome(o, n)' \in 0 .. 1
    BY <1>2, <2>2, <2>3 DEF CommitsToCome
  <2>5. commits'[o][n] = commits[o][n] + 1
    BY <1>3, <1>4 DEF Typed, VarType
  <2> QED BY <1>1, <2>4, <2>5, CommitTypes
<1>5. CASE ~ (o = run.object /\ n = CurrentNF)
  <2>1. commits'[o][n] = commits[o][n]
    BY <1>3, <1>5 DEF Typed, VarType
  <2>2. \A i \in Named[o] : manifest'[n][i] = manifest[n][i]
    <3>1. CASE n # CurrentNF
      BY <3>1 DEF Typed, VarType
    <3>2. CASE n = CurrentNF
      <4>1. \A i \in Named[o] : i \in Interfaces /\ i \notin Named[run.object]
        BY <1>3, <1>5, <3>2, NamedAssumption DEF Agreed
      <4>2. \A i \in Named[o] : new[i] = manifest[n][i]
        BY <1>3, <3>2, <4>1 DEF NewIP
      <4> QED BY <3>2, <4>2 DEF Typed, VarType
    <3> QED BY <3>1, <3>2
  <2>3. Stale(o, n, Working(o))' => Stale(o, n, Working(o))
    BY <1>2, <2>2 DEF Stale
  <2>4. CommitsToCome(o, n)' <= CommitsToCome(o, n) /\ CommitsToCome(o, n)' \in 0 .. 2
    BY <1>2, <2>3 DEF CommitsToCome
  <2> QED BY <1>1, <2>1, <2>4, CommitTypes
<1> QED BY <1>4, <1>5

LEMMA CommitPublish == ASSUME Typed, CommitInv, Agreed, Publish PROVE CommitInv'
<1>1. run.pc = "publish" /\ UNCHANGED <<spec, edits>>
  BY DEF Publish
<1>2. CASE (Panic \/ Return) /\ UNCHANGED <<gitVars, tornDown>>
  <2>1. \A o \in Objects : Working(o)' = spec[o]
    BY <1>1, <1>2, IdleType, NoneAssumption DEF Working, Panic, Return
  <2> QED BY <1>1, <1>2, <2>1, CommitElsewhere
<1>3. ASSUME NEW l \in {"deleteNF", "deleteConfig"}, run' = [run EXCEPT !.pc = l]
      PROVE  run'.object = run.object /\ run'.asked = run.asked
  BY <1>1, <1>3, GotoType DEF Locations
<1> QED BY <1>1, <1>2, <1>3, CommitPushed, PublishCases

LEMMA CommitWorker ==
  ASSUME Typed, CommitInv, Reconcile \/ DeleteConfig \/ DeleteNFDeployment
                             \/ DeletePods \/ SyncApps
  PROVE  CommitInv'
<1>1. UNCHANGED <<spec, edits, gitVars>>
  BY DEF Reconcile, DeleteConfig, DeleteNFDeployment, DeletePods, SyncApps, gitVars
<1>2. CASE Reconcile
  <2>1. run.object = None
    BY <1>2, IdleType DEF Reconcile
  <2>2. run' = Idle \/ (run'.asked = spec[run'.object])
    BY <1>2 DEF Reconcile, Idle
  <2>3. \A o \in Objects : Working(o)' = spec[o]
    BY <1>1, <2>2, IdleType, NoneAssumption DEF Working
  <2> QED BY <1>1, <2>3, CommitElsewhere
<1>3. CASE SyncApps
  <2>1. \A o \in Objects : Working(o)' = spec[o]
    BY <1>1, <1>3, IdleType, NoneAssumption DEF Working, SyncApps, Return
  <2> QED BY <1>1, <2>1, CommitElsewhere
<1>4. CASE DeleteConfig \/ DeleteNFDeployment \/ DeletePods
  <2>1. run.pc # "idle"
    BY <1>4 DEF DeleteConfig, DeleteNFDeployment, DeletePods
  <2>2. NextElement \/ \E l \in {"deleteNF", "deletePods"} : run' = [run EXCEPT !.pc = l]
    BY <1>4 DEF DeleteConfig, DeleteNFDeployment, DeletePods, AfterDelete
  <2>3. run'.object = run.object /\ run'.asked = run.asked
    <3>1. CASE NextElement
      BY <2>1, <3>1, NotIdle, NextElementType
    <3>2. ASSUME NEW l \in {"deleteNF", "deletePods"}, run' = [run EXCEPT !.pc = l]
          PROVE  run'.object = run.object /\ run'.asked = run.asked
      BY <2>1, <3>2, GotoType DEF Locations
    <3> QED BY <2>2, <3>1, <3>2
  <2>4. \A o \in Objects : Working(o)' = Working(o)
    BY <1>1, <2>3 DEF Working
  <2> QED BY <1>1, <2>4, CommitElsewhere
<1> QED BY <1>2, <1>3, <1>4

LEMMA CommitEnvironment ==
  ASSUME Typed, CommitInv,
         \/ \E o \in Objects : Resync(o) \/ AddRateLimited(o)
         \/ \E c \in Clusters : ArgoSync(c)
         \/ \E n \in NFs : StartPods(n)
         \/ UNCHANGED vars
  PROVE  CommitInv'
<1>1. UNCHANGED <<spec, edits, run, gitVars>>
  BY DEF Resync, AddRateLimited, ArgoSync, StartPods, vars, gitVars
<1>2. \A o \in Objects : Working(o)' = Working(o)
  BY <1>1 DEF Working
<1> QED BY <1>1, <1>2, CommitElsewhere

(* Objects that share an NF but none of its interfaces commit to its        *)
(* manifest, and tear the NF down, at most once for every edit of theirs.   *)
THEOREM AgreedObjects == Spec => []AgreedCommits
<1> DEFINE Inv == Agreed => CommitInv
<1>1. Init => Inv
  BY CommitInit
<1>2. Typed /\ Inv /\ [Next]_vars => Inv'
  BY CommitEdit, CommitPublish, CommitWorker, CommitEnvironment DEF Next, Worker, Agreed
<1>3. Typed /\ Inv => AgreedCommits
  <2> SUFFICES ASSUME Typed, CommitInv, NEW o \in Objects, NEW n \in NFs
               PROVE  commits[o][n] <= edits[o]
    BY DEF AgreedCommits
  <2> QED BY CommitTypes DEF CommitInv
<1> QED BY TypeCorrect, <1>1, <1>2, <1>3, PTL DEF Spec

-----------------------------------------------------------------------------
(***************************************************************************)
(* Nothing that was deleted is forgotten.                                  *)
(***************************************************************************)
(* An NFDeployment that is gone is about to be brought back.                *)
ComesBack(n) ==
  \/ Cluster[n] \in ops \union run.apps
  \/ run.pc = "deletePods" /\ n = CurrentNF

(* With one dependent each, a run has no clusters to sync until its end,    *)
(* and so loses none when it ends early.                                    *)
RememberInv ==
  OneDependentEach =>
    /\ run.pc # "sync" => run.apps = {}
    /\ \A n \in NFs \ CUs : deployed[n] = None => ComesBack(n)

(* What a run that has done with an element remembers. *)
LEMMA NextElementApps ==
  ASSUME Typed, run.pc # "idle", OneDependentEach, NextElement
  PROVE  /\ run.apps \subseteq run'.apps
         /\ run'.pc # "sync" => run'.apps = run.apps
         /\ CurrentNF \in NFs \ CUs => Cluster[CurrentNF] \in run'.apps
<1>1. /\ run.object \in Objects /\ run \in Runs
      /\ run.element \in 1 .. Len(Elements[run.object])
      /\ Len(Elements[run.object]) \in Nat /\ Len(Elements[run.object]) <= 2
  BY NotIdle, ElementsType DEF Typed, RunInv, VarType, OneDependentEach
<1> DEFINE apps == IF IsCU THEN run.apps ELSE run.apps \union {App}
<1>2. /\ run'.apps = apps
      /\ run.element = Len(Elements[run.object]) => run'.pc = "sync"
  BY <1>1 DEF NextElement, Runs
<1>3. ~ IsCU => run'.pc = "sync"
  BY <1>1, <1>2 DEF IsCU
<1>4. IsCU => CurrentNF \in CUs
  BY <1>1 DEF IsCU, CurrentNF, CUs
<1> QED BY <1>2, <1>3, <1>4 DEF App

LEMMA RememberWorker ==
  ASSUME Typed, RememberInv, OneDependentEach, Worker
  PROVE  RememberInv'
<1>before. /\ run \in Runs
           /\ run.pc # "sync" => run.apps = {}
           /\ \A n \in NFs \ CUs : deployed[n] = None => ComesBack(n)
  BY DEF RememberInv, Typed, VarType
<1> USE DEF ComesBack
<1> SUFFICES /\ run'.pc # "sync" => run'.apps = {}
             /\ \A n \in NFs \ CUs : deployed'[n] = None => ComesBack(n)'
  BY DEF RememberInv
<1>idle. Idle.pc = "idle" /\ Idle.apps = {}
  BY DEF Idle
<1>1. CASE Reconcile
  <2>1. run = Idle /\ run'.pc # "sync" /\ run'.apps = {}
    BY <1>1, <1>idle DEF Reconcile, Idle
  <2> QED BY <1>1, <1>before, <1>idle, <2>1 DEF Reconcile, clusterVars
<1>2. CASE Publish
  <2>1. run.pc = "publish" /\ run.apps = {} /\ UNCHANGED <<deployed, ops>>
    BY <1>2, <1>before DEF Publish, clusterVars
  <2>2. run' = Idle \/ \E l \in {"deleteNF", "deleteConfig"} : run' = [run EXCEPT !.pc = l]
    BY <1>2, PublishCases DEF Panic, Return
  <2>3. run'.apps = {} /\ run'.pc # "sync"
    BY <1>before, <1>idle, <2>1, <2>2 DEF Runs
  <2> QED BY <1>before, <2>1, <2>3
<1>3. CASE DeleteConfig
  <2>1. run.pc = "deleteConfig" /\ run'.pc = "deleteNF" /\ run'.apps = run.apps
    BY <1>3, <1>before DEF DeleteConfig, Runs
  <2> QED BY <1>3, <1>before, <2>1 DEF DeleteConfig
<1>4. CASE DeleteNFDeployment
  <2>0. run.pc = "deleteNF" /\ CurrentNF \in NFs /\ UNCHANGED ops
    BY <1>4, NotIdle DEF DeleteNFDeployment
  <2>1. CASE deployed' = WithoutNF(CurrentNF) /\ AfterDelete
    <3>1. run'.pc = "deletePods" /\ run'.apps = run.apps /\ CurrentNF' = CurrentNF
      BY <2>0, <2>1, <1>before DEF AfterDelete, Runs, CurrentNF
    <3>2. \A n \in NFs : n # CurrentNF => deployed'[n] = deployed[n]
      BY <2>1 DEF WithoutNF, Typed, VarType
    <3> QED BY <2>0, <3>1, <3>2, <1>before
  <2>2. CASE NextElement /\ UNCHANGED deployed
    BY <2>0, <2>2, <1>before, NextElementApps
  <2> QED BY <1>4, <2>1, <2>2 DEF DeleteNFDeployment
<1>5. CASE DeletePods
  <2>1. run.pc = "deletePods" /\ NextElement /\ UNCHANGED <<deployed, ops>>
    BY <1>5 DEF DeletePods
  <2> QED BY <2>1, <1>before, NextElementApps
<1>6. CASE SyncApps
  BY <1>6, <1>before, <1>idle DEF SyncApps, Return
<1> QED BY <1>1, <1>2, <1>3, <1>4, <1>5, <1>6 DEF Worker

LEMMA RememberEnvironment ==
  ASSUME Typed, RememberInv, OneDependentEach,
         \/ \E o \in Objects : EditNFReconfig(o) \/ Resync(o) \/ AddRateLimited(o)
         \/ \E c \in Clusters : ArgoSync(c)
         \/ \E n \in NFs : StartPods(n)
         \/ UNCHANGED vars
  PROVE  RememberInv'
<1>1. UNCHANGED <<run, manifest>>
  BY TypeEnvironment
<1>2. CASE UNCHANGED <<deployed, ops>>
  BY <1>1, <1>2 DEF RememberInv, ComesBack, CurrentNF
<1>3. ASSUME NEW c \in Clusters, ArgoSync(c) PROVE RememberInv'
  <2>1. /\ ops' = ops \ {c}
        /\ \A n \in NFs : deployed'[n] = IF Cluster[n] = c THEN manifest[n] ELSE deployed[n]
    BY <1>3 DEF ArgoSync
  <2>2. \A n \in NFs : manifest[n] # None
    BY NoneAssumption DEF Typed, VarType
  <2> QED BY <1>1, <2>1, <2>2 DEF RememberInv, ComesBack, CurrentNF
<1> QED
  BY <1>2, <1>3 DEF EditNFReconfig, Resync, AddRateLimited, StartPods, clusterVars, vars

(* An NFDeployment that a run deleted is brought back: its cluster is going *)
(* to be synced, whatever ends the run in between.                          *)
THEOREM DeletedIsRemembered == Spec => []Remembered
<1>1. Init => RememberInv
  <2> SUFFICES ASSUME Init PROVE RememberInv
    OBVIOUS
  <2>1. Typed /\ deployed = manifest
    BY TypeInit DEF Init
  <2>2. \A n \in NFs : deployed[n] # None
    BY <2>1, NoneAssumption DEF Typed, VarType
  <2>3. run.apps = {}
    BY DEF Init, Idle
  <2> QED BY <2>2, <2>3 DEF RememberInv
<1>2. Typed /\ RememberInv /\ [Next]_vars => RememberInv'
  <2>1. CASE OneDependentEach
    BY <2>1, RememberWorker, RememberEnvironment DEF Next
  <2>2. CASE ~ OneDependentEach
    BY <2>2 DEF RememberInv, OneDependentEach
  <2> QED BY <2>1, <2>2
<1>3. RememberInv => Remembered
  BY DEF RememberInv, Remembered, ComesBack, OneDependentEach
<1> QED BY TypeCorrect, <1>1, <1>2, <1>3, PTL DEF Spec

-----------------------------------------------------------------------------
(***************************************************************************)
(* No object is left behind.                                               *)
(***************************************************************************)

(* The run has pushed its object's element e. *)
Pushed(e) == e < run.element \/ (e = run.element /\ run.pc # "publish")

(* A run works for what its object asks, or the key will come back, and     *)
(* behind it the manifests have the new addresses.  Of the elements in E:   *)
(* ahead of it they all have what they had, before and after it all have    *)
(* the same.  That is so of the CU alone, and, from the moment they agree   *)
(* with each other, of all.                                                 *)
ServedInv(o, E) ==
  LET nf(e) == Elements[o][e] IN
  /\ run.object = o =>
       /\ o \notin dirty => run.asked = spec[o]
       /\ run.asked = NoIPv4 => run.pc = "publish" /\ run.element = 1
       /\ run.asked # NoIPv4 =>
            \A e \in DOMAIN Elements[o] : Pushed(e) => Carries(o, nf(e), run.asked)
       /\ run.pc = "sync" => run.element = Len(Elements[o])
  /\ \A d, e \in E :
       run.object # o \/ (~ Pushed(d) /\ ~ Pushed(e)) => Carries(o, nf(d), manifest[nf(e)])
  /\ run.object # o /\ o \notin dirty /\ spec[o] \notin {NoIPv4, Deleted} =>
       \A e \in E : Carries(o, nf(e), spec[o])

Scopes(o) == {{1}, DOMAIN Elements[o]}

LEMMA ScopeType ==
  ASSUME NEW o \in Objects, NEW E \in Scopes(o)
  PROVE  E \subseteq DOMAIN Elements[o]
BY ElementsType DEF Scopes

(* An object that is not the run's keeps its addresses, and its promise. *)
LEMMA ServedElsewhere ==
  ASSUME NEW o \in Objects, NEW E \in Scopes(o), ServedInv(o, E), run.object # o, run'.object # o,
         spec'[o] = spec[o], o \notin dirty' => o \notin dirty,
         \A e \in DOMAIN Elements[o] : \A i \in Named[o] :
           manifest'[Elements[o][e]][i] = manifest[Elements[o][e]][i]
  PROVE  ServedInv(o, E)'
BY ScopeType DEF ServedInv, Carries

(* A run that goes on to the next call about the same manifests. *)
LEMMA ServedGoesOn ==
  ASSUME NEW o \in Objects, NEW E \in Scopes(o), ServedInv(o, E), run.object = o, run.pc # "publish",
         run'.object = o, run'.asked = run.asked,
         \A e \in DOMAIN Elements[o] : Pushed(e)' <=> Pushed(e),
         run'.pc = "sync" => run'.element = Len(Elements[o]),
         spec'[o] = spec[o], o \notin dirty' => o \notin dirty, UNCHANGED manifest
  PROVE  ServedInv(o, E)'
BY ScopeType DEF ServedInv, Carries

(* A run that ends with every manifest as it should be. *)
LEMMA ServedAtEnd ==
  ASSUME NEW o \in Objects, NEW E \in Scopes(o), ServedInv(o, E), run.object = o, run.asked # NoIPv4,
         \A e \in E : Carries(o, Elements[o][e], run.asked),
         run' = Idle, spec'[o] = spec[o], UNCHANGED <<dirty, manifest>>
  PROVE  ServedInv(o, E)'
<1>1. run'.object # o
  BY IdleType, NoneAssumption
<1> QED BY <1>1 DEF ServedInv, Carries

LEMMA ServedReconcile ==
  ASSUME Typed, NEW o \in Objects, NEW E \in Scopes(o), ServedInv(o, E), Reconcile
  PROVE  ServedInv(o, E)'
<1>1. run = Idle /\ run.object # o /\ UNCHANGED <<spec, manifest>>
  BY IdleType, NoneAssumption DEF Reconcile, gitVars
<1>2. CASE o = Head(queue) /\ spec[o] # Deleted
  <2>1. /\ run'.object = o /\ run'.pc = "publish"
        /\ run'.element = 1 /\ run'.asked = spec[o]
    BY <1>2 DEF Reconcile, Idle
  <2>2. \A e \in DOMAIN Elements[o] : ~ Pushed(e)'
    BY <2>1, ElementsType DEF Pushed
  <2> QED BY <1>1, <2>1, <2>2, ScopeType DEF ServedInv, Carries
<1>3. CASE o = Head(queue) /\ spec[o] = Deleted
  <2>1. run'.object # o
    BY <1>3, IdleType, NoneAssumption DEF Reconcile
  <2> QED BY <1>1, <1>3, <2>1 DEF ServedInv, Carries
<1>4. CASE o # Head(queue)
  <2>1. run'.object # o /\ (o \notin dirty' => o \notin dirty)
    BY <1>4, NoneAssumption DEF Reconcile, Idle
  <2> QED BY <1>1, <2>1, ServedElsewhere
<1> QED BY <1>2, <1>3, <1>4

LEMMA ServedPublish ==
  ASSUME Typed, Agreed, Distinct, NEW o \in Objects, NEW E \in Scopes(o), ServedInv(o, E), Publish
  PROVE  ServedInv(o, E)'
<1> DEFINE new == [i \in Interfaces |-> NewIP(i)]
<1>1. /\ run.pc = "publish" /\ UNCHANGED spec
      /\ run.object \in Objects /\ CurrentNF \in NFs
      /\ run.element \in DOMAIN Elements[run.object]
      /\ run \in Runs
      /\ manifest \in [NFs -> Contents]
      /\ \A p \in Objects : Named[p] \subseteq Interfaces
  BY NotIdle, NamedAssumption DEF Publish, Typed, RunInv, VarType
<1>elements. /\ DOMAIN Elements[o] \subseteq Nat
             /\ \A e \in DOMAIN Elements[o] : Elements[o][e] \in NFs
  BY ElementsType
<1>asked. run.asked # NoIPv4 =>
            /\ \A i \in Named[run.object] : new[i] = run.asked[i]
            /\ \A i \in Interfaces \ Named[run.object] : new[i] = manifest[CurrentNF][i]
  BY <1>1, PushedContent DEF NewIP
<1>2. CASE run.asked = NoIPv4
  <2>1. run' = Idle /\ UNCHANGED <<dirty, manifest>>
    BY <1>2 DEF Publish, NoAddress, Panic, gitVars
  <2>2. run'.object # o
    BY <2>1, IdleType, NoneAssumption
  <2>3. CASE run.object = o
    <3>1. \A e \in DOMAIN Elements[o] : ~ Pushed(e)
      BY <1>1, <1>2, <2>3, ElementsType DEF ServedInv, Pushed
    <3> QED BY <1>1, <1>2, <2>1, <2>2, <2>3, <3>1, ScopeType DEF ServedInv, Carries
  <2>4. CASE run.object # o
    BY <1>1, <2>1, <2>2, <2>4, ServedElsewhere
  <2> QED BY <2>3, <2>4
<1>3. CASE run.asked # NoIPv4 /\ new = manifest[CurrentNF] /\ CurrentNF \in canonical
  <2>1. run' = Idle /\ UNCHANGED <<dirty, manifest>>
    BY <1>3 DEF Publish, Return, gitVars
  <2>2. run'.object # o
    BY <2>1, IdleType, NoneAssumption
  <2>3. CASE run.object = o
    <3>1. Carries(o, CurrentNF, run.asked)
      BY <1>asked, <1>3, <2>3 DEF Carries
    <3>2. ASSUME NEW e \in E PROVE Carries(o, Elements[o][e], run.asked)
      <4>0. e \in DOMAIN Elements[o]
        BY ScopeType
      <4>1. CASE Pushed(e)
        BY <1>3, <2>3, <4>0, <4>1 DEF ServedInv
      <4>2. CASE ~ Pushed(e) /\ E = {1}
        <5>1. e = run.element
          BY <1>1, <1>elements, <2>3, <4>2, ElementsType DEF Pushed
        <5> QED BY <2>3, <3>1, <5>1 DEF CurrentNF
      <4>3. CASE ~ Pushed(e) /\ E = DOMAIN Elements[o]
        <5>1. ~ Pushed(run.element)
          BY <1>1, <1>elements, <2>3 DEF Pushed
        <5>2. Carries(o, Elements[o][e], manifest[CurrentNF])
          BY <1>1, <2>3, <4>3, <5>1 DEF ServedInv, CurrentNF
        <5> QED BY <3>1, <5>2 DEF Carries
      <4> QED BY <4>1, <4>2, <4>3 DEF Scopes
    <3> QED BY <1>1, <1>3, <2>1, <2>3, <3>2, ServedAtEnd
  <2>4. CASE run.object # o
    BY <1>1, <2>1, <2>2, <2>4, ServedElsewhere
  <2> QED BY <2>3, <2>4
<1>4. CASE run.asked # NoIPv4 /\ ~ (new = manifest[CurrentNF] /\ CurrentNF \in canonical)
  <2>1. /\ manifest' = [manifest EXCEPT ![CurrentNF] = new]
        /\ UNCHANGED queueVars
        /\ \E l \in {"deleteNF", "deleteConfig"} : run' = [run EXCEPT !.pc = l]
    BY <1>4 DEF Publish
  <2>2. /\ run'.object = run.object /\ run'.asked = run.asked
        /\ run'.element = run.element /\ run'.pc \in {"deleteNF", "deleteConfig"}
    BY <1>1, <2>1 DEF Runs
  <2> HIDE DEF new
  <2>3. /\ manifest'[CurrentNF] = new
        /\ \A n \in NFs : n # CurrentNF => manifest'[n] = manifest[n]
    BY <1>1, <2>1
  <2>4. CASE run.object = o
    <3>1. \A e \in DOMAIN Elements[o] : Pushed(e)' <=> (Pushed(e) \/ e = run.element)
      BY <1>1, <1>elements, <2>2 DEF Pushed
    <3>2. \A e \in DOMAIN Elements[o] :
            e # run.element => manifest'[Elements[o][e]] = manifest[Elements[o][e]]
      <4>1. \A e \in DOMAIN Elements[o] : e # run.element => Elements[o][e] # CurrentNF
        BY <1>1, <2>4 DEF Distinct, CurrentNF
      <4> QED BY <2>3, <4>1, <1>elements
    <3>3. \A i \in Named[o] : manifest'[Elements[o][run.element]][i] = run.asked[i]
      BY <1>4, <1>asked, <2>3, <2>4 DEF CurrentNF
    <3>4. \A e \in DOMAIN Elements[o] : Pushed(e)' => Carries(o, Elements[o][e], run.asked)'
      <4> SUFFICES ASSUME NEW e \in DOMAIN Elements[o], Pushed(e)', NEW i \in Named[o]
                   PROVE  manifest'[Elements[o][e]][i] = run'.asked[i]
        BY DEF Carries
      <4>1. CASE e = run.element
        BY <2>2, <3>3, <4>1
      <4>2. CASE e # run.element
        BY <1>4, <2>2, <2>4, <3>1, <3>2, <4>2 DEF ServedInv, Carries
      <4> QED BY <4>1, <4>2
    <3>5. \A d, e \in E : ~ Pushed(d)' /\ ~ Pushed(e)' =>
            \A i \in Named[o] : manifest'[Elements[o][d]][i] = manifest'[Elements[o][e]][i]
      BY <2>4, <3>1, <3>2, ScopeType DEF ServedInv, Carries
    <3> QED
      BY <1>1, <1>4, <2>1, <2>2, <2>4, <3>4, <3>5 DEF ServedInv, Carries, queueVars
  <2>5. CASE run.object # o
    <3>1. \A i \in Named[o] : i \in Interfaces \ Named[run.object]
      BY <1>1, <2>5 DEF Agreed
    <3>2. \A e \in DOMAIN Elements[o] : \A i \in Named[o] :
            manifest'[Elements[o][e]][i] = manifest[Elements[o][e]][i]
      <4> SUFFICES ASSUME NEW n \in NFs, NEW i \in Named[o]
                   PROVE  manifest'[n][i] = manifest[n][i]
        BY <1>elements
      <4>1. CASE n = CurrentNF
        BY <1>4, <1>asked, <2>3, <3>1, <4>1
      <4>2. CASE n # CurrentNF
        BY <2>3, <4>2
      <4> QED BY <4>1, <4>2
    <3> QED BY <1>1, <2>1, <2>2, <2>5, <3>2, ServedElsewhere DEF queueVars
  <2> QED BY <2>4, <2>5
<1> QED BY <1>2, <1>3, <1>4

LEMMA ServedTeardown ==
  ASSUME Typed, NEW o \in Objects, NEW E \in Scopes(o), ServedInv(o, E),
         DeleteConfig \/ DeleteNFDeployment \/ DeletePods
  PROVE  ServedInv(o, E)'
<1>1. /\ UNCHANGED <<spec, dirty, manifest>>
      /\ run.pc \in {"deleteConfig", "deleteNF", "deletePods"}
      /\ \/ \E l \in {"deleteNF", "deletePods"} : run' = [run EXCEPT !.pc = l]
         \/ NextElement
  BY DEF DeleteConfig, DeleteNFDeployment, DeletePods, AfterDelete, queueVars, gitVars
<1>2. /\ run.object # None /\ run.object \in Objects /\ run \in Runs
      /\ run.element \in Nat
  BY <1>1, NotIdle DEF Typed, VarType, Runs
<1>elements. DOMAIN Elements[o] \subseteq Nat
  BY ElementsType
<1>3. CASE \E l \in {"deleteNF", "deletePods"} : run' = [run EXCEPT !.pc = l]
  <2>1. /\ run'.object = run.object /\ run'.asked = run.asked
        /\ run'.element = run.element /\ run'.pc \in {"deleteNF", "deletePods"}
    BY <1>2, <1>3 DEF Runs
  <2>2. \A e \in DOMAIN Elements[o] : Pushed(e)' <=> Pushed(e)
    BY <1>1, <2>1 DEF Pushed
  <2> QED BY <1>1, <2>1, <2>2, ServedGoesOn, ServedElsewhere
<1>4. CASE NextElement
  <2>1. run'.object = run.object /\ run'.asked = run.asked
    BY <1>2, <1>4, NextElementType
  <2>2. \/ /\ run.element = Len(Elements[run.object])
           /\ run'.pc = "sync" /\ run'.element = run.element
        \/ run'.pc = "publish" /\ run'.element = run.element + 1
    BY <1>2, <1>4 DEF NextElement, Runs
  <2>3. \A e \in DOMAIN Elements[o] : Pushed(e)' <=> Pushed(e)
    BY <1>1, <1>2, <1>elements, <2>2 DEF Pushed
  <2> QED BY <1>1, <2>1, <2>2, <2>3, ServedGoesOn, ServedElsewhere
<1> QED BY <1>1, <1>3, <1>4

LEMMA ServedSync ==
  ASSUME Typed, NEW o \in Objects, NEW E \in Scopes(o), ServedInv(o, E), SyncApps
  PROVE  ServedInv(o, E)'
<1>1. /\ run.pc = "sync" /\ run' = Idle
      /\ UNCHANGED <<spec, dirty, manifest>>
  BY DEF SyncApps, Return, gitVars
<1>2. CASE run.object = o
  <2>1. run.element = Len(Elements[o]) /\ run.asked # NoIPv4
    BY <1>1, <1>2 DEF ServedInv
  <2>2. \A e \in DOMAIN Elements[o] : Pushed(e)
    BY <1>1, <2>1, ElementsType DEF Pushed
  <2>3. \A e \in E : Carries(o, Elements[o][e], run.asked)
    BY <1>2, <2>1, <2>2, ScopeType DEF ServedInv
  <2> QED BY <1>1, <1>2, <2>1, <2>3, ServedAtEnd
<1>3. CASE run.object # o
  BY <1>1, <1>3, IdleType, NoneAssumption, ServedElsewhere
<1> QED BY <1>2, <1>3

LEMMA ServedEnvironment ==
  ASSUME Typed, NEW o \in Objects, NEW E \in Scopes(o), ServedInv(o, E),
         \/ \E p \in Objects : EditNFReconfig(p) \/ Resync(p) \/ AddRateLimited(p)
         \/ \E c \in Clusters : ArgoSync(c)
         \/ \E n \in NFs : StartPods(n)
         \/ UNCHANGED vars
  PROVE  ServedInv(o, E)'
<1>1. UNCHANGED <<run, manifest>>
  BY TypeEnvironment
<1>2. o \notin dirty' => o \notin dirty /\ spec'[o] = spec[o]
  <2>1. CASE UNCHANGED <<spec, dirty>>
    BY <2>1
  <2>2. ASSUME NEW p \in Objects, EditNFReconfig(p)
        PROVE  o \notin dirty' => o \notin dirty /\ spec'[o] = spec[o]
    <3>1. /\ dirty' = dirty \union {p}
          /\ \E v : spec' = [spec EXCEPT ![p] = v]
      BY <2>2 DEF EditNFReconfig, Add
    <3> QED BY <3>1 DEF Typed, VarType
  <2>3. ASSUME NEW p \in Objects, Resync(p) \/ AddRateLimited(p)
        PROVE  dirty' = dirty \union {p} /\ UNCHANGED spec
    BY <2>3 DEF Resync, AddRateLimited, Add
  <2> QED BY <2>1, <2>2, <2>3 DEF ArgoSync, StartPods, vars, queueVars
<1>3. \A e : Pushed(e)' <=> Pushed(e)
  BY <1>1 DEF Pushed
<1> QED BY <1>1, <1>2, <1>3 DEF ServedInv, Carries

(* What is so of the elements of an object stays so.                        *)
LEMMA ServedNext ==
  ASSUME Agreed, Distinct, NEW o \in Objects, NEW E \in Scopes(o),
         Typed, ServedInv(o, E), [Next]_vars
  PROVE  ServedInv(o, E)'
BY ServedReconcile, ServedPublish, ServedTeardown, ServedSync, ServedEnvironment
   DEF Next, Worker

(* Once the NFs of an object agree on what it names, its requests reach all *)
(* of them, or its key is still to be worked on, for ever, however many     *)
(* objects share the manifests and whatever was in them to begin with.      *)
THEOREM NoObjectLeftBehind == Spec => AllServed
<1>1. ASSUME Agreed, Distinct, NEW o \in Objects
      PROVE  Spec => [](Even(o) /\ run.object # o => []Served(o))
  <2> DEFINE All == DOMAIN Elements[o]
  <2>1. {1} \in Scopes(o) /\ All \in Scopes(o)
    BY DEF Scopes
  <2>2. Init => ServedInv(o, {1})
    BY IdleType, NoneAssumption DEF Init, ServedInv, Carries
  <2>3. Typed /\ ServedInv(o, {1}) /\ [Next]_vars => ServedInv(o, {1})'
    BY <1>1, <2>1, ServedNext
  <2>4. ServedInv(o, {1}) /\ Even(o) /\ run.object # o => ServedInv(o, All)
    <3> SUFFICES ASSUME ServedInv(o, {1}), Even(o), run.object # o
                 PROVE  ServedInv(o, All)
      OBVIOUS
    <3>1. 1 \in All
      BY ElementsType
    <3>2. \A e \in All : \A i \in Named[o] :
            manifest[Elements[o][e]][i] = manifest[Elements[o][1]][i]
      BY <3>1 DEF Even, Carries
    <3> QED BY <3>2 DEF ServedInv, Even, Carries
  <2>5. Typed /\ ServedInv(o, All) /\ [Next]_vars => ServedInv(o, All)'
    BY <1>1, <2>1, ServedNext
  <2>6. ServedInv(o, All) => Served(o)
    BY DEF ServedInv, Served
  <2> HIDE DEF All
  <2> QED BY TypeCorrect, <2>2, <2>3, <2>4, <2>5, <2>6, PTL DEF Spec
<1> QED BY <1>1 DEF AllServed
=============================================================================
