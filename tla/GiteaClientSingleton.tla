------------------------ MODULE GiteaClientSingleton ------------------------
(***************************************************************************)
(* The package giteaclient: GetClient makes the process's Gitea client on   *)
(* the first call, with a check, a lock and a second check, and keeps it    *)
(* for ever.  Start reads the credentials, makes a gitea.Client and tests   *)
(* it, all while the lock is held.                                         *)
(*                                                                         *)
(* Callers are the goroutines that run InitializeGiteaClient.  The manager  *)
(* leaves MaxConcurrentReconciles at 1, so there is one of them; the lock   *)
(* is there for more, and nothing here depends on how many there are.       *)
(*                                                                         *)
(* An instance of gc is named after the caller that makes it.  A password   *)
(* is the number of rotations before it was set.                            *)
(***************************************************************************)
EXTENDS Integers, FiniteSets

CONSTANTS
  Callers,      \* goroutines that call InitializeGiteaClient
  None,         \* a nil pointer
  MaxRotations, \* bound on the changes of the password
  MaxOutages,   \* bound on the times the secret or Gitea cannot be reached
  MaxRestarts   \* bound on the restarts of the process

ASSUME CallersAssumption == None \notin Callers \union Nat
ASSUME BoundsAssumption ==
  /\ MaxRotations \in Nat
  /\ MaxOutages \in Nat
  /\ MaxRestarts \in Nat

VARIABLES
  singleInstance, \* the package variable
  giteaClient,    \* of every instance: its client's password, None while nil
  lock,           \* the caller that holds the mutex
  pc,             \* where every caller is
  instance,       \* what GetClient returned to every caller
  read,           \* the password a caller's Start read from the secret
  synced,         \* callers that are sure to see what the others wrote
  starts,         \* history: calls of Start in this process
  password,       \* the password Gitea accepts
  secret,         \* the password in the Kubernetes secret
  reachable,      \* the API server and Gitea answer
  outages,        \* number of outages so far
  restarts        \* number of restarts so far

localVars == <<pc, instance, read>>
serverVars == <<password, secret, reachable, outages>>
vars == <<singleInstance, giteaClient, lock, pc, instance, read, synced, starts,
          password, secret, reachable, outages, restarts>>

InStart == {"readSecret", "newClient", "verify"}

UnderLock == {"recheck", "publish", "unlock"} \union InStart

Locations == {"idle", "lock", "isInitialized", "userInfo"} \union UnderLock

Init ==
  /\ singleInstance = None
  /\ giteaClient = [c \in Callers |-> None]
  /\ lock = None
  /\ pc = [c \in Callers |-> "idle"]
  /\ instance = [c \in Callers |-> None]
  /\ read = [c \in Callers |-> None]
  /\ synced = Callers
  /\ starts = 0
  /\ password = 0
  /\ secret = 0
  /\ reachable = TRUE
  /\ outages = 0
  /\ restarts = 0

Goto(c, l) == pc' = [pc EXCEPT ![c] = l]

-----------------------------------------------------------------------------
(* The first check reads singleInstance without the lock.  A caller that    *)
(* has not synchronised with the one that wrote it may still find it nil.   *)
GetClient(c) ==
  /\ pc[c] = "idle"
  /\ \/ /\ singleInstance # None
        /\ instance' = [instance EXCEPT ![c] = singleInstance]
        /\ Goto(c, "isInitialized")
     \/ /\ singleInstance = None \/ c \notin synced
        /\ Goto(c, "lock")
        /\ UNCHANGED instance
  /\ UNCHANGED <<singleInstance, giteaClient, lock, read, synced, starts,
                 serverVars, restarts>>

(* To take the mutex is to see everything written under it.                 *)
Lock(c) ==
  /\ pc[c] = "lock"
  /\ lock = None
  /\ lock' = c
  /\ synced' = synced \union {c}
  /\ Goto(c, "recheck")
  /\ UNCHANGED <<singleInstance, giteaClient, instance, read, starts, serverVars,
                 restarts>>

(* Mutant: there is no second check. *)
MustStart_Always == TRUE

MustStart == singleInstance = None

(* Mutant: the instance is in singleInstance while it is being started. *)
Making_Published(c) == singleInstance' = c

Making(c) == UNCHANGED singleInstance

CheckAgain(c) ==
  /\ pc[c] = "recheck"
  /\ \/ /\ MustStart
        /\ Making(c)
        /\ giteaClient' = [giteaClient EXCEPT ![c] = None]
        /\ starts' = starts + 1
        /\ Goto(c, "readSecret")
     \/ /\ ~ MustStart
        /\ Goto(c, "unlock")
        /\ UNCHANGED <<singleInstance, giteaClient, starts>>
  /\ UNCHANGED <<lock, instance, read, synced, serverVars, restarts>>

(* Start, GetGiteaSecretUserNamePassword.  An error ends Start; the         *)
(* instance is kept all the same.                                           *)
ReadSecret(c) ==
  /\ pc[c] = "readSecret"
  /\ \/ /\ reachable
        /\ read' = [read EXCEPT ![c] = secret]
        /\ Goto(c, "newClient")
     \/ /\ ~ reachable
        /\ Goto(c, "publish")
        /\ UNCHANGED read
  /\ UNCHANGED <<singleInstance, giteaClient, lock, instance, synced, starts,
                 serverVars, restarts>>

(* gitea.NewClient asks the server for its version.                         *)
NewClient(c) ==
  /\ pc[c] = "newClient"
  /\ Goto(c, IF reachable THEN "verify" ELSE "publish")
  /\ UNCHANGED <<singleInstance, giteaClient, lock, instance, read, synced,
                 starts, serverVars, restarts>>

Accepted(p) == reachable /\ p = password

(* Start tests the client, and only then makes it the instance's.           *)
VerifyConnection(c) ==
  /\ pc[c] = "verify"
  /\ giteaClient' = IF Accepted(read[c])
                    THEN [giteaClient EXCEPT ![c] = read[c]]
                    ELSE giteaClient
  /\ Goto(c, "publish")
  /\ UNCHANGED <<singleInstance, lock, instance, read, synced, starts,
                 serverVars, restarts>>

(* Mutant: the gitea.Client is kept in place of the gc around it. *)
Published_Client(c) == giteaClient[c]

Published(c) == c

(* What is written here and in Start is not sure to be seen without the     *)
(* lock, or in this order.                                                  *)
Publish(c) ==
  /\ pc[c] = "publish"
  /\ singleInstance' = Published(c)
  /\ synced' = {c}
  /\ Goto(c, "unlock")
  /\ UNCHANGED <<giteaClient, lock, instance, read, starts, serverVars, restarts>>

(* Mutant: the mutex is not released when Start failed. *)
Released_OnSuccess(c) ==
  IF giteaClient[singleInstance] = None THEN lock ELSE None

(* The deferred Unlock. *)
Released(c) == None

Unlock(c) ==
  /\ pc[c] = "unlock"
  /\ lock' = Released(c)
  /\ instance' = [instance EXCEPT ![c] = singleInstance]
  /\ Goto(c, "isInitialized")
  /\ UNCHANGED <<singleInstance, giteaClient, read, synced, starts, serverVars,
                 restarts>>

(* The caller's next look at the client: a nil one is "not yet initialized, *)
(* retrying later", and ends the Reconcile.  A caller that took the         *)
(* instance without the lock may see it without its client.                 *)
IsInitialized(c) ==
  /\ pc[c] = "isInitialized"
  /\ \/ /\ giteaClient[instance[c]] # None
        /\ Goto(c, "userInfo")
     \/ /\ giteaClient[instance[c]] = None \/ c \notin synced
        /\ Goto(c, "idle")
  /\ UNCHANGED <<singleInstance, giteaClient, lock, instance, read, synced,
                 starts, serverVars, restarts>>

(* InitializeGiteaClient asks Gitea who it is; an error ends the Reconcile. *)
GetMyUserInfo(c) ==
  /\ pc[c] = "userInfo"
  /\ Goto(c, "idle")
  /\ UNCHANGED <<singleInstance, giteaClient, lock, instance, read, synced,
                 starts, serverVars, restarts>>

(* A Reconcile calls InitializeGiteaClient.  What it does with the answer   *)
(* is in NFReconfigController; in the end there is another Reconcile.       *)
Call(c) ==
  \/ GetClient(c)
  \/ Lock(c)
  \/ CheckAgain(c)
  \/ ReadSecret(c)
  \/ NewClient(c)
  \/ VerifyConnection(c)
  \/ Publish(c)
  \/ Unlock(c)
  \/ IsInitialized(c)
  \/ GetMyUserInfo(c)

-----------------------------------------------------------------------------
(* What was written becomes visible to everyone. *)
Propagate ==
  /\ synced # Callers
  /\ synced' = Callers
  /\ UNCHANGED <<singleInstance, giteaClient, lock, localVars, starts, serverVars,
                 restarts>>

(* The password is changed in Gitea, and then in the secret. *)
RotatePassword ==
  /\ password < MaxRotations
  /\ password' = password + 1
  /\ UNCHANGED <<singleInstance, giteaClient, lock, localVars, synced, starts,
                 secret, reachable, outages, restarts>>

UpdateSecret ==
  /\ secret # password
  /\ secret' = password
  /\ UNCHANGED <<singleInstance, giteaClient, lock, localVars, synced, starts,
                 password, reachable, outages, restarts>>

Outage ==
  /\ reachable
  /\ outages < MaxOutages
  /\ reachable' = FALSE
  /\ outages' = outages + 1
  /\ UNCHANGED <<singleInstance, giteaClient, lock, localVars, synced, starts,
                 password, secret, restarts>>

Recovery ==
  /\ ~ reachable
  /\ reachable' = TRUE
  /\ UNCHANGED <<singleInstance, giteaClient, lock, localVars, synced, starts,
                 password, secret, outages, restarts>>

(* A new process; nothing of the old one is left. *)
Restart ==
  /\ restarts < MaxRestarts
  /\ restarts' = restarts + 1
  /\ singleInstance' = None
  /\ giteaClient' = [c \in Callers |-> None]
  /\ lock' = None
  /\ pc' = [c \in Callers |-> "idle"]
  /\ instance' = [c \in Callers |-> None]
  /\ read' = [c \in Callers |-> None]
  /\ synced' = Callers
  /\ starts' = 0
  /\ UNCHANGED serverVars

Next ==
  \/ \E c \in Callers : Call(c)
  \/ Propagate
  \/ RotatePassword
  \/ UpdateSecret
  \/ Outage
  \/ Recovery
  \/ Restart

(* Every call goes on and is made again, Go's mutex hands over to callers   *)
(* that wait long, memory becomes visible and outages end.                  *)
Fairness ==
  /\ \A c \in Callers : WF_vars(Call(c)) /\ SF_vars(Lock(c))
  /\ WF_vars(Propagate)
  /\ WF_vars(UpdateSecret)
  /\ WF_vars(Recovery)

Spec == Init /\ [][Next]_vars

FairSpec == Spec /\ Fairness

-----------------------------------------------------------------------------
TypeOK ==
  /\ singleInstance \in Callers \union {None}
  /\ giteaClient \in [Callers -> Nat \union {None}]
  /\ lock \in Callers \union {None}
  /\ pc \in [Callers -> Locations]
  /\ instance \in [Callers -> Callers \union {None}]
  /\ read \in [Callers -> Nat \union {None}]
  /\ synced \in SUBSET Callers
  /\ starts \in Nat
  /\ password \in Nat
  /\ secret \in Nat
  /\ reachable \in BOOLEAN
  /\ outages \in Nat
  /\ restarts \in Nat

(* A process starts one client only, however many goroutines find none at   *)
(* the same time.                                                           *)
OneStart == starts <= 1

(* No caller is given an instance whose Start is still running: a client    *)
(* that is nil is one whose Start failed, or one written by a goroutine the *)
(* caller has not synchronised with, never one that needs a moment more.    *)
NoneHalfStarted ==
  \A c \in Callers :
    pc[c] \in {"isInitialized", "userInfo"} =>
      /\ instance[c] # None
      /\ pc[instance[c]] \notin InStart

(* The mutex is never left behind: the caller that holds it is at one of    *)
(* the steps that end in its Unlock, however Start ended, and after a       *)
(* restart nobody holds it.                                                 *)
LockIsGivenBack == lock # None => pc[lock] \in UnderLock

(* A call of GetClient returns: nobody waits for ever for the lock, which   *)
(* is held during three requests to other systems, whether they succeed or  *)
(* not.                                                                     *)
EveryCallReturns ==
  \A c \in Callers : (pc[c] = "lock") ~> (pc[c] \in {"isInitialized", "idle"})

(* A Gitea client whose start failed is "not yet initialized, retrying      *)
(* later": it is initialized later.                                         *)
Initialized == singleInstance # None /\ giteaClient[singleInstance] # None

ClientRetried == (singleInstance # None) ~> Initialized

-----------------------------------------------------------------------------
(***************************************************************************)
(* The variable client of NFReconfigController.                            *)
(***************************************************************************)
client ==
  IF singleInstance = None THEN "nil"
  ELSE IF giteaClient[singleInstance] = None THEN "uninitialized"
  ELSE IF giteaClient[singleInstance] = password THEN "valid"
  ELSE "revoked"

Lifecycle == INSTANCE GiteaClientLifecycle

(* The package does what the controller's model takes for granted of it.    *)
HonoursLifecycle == Lifecycle!Spec
=============================================================================
