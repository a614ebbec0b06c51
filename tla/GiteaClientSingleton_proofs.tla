--------------------- MODULE GiteaClientSingleton_proofs ---------------------
(* Theorems about GiteaClientSingleton, for any number of callers. *)
EXTENDS GiteaClientSingleton, TLAPS

(***************************************************************************)
(* Why OneStart and NoneHalfStarted hold: an inductive invariant.           *)
(***************************************************************************)
StartingUp == InStart \union {"publish"}

(* The owner of the lock, and nobody else, is where the lock is held.       *)
LockInv ==
  /\ \A c \in Callers : pc[c] \in UnderLock => lock = c
  /\ LockIsGivenBack

(* An instance is made while there is none, and what callers hold is the    *)
(* one instance there is.                                                   *)
InstanceInv ==
  \A c \in Callers :
    /\ pc[c] \in StartingUp => singleInstance = None
    /\ pc[c] = "unlock" => singleInstance # None
    /\ pc[c] \in {"isInitialized", "userInfo"} =>
         singleInstance # None /\ instance[c] = singleInstance

(* The one start is under way, or there is an instance.                     *)
StartsInv ==
  /\ starts <= 1
  /\ singleInstance = None /\ (\A c \in Callers : pc[c] \notin StartingUp) => starts = 0

(* Nobody has a password of the future. *)
PasswordInv ==
  \A c \in Callers : giteaClient[c] # None => giteaClient[c] <= password

-----------------------------------------------------------------------------
(* The types the invariant rests on. *)
VarType ==
  /\ singleInstance \in Callers \union {None}
  /\ giteaClient \in [Callers -> Nat \union {None}]
  /\ lock \in Callers \union {None}
  /\ pc \in [Callers -> Locations]
  /\ instance \in [Callers -> Callers \union {None}]
  /\ read \in [Callers -> Nat \union {None}]
  /\ starts \in Nat
  /\ password \in Nat
  /\ secret \in Nat
  /\ outages \in Nat
  /\ restarts \in Nat

OtherType == synced \in SUBSET Callers /\ reachable \in BOOLEAN

Environment ==
  \/ Propagate
  \/ RotatePassword
  \/ UpdateSecret
  \/ Outage
  \/ Recovery
  \/ Restart
  \/ UNCHANGED vars

LEMMA TypeInit == Init => VarType /\ OtherType
BY DEF Init, VarType, OtherType, Locations

LEMMA TypeCall ==
  ASSUME VarType, InstanceInv, NEW c \in Callers, Call(c)
  PROVE  VarType'
<1> USE DEF VarType, Goto, serverVars, Locations, UnderLock, InStart
<1>1. CASE GetClient(c)
  BY <1>1 DEF GetClient
<1>2. CASE Lock(c)
  BY <1>2 DEF Lock
<1>3. CASE CheckAgain(c)
  BY <1>3 DEF CheckAgain, Making
<1>4. CASE ReadSecret(c)
  BY <1>4 DEF ReadSecret
<1>5. CASE NewClient(c)
  BY <1>5 DEF NewClient
<1>6. CASE VerifyConnection(c)
  <2>1. giteaClient' \in [Callers -> Nat \union {None}]
    BY <1>6 DEF VerifyConnection
  <2> QED BY <1>6, <2>1 DEF VerifyConnection
<1>7. CASE Publish(c)
  BY <1>7 DEF Publish, Published
<1>8. CASE Unlock(c)
  BY <1>8 DEF Unlock, Released
<1>9. CASE IsInitialized(c)
  BY <1>9 DEF IsInitialized
<1>10. CASE GetMyUserInfo(c)
  BY <1>10 DEF GetMyUserInfo
<1> QED
  BY <1>1, <1>2, <1>3, <1>4, <1>5, <1>6, <1>7, <1>8, <1>9, <1>10 DEF Call

LEMMA TypeEnvironment == ASSUME VarType, Environment PROVE VarType'
<1> USE DEF VarType, localVars, serverVars
<1>1. CASE Restart
  BY <1>1 DEF Restart, Locations
<1>2. CASE Propagate \/ RotatePassword \/ UpdateSecret
  BY <1>2 DEF Propagate, RotatePassword, UpdateSecret
<1>3. CASE Outage \/ Recovery \/ UNCHANGED vars
  BY <1>3 DEF Outage, Recovery, vars
<1> QED BY <1>1, <1>2, <1>3 DEF Environment

LEMMA OtherTypeStep == ASSUME OtherType, [Next]_vars PROVE OtherType'
<1> USE DEF OtherType, serverVars
<1>1. ASSUME NEW c \in Callers, Call(c)
      PROVE  OtherType'
  BY <1>1 DEF Call, GetClient, Lock, CheckAgain, ReadSecret, NewClient,
          VerifyConnection, Publish, Unlock, IsInitialized, GetMyUserInfo
<1>2. CASE Environment
  BY <1>2 DEF Environment, Propagate, RotatePassword, UpdateSecret, Outage,
              Recovery, Restart, vars
<1> QED BY <1>1, <1>2 DEF Next, Environment

IInv == VarType /\ LockInv /\ InstanceInv /\ StartsInv /\ PasswordInv

LEMMA InvInit == Init => IInv
<1> SUFFICES ASSUME Init PROVE LockInv /\ InstanceInv /\ StartsInv /\ PasswordInv
  BY TypeInit DEF IInv
<1> QED BY DEF Init, LockInv, LockIsGivenBack, InstanceInv, StartsInv, PasswordInv, UnderLock, StartingUp,
               InStart

(* The lock is passed on by Lock and Unlock only. *)
LEMMA LockStep ==
  ASSUME IInv, NEW c \in Callers, Call(c)
  PROVE  LockInv'
<1> USE CallersAssumption
        DEF IInv, VarType, LockInv, LockIsGivenBack, Goto, UnderLock, InStart,
            Locations
<1>1. CASE GetClient(c) \/ IsInitialized(c) \/ GetMyUserInfo(c)
  BY <1>1 DEF GetClient, IsInitialized, GetMyUserInfo
<1>2. CASE Lock(c)
  BY <1>2 DEF Lock
<1>3. CASE CheckAgain(c) \/ Publish(c)
  BY <1>3 DEF CheckAgain, Publish
<1>4. CASE ReadSecret(c) \/ NewClient(c) \/ VerifyConnection(c)
  BY <1>4 DEF ReadSecret, NewClient, VerifyConnection
<1>5. CASE Unlock(c)
  BY <1>5 DEF Unlock, Released
<1> QED BY <1>1, <1>2, <1>3, <1>4, <1>5 DEF Call

(* An instance is stored by the owner of the lock, while there is none.     *)
LEMMA InstanceStep ==
  ASSUME IInv, NEW c \in Callers, Call(c)
  PROVE  InstanceInv'
<1> USE CallersAssumption
        DEF IInv, VarType, InstanceInv, Goto, StartingUp, InStart, Locations
<1>1. CASE GetClient(c)
  BY <1>1 DEF GetClient
<1>2. CASE Lock(c) \/ IsInitialized(c) \/ GetMyUserInfo(c)
  BY <1>2 DEF Lock, IsInitialized, GetMyUserInfo
<1>3. CASE CheckAgain(c)
  BY <1>3 DEF CheckAgain, MustStart, Making
<1>4. CASE ReadSecret(c) \/ NewClient(c) \/ VerifyConnection(c)
  BY <1>4 DEF ReadSecret, NewClient, VerifyConnection
<1>5. CASE Publish(c)
  <2>1. \A d \in Callers : pc[d] \in StartingUp => d = c
    BY <1>5 DEF Publish, LockInv, UnderLock
  <2>2. singleInstance = None /\ singleInstance' = c /\ c # None
    BY <1>5 DEF Publish, Published
  <2> QED BY <1>5, <2>1, <2>2 DEF Publish
<1>6. CASE Unlock(c)
  BY <1>6 DEF Unlock
<1> QED BY <1>1, <1>2, <1>3, <1>4, <1>5, <1>6 DEF Call

LEMMA StartsStep ==
  ASSUME IInv, NEW c \in Callers, Call(c)
  PROVE  StartsInv'
<1> USE CallersAssumption
        DEF IInv, VarType, StartsInv, Goto, StartingUp, InStart, Locations
<1>1. CASE GetClient(c) \/ Lock(c) \/ IsInitialized(c) \/ GetMyUserInfo(c)
  BY <1>1 DEF GetClient, Lock, IsInitialized, GetMyUserInfo
<1>2. CASE CheckAgain(c)
  <2>1. CASE MustStart /\ starts' = starts + 1 /\ pc' = [pc EXCEPT ![c] = "readSecret"]
    <3>1. \A d \in Callers : pc[d] \notin StartingUp
      BY <1>2 DEF CheckAgain, LockInv, UnderLock
    <3>2. starts = 0
      BY <2>1, <3>1 DEF MustStart
    <3> QED BY <2>1, <3>2
  <2>2. CASE ~ MustStart /\ UNCHANGED <<singleInstance, starts>>
    BY <2>2 DEF MustStart
  <2> QED BY <1>2, <2>1, <2>2 DEF CheckAgain
<1>3. CASE ReadSecret(c) \/ NewClient(c) \/ VerifyConnection(c)
  BY <1>3 DEF ReadSecret, NewClient, VerifyConnection
<1>4. CASE Publish(c)
  BY <1>4 DEF Publish, Published
<1>5. CASE Unlock(c)
  BY <1>5 DEF Unlock, InstanceInv
<1> QED BY <1>1, <1>2, <1>3, <1>4, <1>5 DEF Call

LEMMA PasswordStep ==
  ASSUME IInv, NEW c \in Callers, Call(c)
  PROVE  PasswordInv'
<1> USE CallersAssumption DEF IInv, VarType, PasswordInv, serverVars
<1>1. CASE CheckAgain(c)
  BY <1>1 DEF CheckAgain
<1>2. CASE VerifyConnection(c)
  BY <1>2 DEF VerifyConnection, Accepted
<1>3. CASE UNCHANGED <<giteaClient, password>>
  BY <1>3
<1> QED BY <1>1, <1>2, <1>3 DEF Call, GetClient, Lock, ReadSecret, NewClient, Publish,
           Unlock, IsInitialized, GetMyUserInfo

LEMMA EnvironmentStep ==
  ASSUME IInv, Environment
  PROVE  LockInv' /\ InstanceInv' /\ StartsInv' /\ PasswordInv'
<1> USE CallersAssumption
        DEF IInv, VarType, LockInv, LockIsGivenBack, InstanceInv, StartsInv,
            PasswordInv, UnderLock, StartingUp, InStart, localVars, serverVars
<1>1. CASE Restart
  BY <1>1 DEF Restart
<1>2. CASE RotatePassword
  BY <1>2 DEF RotatePassword
<1>3. CASE Propagate \/ UpdateSecret \/ Outage \/ Recovery \/ UNCHANGED vars
  BY <1>3 DEF Propagate, UpdateSecret, Outage, Recovery, vars
<1> QED BY <1>1, <1>2, <1>3 DEF Environment

LEMMA InvStep == IInv /\ [Next]_vars => IInv'
<1> SUFFICES ASSUME IInv, [Next]_vars PROVE IInv'
  OBVIOUS
<1>1. ASSUME NEW c \in Callers, Call(c) PROVE IInv'
  <2>1. VarType'
    BY <1>1, TypeCall DEF IInv
  <2> QED BY <1>1, <2>1, LockStep, InstanceStep, StartsStep, PasswordStep DEF IInv
<1>2. CASE Environment
  <2>1. VarType'
    BY <1>2, TypeEnvironment DEF IInv
  <2>2. LockInv' /\ InstanceInv' /\ StartsInv' /\ PasswordInv'
    BY <1>2, EnvironmentStep
  <2> QED BY <2>1, <2>2 DEF IInv
<1> QED BY <1>1, <1>2 DEF Next, Environment

LEMMA Invariance == Spec => []IInv
BY InvInit, InvStep, PTL DEF Spec

-----------------------------------------------------------------------------
(* Every variable keeps its type. *)
THEOREM TypeSafety == Spec => []TypeOK
<1>1. Init => OtherType
  BY TypeInit
<1>2. OtherType /\ [Next]_vars => OtherType'
  BY OtherTypeStep
<1>3. IInv /\ OtherType => TypeOK
  BY DEF IInv, VarType, OtherType, TypeOK
<1> QED BY <1>1, <1>2, <1>3, Invariance, PTL DEF Spec

(* A process starts one client at most: the second check, under the lock,   *)
(* finds what a caller that came first has stored.                          *)
THEOREM StartedOnce == Spec => []OneStart
<1>1. IInv => OneStart
  BY DEF IInv, StartsInv, OneStart
<1> QED BY <1>1, Invariance, PTL

(* Nobody gets hold of an instance whose Start is still running.            *)
THEOREM NotHalfStarted == Spec => []NoneHalfStarted
<1>1. IInv => NoneHalfStarted
  BY DEF IInv, VarType, InstanceInv, NoneHalfStarted, StartingUp
<1> QED BY <1>1, Invariance, PTL

(* Whoever holds the mutex is on the way to its Unlock; without that        *)
(* EveryCallReturns has no chance.                                          *)
THEOREM LockGivenBack == Spec => []LockIsGivenBack
<1>1. IInv => LockIsGivenBack
  BY DEF IInv, LockInv
<1> QED BY <1>1, Invariance, PTL

-----------------------------------------------------------------------------
(* What a call does to the client is a start, or nothing: before the        *)
(* instance is stored there is no client, and after that it is not touched. *)
LEMMA LifecycleCall ==
  ASSUME IInv, NEW c \in Callers, Call(c)
  PROVE  Lifecycle!Start \/ UNCHANGED client
<1> USE CallersAssumption DEF IInv, VarType, client, serverVars
<1>1. CASE CheckAgain(c)
  <2>1. CASE MustStart
    BY <1>1, <2>1 DEF CheckAgain, MustStart, Making
  <2>2. CASE ~ MustStart
    BY <1>1, <2>2 DEF CheckAgain
  <2> QED BY <2>1, <2>2
<1>2. CASE VerifyConnection(c)
  <2>1. singleInstance = None
    BY <1>2 DEF VerifyConnection, InstanceInv, StartingUp, InStart
  <2> QED BY <1>2, <2>1 DEF VerifyConnection
<1>3. CASE Publish(c)
  <2>1. client = "nil"
    BY <1>3 DEF Publish, InstanceInv, StartingUp
  <2>2. client' \in {"uninitialized", "valid", "revoked"}
    BY <1>3 DEF Publish, Published
  <2> QED BY <2>1, <2>2 DEF Lifecycle!Start
<1>4. CASE UNCHANGED <<singleInstance, giteaClient, password>>
  BY <1>4
<1> QED BY <1>1, <1>2, <1>3, <1>4 DEF Call, GetClient, Lock, ReadSecret, NewClient,
           Unlock, IsInitialized, GetMyUserInfo

(* A rotation revokes a client that was valid, and no other.                *)
LEMMA LifecycleEnvironment ==
  ASSUME IInv, Environment
  PROVE  Lifecycle!Revoke \/ Lifecycle!Restart \/ UNCHANGED client
<1> USE CallersAssumption DEF IInv, VarType, client, serverVars
<1>1. CASE Restart
  BY <1>1 DEF Restart, Lifecycle!Restart
<1>2. CASE RotatePassword
  <2>1. singleInstance # None => giteaClient[singleInstance] # password + 1
    BY DEF PasswordInv
  <2> QED BY <1>2, <2>1 DEF RotatePassword, Lifecycle!Revoke
<1>3. CASE Propagate \/ UpdateSecret \/ Outage \/ Recovery \/ UNCHANGED vars
  BY <1>3 DEF Propagate, UpdateSecret, Outage, Recovery, vars
<1> QED BY <1>1, <1>2, <1>3 DEF Environment

(* The package, for any number of callers, implements the life of a client  *)
(* that NFReconfigController takes for granted.                             *)
THEOREM LifecycleHonoured == Spec => HonoursLifecycle
<1>1. Init => Lifecycle!Init
  BY DEF Init, client, Lifecycle!Init
<1>2. IInv /\ [Next]_vars => [Lifecycle!Next]_client
  <2> SUFFICES ASSUME IInv, [Next]_vars PROVE [Lifecycle!Next]_client
    OBVIOUS
  <2>1. ASSUME NEW c \in Callers, Call(c) PROVE [Lifecycle!Next]_client
    BY <2>1, LifecycleCall DEF Lifecycle!Next
  <2>2. CASE Environment
    BY <2>2, LifecycleEnvironment DEF Lifecycle!Next
  <2> QED BY <2>1, <2>2 DEF Next, Environment
<1> QED BY <1>1, <1>2, Invariance, PTL DEF Spec, HonoursLifecycle, Lifecycle!Spec
=============================================================================
