--------------------------- MODULE Reconfiguration ---------------------------
(***************************************************************************)
(* What the controller promises to the owners of the repositories and of   *)
(* the network functions, whatever it does in between: commits are paid    *)
(* for by requests, teardowns by commits, and a DU or CU-UP is only told   *)
(* what its CU was told.                                                   *)
(***************************************************************************)
EXTENDS Integers

CONSTANTS
  CUs,         \* manifests of CUs
  Dependents,  \* manifests of the DUs and CU-UPs
  Values       \* assignments of addresses

VARIABLES
  requests,    \* edits of the object and changes by other committers, so far
  told,        \* assignments committed to every manifest
  commits,     \* commits to every manifest
  teardowns    \* teardowns of every manifest's network function

vars == <<requests, told, commits, teardowns>>

Manifests == CUs \union Dependents

Init ==
  /\ requests = 0
  /\ told = [m \in Manifests |-> {}]
  /\ commits = [m \in Manifests |-> 0]
  /\ teardowns = [m \in Manifests |-> 0]

Request ==
  /\ requests' = requests + 1
  /\ UNCHANGED <<told, commits, teardowns>>

Publish(m, v) ==
  /\ commits[m] < requests
  /\ m \in Dependents => \E t \in CUs : v \in told[t]
  /\ commits' = [commits EXCEPT ![m] = @ + 1]
  /\ told' = [told EXCEPT ![m] = @ \union {v}]
  /\ UNCHANGED <<requests, teardowns>>

Teardown(m) ==
  /\ teardowns[m] < commits[m]
  /\ teardowns' = [teardowns EXCEPT ![m] = @ + 1]
  /\ UNCHANGED <<requests, told, commits>>

Next ==
  \/ Request
  \/ \E m \in Manifests, v \in Values : Publish(m, v)
  \/ \E m \in Manifests : Teardown(m)

Spec == Init /\ [][Next]_vars
=============================================================================
