------------------------- MODULE MCNFReconfigObjects -------------------------
(* Instances of NFReconfigObjects for TLC. *)
EXTENDS NFReconfigObjects, TLC

CONSTANTS first, second, cu, cuup, du, upf, e1a, e1b, regional, edge, ran, core, ip1, ip2

(* One object for the first and one for the second interface between a CU    *)
(* and a CU-UP.  A UPF that no object names lives in the CU's namespace.     *)
TwoObjects == {first, second}

SharedElements == [o \in TwoObjects |-> <<cu, cuup>>]

OwnInterfaces == (first :> {e1a}) @@ (second :> {e1b})

(* One object with a CU, a CU-UP and a DU. *)
OneObject == {first}

TwoDependents == [o \in OneObject |-> <<cu, cuup, du>>]

OneInterface == [o \in OneObject |-> {e1a}]

ClusterOf ==
  (cu :> regional) @@ (upf :> regional) @@ (cuup :> edge) @@ (du :> edge)

NamespaceOf == (cu :> core) @@ (upf :> core) @@ (cuup :> ran) @@ (du :> ran)

Alike == [n \in NFs |-> [i \in Interfaces |-> ip1]]

(* The NF n has another address on the interface i than the others. *)
Apart(n, i) == [Alike EXCEPT ![n] = [@ EXCEPT ![i] = ip2]]

Repository(m, c) == [manifest |-> m, canonical |-> c]

(* Everything by hand, the NFs alike or not on the second interface; or the *)
(* CU as an earlier object left it.                                         *)
SharedRepositories ==
  {Repository(Alike, {}), Repository(Apart(cu, e1b), {}), Repository(Apart(cu, e1a), {cu})}

(* The DU is as an earlier object left it. *)
DUApart == {Repository(Apart(du, e1a), {du})}
=============================================================================
