------------------------- MODULE MCWorkloadClusters -------------------------
(* Instances of WorkloadClusters for TLC. *)
EXTENDS WorkloadClusters

CONSTANTS regional, edge, default, fleet

(* Two namespaces, and clusters of one name in both. *)
TwoNamespaces == {<<regional, default>>, <<regional, fleet>>, <<edge, fleet>>}

(* A CU is started again in regional; a DU and a CU-UP are in regional, a   *)
(* second CU-UP in edge.                                                    *)
CrossedRequests ==
  <<[name |-> regional, use |-> "teardown"], [name |-> regional, use |-> "sync"],
    [name |-> regional, use |-> "dependent"], [name |-> edge, use |-> "dependent"],
    [name |-> regional, use |-> "dependent"]>>
=============================================================================
